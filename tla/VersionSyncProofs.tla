--------------------------- MODULE VersionSyncProofs ---------------------------
(***************************************************************************)
(* Proofs about VersionSync, for any users, slots and bounds: types and    *)
(* bounds whatever fails, and, where no COMMIT fails and no backup is      *)
(* restored, that a page at the server's version shows the server's data.  *)
(*                                                                         *)
(* The second needs what the board was at each version.  No variable       *)
(* remembers that; the invariant says that there is such a history H, that *)
(* every patch and every answer under way agrees with it, and that a page  *)
(* shows each slot as it was at the page's cursor or at a later version.   *)
(***************************************************************************)
EXTENDS VersionSync, FiniteSetTheorems, NaturalsInduction, SequenceTheorems, TLAPS

LEMMA SmallestExists ==
    ASSUME NEW S \in SUBSET Nat, S # {}
    PROVE  \E m \in S : \A n \in S : m <= n
<1>1. PICK m \in S : \A n \in S : ~(<<n, m>> \in OpToRel(<, Nat))
  BY NatLessThanWellFounded, WFMin
<1>2. ASSUME NEW n \in S PROVE m <= n
  <2>1. m \in Nat /\ n \in Nat /\ ~(n < m)
    BY <1>1 DEF OpToRel
  <2> QED  BY <2>1
<1> QED  BY <1>2

(* What PatchesSince and ApplyUnseen compute.                               *)

LEMMA LaterFinite ==
    ASSUME TypeOK, NEW n
    PROVE  /\ Later(n) \subseteq 1 .. Len(patches)
           /\ \A S \in SUBSET Later(n) : IsFiniteSet(S) /\ Cardinality(S) \in Nat
<1>1. Len(patches) \in Nat /\ Later(n) \subseteq 1 .. Len(patches)
  BY DEF TypeOK, Later
<1>2. IsFiniteSet(1 .. Len(patches))
  BY <1>1, FS_Interval
<1>3. ASSUME NEW S \in SUBSET Later(n) PROVE IsFiniteSet(S) /\ Cardinality(S) \in Nat
  BY <1>1, <1>2, FS_Subset, FS_CardinalityType
<1> QED  BY <1>1, <1>3

\* If patches are sent, they are one for each version after n, in order.
LEMMA PatchesSinceLeads ==
    ASSUME TypeOK, NEW n \in Versions, PatchesSince(n) # <<>>
    PROVE  /\ n <= version
           /\ PatchesSince(n) \in Seq(Patches)
           /\ Len(PatchesSince(n)) = version - n
           /\ \A i \in 1 .. version - n :
                 /\ PatchesSince(n)[i].version = n + i
                 /\ \E k \in DOMAIN patches : PatchesSince(n)[i] = patches[k]
<1> DEFINE Upto(k) == {j \in Later(n) : j <= k}
<1>0. /\ n \in Nat /\ version \in Nat /\ n <= version
      /\ \A k \in DOMAIN patches : patches[k] \in Patches /\ patches[k].version \in Nat
  <2>1. n \in Nat /\ version \in Nat
    BY DEF TypeOK, Versions
  <2>2. n <= version
    BY Zenon DEF PatchesSince
  <2>3. ASSUME NEW k \in DOMAIN patches PROVE patches[k] \in Patches /\ patches[k].version \in Nat
    <3>1. patches \in Seq(Patches)
      BY DEF TypeOK
    <3>2. patches[k] \in Patches
      BY <3>1
    <3> QED  BY <3>2 DEF Patches, Versions
  <2> QED  BY <2>1, <2>2, <2>3
<1>1. /\ \A k \in Later(n) : patches[k].version = n + Cardinality(Upto(k))
      /\ Cardinality(Later(n)) = version - n
      /\ PatchesSince(n) = [i \in 1 .. version - n |->
                              patches[CHOOSE k \in Later(n) : patches[k].version = n + i]]
  BY DEF PatchesSince
<1>2. ASSUME NEW j \in Later(n), NEW k \in Later(n), j < k
      PROVE  patches[j].version # patches[k].version
  <2>1. Upto(j) \in SUBSET Upto(k) /\ k \in Upto(k) /\ k \notin Upto(j) /\ j \in Nat /\ k \in Nat
    BY <1>2, LaterFinite
  <2>2. Upto(k) \in SUBSET Later(n) /\ Upto(j) \in SUBSET Later(n)
    OBVIOUS
  <2>3. Cardinality(Upto(j)) # Cardinality(Upto(k))
    BY <2>1, <2>2, LaterFinite, FS_Subset
  <2>4. Cardinality(Upto(j)) \in Nat /\ Cardinality(Upto(k)) \in Nat
    BY <2>2, LaterFinite
  <2> QED  BY <1>0, <1>1, <2>3, <2>4
<1>3. ASSUME NEW i \in 1 .. version - n PROVE \E k \in Later(n) : patches[k].version = n + i
  <2> DEFINE f == [k \in Later(n) |-> patches[k].version - n]
  <2>1. Later(n) \subseteq Nat
    BY LaterFinite
  <2>2. f \in [Later(n) -> 1 .. version - n]
    BY <1>0 DEF Later
  <2>3. \A j, k \in Later(n) : f[j] = f[k] => j = k
    BY <1>0, <1>2, <2>1 DEF Later
  <2>4. IsFiniteSet(1 .. version - n) /\ Cardinality(1 .. version - n) = version - n
    BY <1>0, FS_Interval
  <2>5. /\ IsFiniteSet((1 .. version - n) \ {i})
        /\ Cardinality((1 .. version - n) \ {i}) = version - n - 1
    BY <2>4, FS_RemoveElement
  <2>6. Cardinality((1 .. version - n) \ {i}) < Cardinality(Later(n)) /\ IsFiniteSet(Later(n))
    BY <1>0, <1>1, <2>5, LaterFinite
  <2>7. ASSUME \A k \in Later(n) : f[k] # i PROVE FALSE
    <3>1. f \in [Later(n) -> (1 .. version - n) \ {i}]
      BY <2>2, <2>7
    <3> HIDE DEF f
    <3>2. \E j, k \in Later(n) : j # k /\ f[j] = f[k]
      BY <2>5, <2>6, <3>1, FS_PigeonHole
    <3> QED  BY <2>3, <3>2
  <2>8. PICK k \in Later(n) : f[k] = i
    BY <2>7
  <2> QED  BY <1>0, <2>8 DEF Later
<1>4. \A i \in 1 .. version - n :
         /\ PatchesSince(n)[i].version = n + i
         /\ \E k \in DOMAIN patches : PatchesSince(n)[i] = patches[k]
  BY <1>1, <1>3 DEF Later
<1>5. PatchesSince(n) \in [1 .. version - n -> Patches]
  BY <1>0, <1>1, <1>3 DEF Later
<1>6. version - n \in Nat
  BY <1>0
<1>7. PatchesSince(n) \in Seq(Patches) /\ Len(PatchesSince(n)) = version - n
  BY <1>5, <1>6
<1> QED  BY <1>0, <1>4, <1>7

\* ApplyUnseen takes one patch after the other.
LEMMA ApplyUnseenSteps ==
    ASSUME NEW c, NEW ps, Len(ps) \in Nat
    PROVE  \E after :
              /\ after = [n \in 0 .. Len(ps) |->
                            IF n = 0 THEN view[c]
                            ELSE IF Unseen(c, ps[n]) THEN Apply(after[n-1], ps[n]) ELSE after[n-1]]
              /\ ApplyUnseen(c, ps) = after[Len(ps)]
<1> DEFINE Next1(n, b) == IF Unseen(c, ps[n]) THEN Apply(b, ps[n]) ELSE b
           IsAfter(g, m) == g = [n \in 0 .. m |-> IF n = 0 THEN view[c] ELSE Next1(n, g[n-1])]
           Without == {m \in Nat : ~\E g : IsAfter(g, m)}
<1>1. Without = {}
  <2> SUFFICES ASSUME Without # {} PROVE FALSE
    OBVIOUS
  <2>0. Without \in SUBSET Nat /\ Without # {}
    OBVIOUS
  <2>1. PICK m \in Without : \A n \in Without : m <= n
    BY ONLY <2>0, SmallestExists
  <2>2. CASE m = 0
    <3> DEFINE g == [n \in 0 .. 0 |-> view[c]]
    <3>1. IsAfter(g, 0)
      OBVIOUS
    <3> QED  BY <2>2, <3>1
  <2>3. CASE m # 0
    <3>1. m - 1 \in Nat /\ m - 1 \notin Without /\ m \in Nat
      <4> HIDE DEF Without
      <4>1. m \in Nat /\ ~(m <= m - 1)
        BY <2>0, <2>1
      <4> QED  BY <2>1, <2>3, <4>1
    <3>2. PICK g : IsAfter(g, m - 1)
      BY <3>1
    <3> HIDE DEF Next1
    <3> DEFINE G == [n \in 0 .. m |-> IF n = m THEN Next1(m, g[m-1]) ELSE g[n]]
    <3>3. \A n \in 0 .. m : G[n] = IF n = 0 THEN view[c] ELSE Next1(n, G[n-1])
      BY <2>3, <3>1, <3>2
    <3>4. IsAfter(G, m)
      BY <3>3
    <3> QED  BY <3>4
  <2> QED  BY <2>2, <2>3
<1>2. \E g : IsAfter(g, Len(ps))
  BY <1>1
<1>3. ApplyUnseen(c, ps) = (CHOOSE g : IsAfter(g, Len(ps)))[Len(ps)]
  BY DEF ApplyUnseen
<1>4. IsAfter(CHOOSE g : IsAfter(g, Len(ps)), Len(ps))
  BY ONLY <1>2
<1> QED  BY <1>3, <1>4

-----------------------------------------------------------------------------
(* Types and bounds, whatever fails.                                        *)

\* The version in the table is never ahead of the cached one, so a restart
\* stays within the bound.
TypeInv == TypeOK /\ persisted <= version

LEMMA VersionsAreNat == Versions \subseteq Nat /\ NoVersion \notin Versions /\ 0 \in Versions
BY NoVersionAssumption, MaxVersionAssumption DEF Versions

LEMMA ApplyTyped ==
    ASSUME NEW b \in Boards, NEW p \in Patches
    PROVE  Apply(b, p) \in Boards
BY DEF Apply, Boards, Cells, Patches

LEMMA ApplyUnseenTyped ==
    ASSUME TypeOK, NEW c \in Pages, NEW ps \in Seq(Patches)
    PROVE  ApplyUnseen(c, ps) \in Boards
<1>0. Len(ps) \in Nat /\ \A k \in 1 .. Len(ps) : ps[k] \in Patches
  OBVIOUS
<1>1. PICK after :
         /\ after = [n \in 0 .. Len(ps) |->
                       IF n = 0 THEN view[c]
                       ELSE IF Unseen(c, ps[n]) THEN Apply(after[n-1], ps[n]) ELSE after[n-1]]
         /\ ApplyUnseen(c, ps) = after[Len(ps)]
  BY <1>0, ApplyUnseenSteps
<1> DEFINE Bad == {n \in 0 .. Len(ps) : after[n] \notin Boards}
<1>2. Bad = {}
  <2> SUFFICES ASSUME Bad # {} PROVE FALSE
    OBVIOUS
  <2>0. Bad \in SUBSET Nat
    OBVIOUS
  <2>1. PICK n \in Bad : \A k \in Bad : n <= k
    BY <2>0, SmallestExists
  <2>2. after[0] \in Boards
    BY <1>0, <1>1 DEF TypeOK
  <2>3. n \in 1 .. Len(ps) /\ n - 1 \in 0 .. Len(ps)
    BY <1>0, <2>2
  <2>4. after[n-1] \in Boards
    BY <2>1, <2>3
  <2>5. after[n] = IF Unseen(c, ps[n]) THEN Apply(after[n-1], ps[n]) ELSE after[n-1]
    <3>1. n \in 0 .. Len(ps) /\ n # 0
      BY <2>3
    <3> QED  BY <1>1, <3>1
  <2> QED  BY <1>0, <2>3, <2>4, <2>5, ApplyTyped
<1> QED  BY <1>0, <1>1, <1>2

LEMMA MutationFields ==
    ASSUME TypeOK, NEW c \in Pages
    PROVE  /\ mutation[c] \in Mutations \cup {Idle}
           /\ Stage(mutation[c]) = "sent" => mutation[c].item \in Items /\ mutation[c].who \in Users \cup {Nobody}
           /\ Stage(mutation[c]) = "done" => mutation[c].patch \in Patches
           /\ Stage(mutation[c]) = "copied" => mutation[c].board \in Boards
<1>1. mutation[c] \in Mutations \cup {Idle}
  BY DEF TypeOK
<1> QED  BY <1>1 DEF Mutations, Stage

LEMMA RequestFields ==
    ASSUME TypeOK, NEW c \in Pages, NEW f \in Fetches
    PROVE  /\ fetch[c][f] \in Requests \cup {Idle}
           /\ fetch[c][f] # Idle => fetch[c][f].cursor \in Cursors
           /\ Stage(fetch[c][f]) \in {"same", "patches", "full"} => fetch[c][f].version \in Versions
           /\ Stage(fetch[c][f]) = "patches" => fetch[c][f].patches \in Seq(Patches)
           /\ Stage(fetch[c][f]) = "full" => fetch[c][f].board \in Boards
<1>1. fetch[c][f] \in Requests \cup {Idle}
  BY DEF TypeOK
<1> QED  BY <1>1 DEF Requests, Stage

\* One request of a page is put to another state.
LEMMA FetchTyped ==
    ASSUME TypeOK, NEW c \in Pages, NEW f \in Fetches, NEW r \in Requests \cup {Idle}
    PROVE  [fetch EXCEPT ![c][f] = r] \in [Pages -> [Fetches -> Requests \cup {Idle}]]
BY DEF TypeOK

LEMMA RememberTyped ==
    ASSUME TypeOK, NEW p \in Patches, NEW kind, RememberChange(kind, p)
    PROVE  patches' \in Seq(Patches) /\ Len(patches') <= MaxPatches
<1>0. patches \in Seq(Patches) /\ Len(patches) <= MaxPatches /\ MaxPatches \in Nat
  BY MaxPatchesAssumption DEF TypeOK
<1>1. CASE kind = "slot"
  <2>1. Append(patches, p) \in Seq(Patches) /\ Len(Append(patches, p)) = Len(patches) + 1
    BY <1>0
  <2>2. patches' = IF Len(patches) + 1 > MaxPatches THEN Tail(Append(patches, p)) ELSE Append(patches, p)
    BY <1>1, <2>1 DEF RememberChange, Remember
  <2>3. /\ Tail(Append(patches, p)) \in Seq(Patches)
        /\ Len(Tail(Append(patches, p))) = Len(patches)
    BY <1>0, <2>1
  <2> QED  BY <1>0, <2>1, <2>2, <2>3
<1>2. CASE kind # "slot"
  BY <1>0, <1>2 DEF RememberChange
<1> QED  BY <1>1, <1>2

LEMMA NextPatchTyped ==
    ASSUME TypeOK, version < MaxVersion, NEW i \in Items, NEW who \in Users \cup {Nobody}
    PROVE  NextPatch(i, who) \in Patches /\ version + 1 \in Versions
BY MaxVersionAssumption DEF TypeOK, NextPatch, Patches, Versions

ServerTyped ==
    /\ db \in Boards
    /\ persisted \in Versions /\ version \in Versions /\ persisted <= version
    /\ patches \in Seq(Patches) /\ Len(patches) <= MaxPatches

LEMMA CommitTyped ==
    ASSUME TypeInv, NEW p \in Patches, NEW kind, CommitPatch(kind, p) \/ RollBackPatch(kind, p)
    PROVE  ServerTyped'
<1>0. /\ db \in Boards /\ persisted \in Nat /\ version \in Nat /\ MaxVersion \in Nat
      /\ persisted <= version /\ version < MaxVersion
  BY MaxVersionAssumption DEF TypeInv, TypeOK, Versions, CommitPatch, RollBackPatch
<1>1. RememberChange(kind, p)
  BY DEF CommitPatch, RollBackPatch
<1>2. patches' \in Seq(Patches) /\ Len(patches') <= MaxPatches
  BY <1>1, RememberTyped DEF TypeInv
<1>3. CASE CommitPatch(kind, p)
  BY <1>0, <1>2, <1>3, ApplyTyped DEF CommitPatch, ServerTyped, Versions
<1>4. CASE RollBackPatch(kind, p)
  BY <1>0, <1>2, <1>4 DEF RollBackPatch, ServerTyped, Versions
<1> QED  BY <1>3, <1>4

LEMMA TypeInit == Init => TypeInv
<1> SUFFICES ASSUME Init PROVE TypeInv
  OBVIOUS
<1>1. EmptyBoard \in Boards
  BY VersionsAreNat DEF EmptyBoard, Boards, Cells
<1>2. patches \in Seq(Patches) /\ Len(patches) <= MaxPatches
  BY MaxPatchesAssumption DEF Init
<1> QED  BY <1>1, <1>2, VersionsAreNat DEF Init, TypeInv, TypeOK, Cursors

LEMMA TypeStep == TypeInv /\ [Next]_vars => TypeInv'
<1> SUFFICES ASSUME TypeInv, [Next]_vars PROVE TypeInv'
  OBVIOUS
<1>0. /\ TypeOK /\ persisted <= version /\ ServerTyped
      /\ view \in [Pages -> Boards]
      /\ cursor \in [Pages -> Cursors]
      /\ online \in [Pages -> BOOLEAN]
      /\ mutation \in [Pages -> Mutations \cup {Idle}]
      /\ fetch \in [Pages -> [Fetches -> Requests \cup {Idle}]]
      /\ Pages \subseteq Users
  BY PagesAssumption DEF TypeInv, TypeOK, ServerTyped
<1>1. ASSUME NEW kind \in {"slot", "bulk"}, NEW i \in Items, NEW who \in Users \cup {Nobody},
             OtherChange(kind, i, who)
      PROVE  TypeInv'
  <2>1. version < MaxVersion
    BY <1>1 DEF OtherChange, CommitPatch, RollBackPatch
  <2>2. ServerTyped'
    BY <1>0, <1>1, <2>1, CommitTyped, NextPatchTyped DEF OtherChange
  <2> QED  BY <1>0, <1>1, <2>2 DEF OtherChange, ServerTyped, TypeInv, TypeOK, pages
<1>2. ASSUME NEW c \in Pages, CommitMutation(c) PROVE TypeInv'
  <2>1. PICK p : /\ p = NextPatch(mutation[c].item, mutation[c].who)
                 /\ CommitPatch(mutation[c].kind, p)
                 /\ mutation' = [mutation EXCEPT ![c] = [at |-> "done", patch |-> p]]
    BY <1>2 DEF CommitMutation
  <2>2. p \in Patches
    BY <1>0, <1>2, <2>1, MutationFields, NextPatchTyped DEF CommitMutation, CommitPatch
  <2>3. ServerTyped'
    BY <1>0, <2>1, <2>2, CommitTyped
  <2>4. [at |-> "done", patch |-> p] \in Mutations
    BY <2>2 DEF Mutations
  <2> QED  BY <1>0, <1>2, <2>1, <2>3, <2>4 DEF CommitMutation, ServerTyped, TypeInv, TypeOK, pages
<1>3. ASSUME NEW c \in Pages, Restore(c) PROVE TypeInv'
  <2>1. version + 1 \in Versions /\ persisted + 1 \in Versions /\ persisted + 1 <= version + 1
    BY <1>0, <1>3, MaxVersionAssumption DEF Restore, ServerTyped, Versions
  <2>2. db' \in Boards
    BY <1>3, <2>1 DEF Restore, Boards, Cells
  <2>3. patches' \in Seq(Patches) /\ Len(patches') <= MaxPatches
    BY <1>3, MaxPatchesAssumption DEF Restore
  <2>4. [at |-> "restored"] \in Mutations
    BY DEF Mutations
  <2> QED  BY <1>0, <1>3, <2>1, <2>2, <2>3, <2>4 DEF Restore, TypeInv, TypeOK, pages
<1>4. ASSUME NEW c \in Pages, CopyRestored(c) PROVE TypeInv'
  <2>1. [at |-> "copied", board |-> db] \in Mutations
    BY <1>0 DEF Mutations, ServerTyped
  <2> QED  BY <1>0, <1>4, <2>1 DEF CopyRestored, ServerTyped, TypeInv, TypeOK, server, pages
<1>5. ASSUME NEW c \in Pages, NEW f \in Fetches, AnswerSync(c, f) PROVE TypeInv'
  <2>1. PICK n : n = fetch[c][f].cursor
    OBVIOUS
  <2>2. n \in Cursors /\ version \in Versions
    BY <1>0, <1>5, <2>1, RequestFields DEF AnswerSync, Stage, ServerTyped
  <2>3. [at |-> "same", cursor |-> n, version |-> version] \in Requests
    BY <2>2 DEF Requests
  <2>4. [at |-> "copying", cursor |-> n] \in Requests
    BY <2>2 DEF Requests
  <2>5. ASSUME n # NoVersion, PatchesSince(n) # <<>>
        PROVE  [at |-> "patches", cursor |-> n, version |-> version, patches |-> PatchesSince(n)] \in Requests
    <3>1. PatchesSince(n) \in Seq(Patches)
      BY <1>0, <2>2, <2>5, PatchesSinceLeads DEF Cursors
    <3> QED  BY <2>2, <3>1 DEF Requests
  <2>6. \E r \in Requests : fetch' = [fetch EXCEPT ![c][f] = r]
    BY <1>5, <2>1, <2>3, <2>4, <2>5 DEF AnswerSync
  <2>7. fetch' \in [Pages -> [Fetches -> Requests \cup {Idle}]]
    BY <1>0, <2>6, FetchTyped
  <2> QED  BY <1>0, <1>5, <2>7 DEF AnswerSync, TypeInv, TypeOK, server, pages
<1>6. ASSUME NEW c \in Pages, NEW f \in Fetches, AnswerBootstrap(c, f) PROVE TypeInv'
  <2>1. fetch[c][f].cursor \in Cursors
    BY <1>0, <1>6, RequestFields DEF AnswerBootstrap, Stage
  <2>2. [at |-> "full", cursor |-> fetch[c][f].cursor, version |-> version, board |-> db] \in Requests
    BY <1>0, <2>1 DEF Requests, ServerTyped
  <2>3. fetch' = [fetch EXCEPT ![c][f] = [at |-> "full", cursor |-> fetch[c][f].cursor,
                                          version |-> version, board |-> db]]
    BY <1>0, <1>6 DEF AnswerBootstrap
  <2>4. fetch' \in [Pages -> [Fetches -> Requests \cup {Idle}]]
    BY <1>0, <2>2, <2>3, FetchTyped
  <2> QED  BY <1>0, <1>6, <2>4 DEF AnswerBootstrap, TypeInv, TypeOK, server, pages
<1>7. CASE Restart
  <2>1. ASSUME NEW c \in Pages, NEW f \in Fetches, Stage(fetch[c][f]) = "copying"
        PROVE  [at |-> "asked", cursor |-> fetch[c][f].cursor] \in Requests
    <3>1. fetch[c][f].cursor \in Cursors
      BY <1>0, <2>1, RequestFields DEF Stage
    <3> QED  BY <3>1 DEF Requests
  <2>2. fetch' \in [Pages -> [Fetches -> Requests \cup {Idle}]]
    BY <1>0, <1>7, <2>1 DEF Restart
  <2>3. patches' \in Seq(Patches) /\ Len(patches') <= MaxPatches
    BY <1>7, MaxPatchesAssumption DEF Restart
  <2>4. persisted' <= version' /\ version' \in Versions
    BY <1>0, <1>7, VersionsAreNat DEF Restart, ServerTyped
  <2> QED  BY <1>0, <1>7, <2>2, <2>3, <2>4 DEF Restart, ServerTyped, TypeInv, TypeOK, pages
<1>8. ASSUME NEW c \in Pages, Login(c) PROVE TypeInv'
  <2>1. [at |-> "asked", cursor |-> NoVersion] \in Requests
    BY DEF Requests, Cursors
  <2>2. fetch' \in [Pages -> [Fetches -> Requests \cup {Idle}]]
    BY <1>0, <1>8, <2>1 DEF Login
  <2>3. mutation' \in [Pages -> Mutations \cup {Idle}]
    BY <1>0, <1>8 DEF Login
  <2>4. cursor' \in [Pages -> Cursors] /\ online' \in [Pages -> BOOLEAN]
    BY <1>0, <1>8 DEF Login, Cursors
  <2> QED  BY <1>0, <1>8, <2>2, <2>3, <2>4 DEF Login, TypeInv, TypeOK, server
<1>9. ASSUME NEW c \in Pages, NEW i \in Items, NEW kind \in {"slot", "bulk"}, NEW who \in {c, Nobody},
             SendMutation(c, kind, i, who)
      PROVE  TypeInv'
  <2>1. view[c][i].who \in Users \cup {Nobody} /\ who \in Users \cup {Nobody}
    BY <1>0 DEF Boards, Cells
  <2>2. [at |-> "sent", kind |-> kind, item |-> i, who |-> who, expected |-> view[c][i].who] \in Mutations
    BY <2>1 DEF Mutations
  <2> QED  BY <1>0, <1>9, <2>2 DEF SendMutation, TypeInv, TypeOK, server, pages
<1>10. ASSUME NEW c \in Pages, SendRestore(c) PROVE TypeInv'
  <2>1. [at |-> "restoring"] \in Mutations
    BY DEF Mutations
  <2> QED  BY <1>0, <1>10, <2>1 DEF SendRestore, TypeInv, TypeOK, server, pages
<1>11. ASSUME NEW c \in Pages, LoseMutation(c) PROVE TypeInv'
  BY <1>0, <1>11 DEF LoseMutation, TypeInv, TypeOK, server, pages
<1>12. ASSUME NEW c \in Pages, MutationAnswered(c) PROVE TypeInv'
  <2>1. PICK p : p = mutation[c].patch
    OBVIOUS
  <2>2. p \in Patches /\ p.version \in Versions
    BY <1>0, <1>12, <2>1, MutationFields DEF MutationAnswered, Patches
  <2>3. Plan(c, p.version).next \in Cursors
    BY <1>0, <2>2 DEF Plan, Cursors
  <2>4. Apply(view[c], p) \in Boards
    BY <1>0, <2>2, ApplyTyped
  <2>5. /\ view' = [view EXCEPT ![c] = IF Plan(c, p.version).apply THEN Apply(view[c], p) ELSE view[c]]
        /\ cursor' = [cursor EXCEPT ![c] = Plan(c, p.version).next]
    BY <1>0, <1>12, <2>1 DEF MutationAnswered
  <2>6. view' \in [Pages -> Boards] /\ cursor' \in [Pages -> Cursors]
    BY <1>0, <2>3, <2>4, <2>5
  <2> QED  BY <1>0, <1>12, <2>6 DEF MutationAnswered, TypeInv, TypeOK, server
<1>13. ASSUME NEW c \in Pages, RestoreAnswered(c) PROVE TypeInv'
  <2>1. mutation[c].board \in Boards
    BY <1>0, <1>13, MutationFields DEF RestoreAnswered
  <2> QED  BY <1>0, <1>13, <2>1 DEF RestoreAnswered, TypeInv, TypeOK, server
<1>14. ASSUME NEW c \in Pages, StartSync(c) PROVE TypeInv'
  <2>1. [at |-> "asked", cursor |-> cursor[c]] \in Requests
    BY <1>0 DEF Requests
  <2>2. fetch' \in [Pages -> [Fetches -> Requests \cup {Idle}]]
    BY <1>0, <1>14, <2>1, FetchTyped DEF StartSync, Fetches
  <2> QED  BY <1>0, <1>14, <2>2 DEF StartSync, TypeInv, TypeOK, server, pages
<1>15. ASSUME NEW c \in Pages, SyncAnswered(c) PROVE TypeInv'
  <2>1. PICK r : r = fetch[c]["sync"]
    OBVIOUS
  <2>2. /\ Stage(r) \in {"same", "patches", "full"} /\ r.at = Stage(r) /\ r.version \in Versions
        /\ r.at = "patches" => r.patches \in Seq(Patches)
        /\ r.at = "full" => r.board \in Boards
    <3>1. "sync" \in Fetches
      BY DEF Fetches
    <3>2. Stage(r) \in {"same", "patches", "full"}
      BY <1>15, <2>1 DEF SyncAnswered
    <3>3. r.at = Stage(r)
      BY <3>2 DEF Stage
    <3> QED  BY <1>0, <2>1, <3>1, <3>2, <3>3, RequestFields
  <2>3. \E b \in Boards : view' = [view EXCEPT ![c] = b]
    <3>1. CASE ~ShouldApply(c, r) \/ r.at = "same"
      BY <1>0, <1>15, <2>1, <3>1 DEF SyncAnswered
    <3>2. CASE ShouldApply(c, r) /\ r.at = "patches"
      <4>1. ApplyUnseen(c, r.patches) \in Boards
        BY <1>0, <2>2, <3>2, ApplyUnseenTyped
      <4>2. view' = [view EXCEPT ![c] = ApplyUnseen(c, r.patches)]
        BY <1>0, <1>15, <2>1, <3>2 DEF SyncAnswered
      <4> QED  BY <4>1, <4>2
    <3>3. CASE ShouldApply(c, r) /\ r.at = "full"
      <4>1. view' = [view EXCEPT ![c] = r.board]
        BY <1>0, <1>15, <2>1, <3>3 DEF SyncAnswered
      <4> QED  BY <2>2, <3>3, <4>1
    <3> QED  BY <2>2, <3>1, <3>2, <3>3
  <2>4. cursor' \in [Pages -> Cursors]
    BY <1>0, <1>15, <2>1, <2>2 DEF SyncAnswered, Cursors
  <2>5. view' \in [Pages -> Boards]
    BY <1>0, <2>3
  <2>6. fetch' \in [Pages -> [Fetches -> Requests \cup {Idle}]]
    BY <1>0, <1>15, FetchTyped DEF SyncAnswered, Fetches
  <2> QED  BY <1>0, <1>15, <2>4, <2>5, <2>6 DEF SyncAnswered, TypeInv, TypeOK, server
<1>16. ASSUME NEW c \in Pages, SyncFails(c) PROVE TypeInv'
  <2>1. fetch' \in [Pages -> [Fetches -> Requests \cup {Idle}]]
    BY <1>0, <1>16, FetchTyped DEF SyncFails, Fetches
  <2> QED  BY <1>0, <1>16, <2>1 DEF SyncFails, TypeInv, TypeOK, server, pages
<1>17. ASSUME NEW c \in Pages, InitAnswered(c) PROVE TypeInv'
  <2>1. "init" \in Fetches
    BY DEF Fetches
  <2>2. fetch[c]["init"].version \in Versions /\ fetch[c]["init"].board \in Boards
    BY <1>0, <1>17, <2>1, RequestFields DEF InitAnswered
  <2>3. view' \in [Pages -> Boards] /\ cursor' \in [Pages -> Cursors]
    BY <1>0, <1>17, <2>2 DEF InitAnswered, Cursors
  <2>4. fetch' \in [Pages -> [Fetches -> Requests \cup {Idle}]]
    BY <1>0, <1>17, <2>1, FetchTyped DEF InitAnswered
  <2> QED  BY <1>0, <1>17, <2>3, <2>4 DEF InitAnswered, TypeInv, TypeOK, server
<1>18. ASSUME NEW c \in Pages, InitFails(c) PROVE TypeInv'
  <2>1. fetch' \in [Pages -> [Fetches -> Requests \cup {Idle}]]
    BY <1>0, <1>18, FetchTyped DEF InitFails, Fetches
  <2> QED  BY <1>0, <1>18, <2>1 DEF InitFails, TypeInv, TypeOK, server
<1>19. CASE UNCHANGED vars
  BY <1>0, <1>19 DEF TypeInv, TypeOK, vars, server, pages
<1> QED  BY <1>1, <1>2, <1>3, <1>4, <1>5, <1>6, <1>7, <1>8, <1>9, <1>10, <1>11, <1>12, <1>13, <1>14,
            <1>15, <1>16, <1>17, <1>18, <1>19 DEF Next, ServerStep, PageStep

\* TypeOK: whatever fails, the queue is never longer than maxDataPatches_,
\* and everything under way is of the form the code gives it.
THEOREM TypeCorrect == Spec => []TypeOK
<1>1. TypeInv => TypeOK
  BY DEF TypeInv
<1> QED  BY TypeInit, TypeStep, <1>1, PTL DEF Spec

-----------------------------------------------------------------------------
(* The history of the board.                                                *)

Histories == [Nat -> Boards]

\* Patch p is the step of H to its version, which is one up to v.
Leads(H, v, p) == p.version \in 1 .. v /\ H[p.version] = Apply(H[p.version - 1], p)

\* An answer that was given by a server that went through H and is at v now.
Answered(H, v, r) ==
    /\ Stage(r) = "same" => r.version = r.cursor
    /\ Stage(r) = "patches" =>
          /\ r.cursor \in Nat /\ r.version \in r.cursor .. v
          /\ Len(r.patches) = r.version - r.cursor
          /\ \A k \in 1 .. Len(r.patches) :
                Leads(H, v, r.patches[k]) /\ r.patches[k].version = r.cursor + k
    /\ Stage(r) = "full" =>
          /\ r.version <= v /\ r.board = H[r.version]
          /\ r.cursor # NoVersion => r.cursor <= r.version

\* Board b has each slot as it was at n or later.
Shows(H, v, b, n) == \A i \in Items : \E m \in n .. v : b[i] = H[m][i]

Recorded(H) ==
    /\ persisted = version /\ H[version] = db
    /\ \A k \in DOMAIN patches : Leads(H, version, patches[k])

AnswersRecorded(H) ==
    \A c \in Pages :
        /\ Stage(mutation[c]) \in {"idle", "sent", "done"}
        /\ Stage(mutation[c]) = "done" => Leads(H, version, mutation[c].patch)
        /\ \A f \in Fetches : Answered(H, version, fetch[c][f])

\* No request of a page is ahead of its cursor.
Follows(H) ==
    \A c \in Pages :
        /\ cursor[c] # NoVersion => cursor[c] <= version /\ Shows(H, version, view[c], cursor[c])
        /\ \A f \in Fetches :
              fetch[c][f] # Idle /\ fetch[c][f].cursor # NoVersion =>
                 cursor[c] # NoVersion /\ fetch[c][f].cursor <= cursor[c]

IInv == TypeOK /\ \E H \in Histories : Recorded(H) /\ AnswersRecorded(H) /\ Follows(H)

\* What is of a history is of every longer one.
LEMMA LongerHistory ==
    ASSUME NEW H \in Histories, NEW G \in Histories, NEW v \in Nat, NEW w \in Nat, v <= w,
           \A n \in 0 .. v : G[n] = H[n]
    PROVE  /\ \A p : Leads(H, v, p) => Leads(G, w, p)
           /\ \A r \in Requests \cup {Idle} : Answered(H, v, r) => Answered(G, w, r)
           /\ \A b : \A n \in Nat : Shows(H, v, b, n) => Shows(G, w, b, n)
<1>1. ASSUME NEW p, Leads(H, v, p) PROVE Leads(G, w, p)
  <2>1. p.version \in 1 .. v /\ p.version \in 0 .. v /\ p.version - 1 \in 0 .. v /\ p.version \in 1 .. w
    BY <1>1 DEF Leads
  <2> QED  BY <1>1, <2>1 DEF Leads
<1>2. ASSUME NEW r \in Requests \cup {Idle}, Answered(H, v, r) PROVE Answered(G, w, r)
  <2>1. CASE Stage(r) = "patches"
    BY <1>1, <1>2, <2>1 DEF Answered
  <2>2. CASE Stage(r) = "full"
    <3>1. r.version \in Nat
      BY <2>2, VersionsAreNat DEF Requests, Stage
    <3> QED  BY <1>2, <2>2, <3>1 DEF Answered
  <2>3. CASE Stage(r) \notin {"patches", "full"}
    BY <1>2, <2>3 DEF Answered
  <2> QED  BY <2>1, <2>2, <2>3
<1>3. ASSUME NEW b, NEW n \in Nat, Shows(H, v, b, n) PROVE Shows(G, w, b, n)
  <2> SUFFICES ASSUME NEW i \in Items PROVE \E m \in n .. w : b[i] = G[m][i]
    BY DEF Shows
  <2>1. PICK m \in n .. v : b[i] = H[m][i]
    BY <1>3 DEF Shows
  <2>2. m \in n .. w /\ m \in 0 .. v
    BY <2>1
  <2> QED  BY <2>1, <2>2
<1> QED  BY <1>1, <1>2, <1>3

\* The next patch takes a page on by one version; a later one leaves it
\* where it is.
LEMMA ShowsPatch ==
    ASSUME NEW H \in Histories, NEW v \in Nat, NEW n \in Nat, NEW b \in Boards, NEW p \in Patches,
           Shows(H, v, b, n), Leads(H, v, p)
    PROVE  /\ p.version = n + 1 => Shows(H, v, Apply(b, p), n + 1)
           /\ p.version > n => Shows(H, v, Apply(b, p), n)
<1> DEFINE cell == [who |-> p.who, at |-> p.version]
<1>0. /\ p.version \in Nat /\ p.version <= v /\ p.version - 1 \in Nat
      /\ H[p.version] = [H[p.version - 1] EXCEPT ![p.item] = cell]
      /\ Apply(b, p) = [b EXCEPT ![p.item] = cell]
  BY DEF Leads, Apply
<1>1. H[p.version][p.item] = cell /\ Apply(b, p)[p.item] = cell
  BY <1>0 DEF Histories, Boards, Patches
<1>2. \A i \in Items \ {p.item} : Apply(b, p)[i] = b[i] /\ H[p.version][i] = H[p.version - 1][i]
  BY <1>0 DEF Histories, Boards
<1>3. ASSUME p.version = n + 1, NEW i \in Items PROVE \E m \in n + 1 .. v : Apply(b, p)[i] = H[m][i]
  <2>1. CASE i = p.item
    <3>1. p.version \in n + 1 .. v
      BY <1>0, <1>3
    <3>2. Apply(b, p)[i] = H[p.version][i]
      BY <1>1, <2>1
    <3> QED  BY <3>1, <3>2
  <2>2. CASE i # p.item
    <3>1. PICK m \in n .. v : b[i] = H[m][i]
      BY DEF Shows
    <3>2. CASE m = n
      <4>1. n + 1 \in n + 1 .. v /\ p.version - 1 = n
        BY <1>0, <1>3
      <4>2. Apply(b, p)[i] = H[n + 1][i]
        BY <1>2, <1>3, <2>2, <3>1, <3>2, <4>1
      <4> QED  BY <4>1, <4>2
    <3>3. CASE m # n
      BY <1>2, <2>2, <3>1, <3>3
    <3> QED  BY <3>2, <3>3
  <2> QED  BY <2>1, <2>2
<1>4. ASSUME p.version > n, NEW i \in Items PROVE \E m \in n .. v : Apply(b, p)[i] = H[m][i]
  <2>1. CASE i = p.item
    BY <1>0, <1>1, <1>4, <2>1
  <2>2. CASE i # p.item
    BY <1>2, <2>2 DEF Shows
  <2> QED  BY <2>1, <2>2
<1> QED  BY <1>3, <1>4 DEF Shows

\* Patches since a, applied by a page that is not behind a.
LEMMA ShowsPatches ==
    ASSUME TypeOK, NEW c \in Pages, NEW H \in Histories, NEW v \in Nat,
           cursor[c] \in Nat, Shows(H, v, view[c], cursor[c]),
           NEW ps \in Seq(Patches), NEW a \in Nat, a <= cursor[c], cursor[c] <= a + Len(ps),
           \A k \in 1 .. Len(ps) : Leads(H, v, ps[k]) /\ ps[k].version = a + k
    PROVE  Shows(H, v, ApplyUnseen(c, ps), a + Len(ps))
<1>0. /\ Len(ps) \in Nat /\ \A k \in 1 .. Len(ps) : ps[k] \in Patches
      /\ cursor[c] # NoVersion
  BY NoVersionAssumption
<1>1. PICK after :
         /\ after = [n \in 0 .. Len(ps) |->
                       IF n = 0 THEN view[c]
                       ELSE IF Unseen(c, ps[n]) THEN Apply(after[n-1], ps[n]) ELSE after[n-1]]
         /\ ApplyUnseen(c, ps) = after[Len(ps)]
  BY <1>0, ApplyUnseenSteps
<1> DEFINE Level(n) == IF a + n > cursor[c] THEN a + n ELSE cursor[c]
           Bad == {n \in 0 .. Len(ps) : ~(after[n] \in Boards /\ Shows(H, v, after[n], Level(n)))}
<1>2. Bad = {}
  <2> SUFFICES ASSUME Bad # {} PROVE FALSE
    OBVIOUS
  <2>0. Bad \in SUBSET Nat
    OBVIOUS
  <2>1. PICK n \in Bad : \A k \in Bad : n <= k
    BY <2>0, SmallestExists
  <2>2. after[0] \in Boards /\ Shows(H, v, after[0], Level(0))
    BY <1>0, <1>1 DEF TypeOK
  <2>3. n \in 1 .. Len(ps) /\ n - 1 \in 0 .. Len(ps) /\ n \in 0 .. Len(ps) /\ n # 0
    BY <1>0, <2>2
  <2>4. after[n-1] \in Boards /\ Shows(H, v, after[n-1], Level(n-1))
    BY <2>1, <2>3
  <2>5. after[n] = IF Unseen(c, ps[n]) THEN Apply(after[n-1], ps[n]) ELSE after[n-1]
    BY <1>1, <2>3
  <2>6. ps[n] \in Patches /\ Leads(H, v, ps[n]) /\ ps[n].version = a + n
    BY <1>0, <2>3
  <2>7. CASE a + n > cursor[c]
    <3>1. after[n] = Apply(after[n-1], ps[n])
      BY <2>5, <2>6, <2>7 DEF Unseen
    <3>2. Level(n-1) = a + (n - 1) /\ Level(n) = a + n /\ a + (n - 1) \in Nat /\ a + n = a + (n - 1) + 1
      <4>1. n \in Nat /\ n # 0 /\ cursor[c] \in Nat /\ a \in Nat
        BY <1>0, <2>3
      <4>2. Level(n-1) = a + (n - 1)
        BY <2>7, <4>1
      <4>3. Level(n) = a + n
        BY <2>7
      <4> QED  BY <4>1, <4>2, <4>3
    <3>3. Shows(H, v, after[n-1], a + (n - 1))
      BY <2>4, <3>2
    <3>4. Shows(H, v, after[n], a + n)
      BY <2>4, <2>6, <3>1, <3>2, <3>3, ShowsPatch
    <3> QED  BY <2>1, <2>4, <2>6, <3>1, <3>2, <3>4, ApplyTyped
  <2>8. CASE ~(a + n > cursor[c])
    <3>1. after[n] = after[n-1]
      BY <1>0, <2>5, <2>6, <2>8 DEF Unseen
    <3>2. Level(n-1) = cursor[c] /\ Level(n) = cursor[c]
      BY <1>0, <2>3, <2>8
    <3> QED  BY <2>1, <2>4, <3>1, <3>2
  <2> QED  BY <2>7, <2>8
<1>3. Shows(H, v, after[Len(ps)], Level(Len(ps)))
  BY <1>0, <1>2
<1>4. Level(Len(ps)) = a + Len(ps)
  BY <1>0
<1> QED  BY <1>1, <1>3, <1>4

-----------------------------------------------------------------------------
(* Every step keeps to a history, if no COMMIT fails and nothing is restored. *)

LEMMA HistoryInit == Init => IInv
<1> SUFFICES ASSUME Init PROVE IInv
  OBVIOUS
<1>1. TypeOK
  BY TypeInit DEF TypeInv
<1> DEFINE H == [n \in Nat |-> EmptyBoard]
<1>2. H \in Histories
  BY <1>1 DEF Init, TypeOK, Histories
<1>3. Recorded(H) /\ AnswersRecorded(H) /\ Follows(H)
  BY DEF Init, Recorded, AnswersRecorded, Answered, Follows, Stage
<1> QED  BY <1>1, <1>2, <1>3 DEF IInv

\* A commit goes on from the history.
LEMMA CommitExtends ==
    ASSUME TypeOK, NEW H \in Histories, Recorded(H), NEW kind, NEW p \in Patches,
           p.version = version + 1, CommitPatch(kind, p), db' \in Boards
    PROVE  \E G \in Histories : /\ \A n \in 0 .. version : G[n] = H[n]
                                /\ Recorded(G)' /\ Leads(G, version', p)
<1>0. version \in Nat /\ persisted \in Nat /\ patches \in Seq(Patches)
  BY VersionsAreNat DEF TypeOK
<1>1. PICK G : G = [H EXCEPT ![version + 1] = db']
  OBVIOUS
<1>2. /\ G \in Histories /\ \A n \in 0 .. version : G[n] = H[n]
      /\ G[version + 1] = Apply(G[version], p) /\ version' = version + 1
      /\ persisted' = version' /\ G[version'] = db'
  BY <1>0, <1>1 DEF Histories, CommitPatch, Recorded
<1>3. Leads(G, version', p)
  <2>1. p.version \in 1 .. version' /\ p.version = version + 1 /\ p.version - 1 = version
    BY <1>0, <1>2
  <2>2. G[p.version] = Apply(G[p.version - 1], p)
    BY <1>2, <2>1
  <2> QED  BY <2>1, <2>2 DEF Leads
<1>4. \A k \in DOMAIN patches : Leads(G, version', patches[k])
  BY <1>0, <1>2, LongerHistory DEF Recorded
<1>5. ASSUME NEW k \in DOMAIN patches' PROVE Leads(G, version', patches'[k])
  <2>1. \/ patches' = <<>> \/ patches' = Append(patches, p) \/ patches' = Tail(Append(patches, p))
    BY DEF CommitPatch, RememberChange, Remember
  <2>2. Append(patches, p) \in Seq(Patches) /\ Append(patches, p) # <<>>
    BY <1>0
  <2>3. \A j \in 1 .. Len(Append(patches, p)) : Leads(G, version', Append(patches, p)[j])
    BY <1>0, <1>3, <1>4
  <2>4. CASE patches' = Append(patches, p)
    BY <1>5, <2>2, <2>3, <2>4
  <2>5. CASE patches' = Tail(Append(patches, p))
    <3>1. patches'[k] = Append(patches, p)[k + 1] /\ k + 1 \in 1 .. Len(Append(patches, p))
      BY <1>5, <2>2, <2>5
    <3> QED  BY <2>3, <3>1
  <2> QED  BY <1>5, <2>1, <2>4, <2>5
<1> QED  BY <1>2, <1>3, <1>5 DEF Recorded

\* What a history, gone on with, says of the pages that did not move.
LEMMA PagesKept ==
    ASSUME TypeOK, NEW H \in Histories, AnswersRecorded(H), Follows(H),
           NEW G \in Histories, version' \in Nat, version <= version', \A n \in 0 .. version : G[n] = H[n],
           UNCHANGED <<pages, fetch>>
    PROVE  /\ \A c \in Pages : \A f \in Fetches : Answered(G, version', fetch[c][f])
           /\ \A c \in Pages : Stage(mutation[c]) = "done" => Leads(G, version', mutation[c].patch)
           /\ Follows(G)'
<1>0. version \in Nat
  BY VersionsAreNat DEF TypeOK
<1>1. ASSUME NEW c \in Pages, NEW f \in Fetches PROVE Answered(G, version', fetch[c][f])
  <2>1. Answered(H, version, fetch[c][f]) /\ fetch[c][f] \in Requests \cup {Idle}
    BY RequestFields DEF AnswersRecorded
  <2> QED  BY <1>0, <2>1, LongerHistory
<1>2. ASSUME NEW c \in Pages, Stage(mutation[c]) = "done" PROVE Leads(G, version', mutation[c].patch)
  BY <1>0, <1>2, LongerHistory DEF AnswersRecorded
<1>3. ASSUME NEW c \in Pages, cursor[c] # NoVersion
      PROVE  cursor[c] <= version' /\ Shows(G, version', view[c], cursor[c])
  <2>1. cursor[c] \in Nat /\ cursor[c] <= version /\ Shows(H, version, view[c], cursor[c])
    BY <1>3, VersionsAreNat DEF TypeOK, Cursors, Follows
  <2> QED  BY <1>0, <2>1, LongerHistory
<1> QED  BY <1>1, <1>2, <1>3 DEF Follows, pages

LEMMA HistoryServerStep ==
    ASSUME Faults = {}, IInv, TypeOK', ServerStep
    PROVE  IInv'
<1>0. TypeOK /\ version \in Nat /\ version' \in Nat
  BY VersionsAreNat DEF IInv, TypeOK
<1>1. PICK H \in Histories : Recorded(H) /\ AnswersRecorded(H) /\ Follows(H)
  BY DEF IInv
<1>2. ASSUME NEW kind, NEW p \in Patches, p.version = version + 1, CommitPatch(kind, p), UNCHANGED <<pages, fetch>>,
             \A c \in Pages : \/ mutation'[c] = mutation[c]
                              \/ mutation'[c] = [at |-> "done", patch |-> p]
      PROVE  IInv'
  <2>1. db' \in Boards /\ version <= version'
    BY <1>0, <1>2 DEF TypeOK, CommitPatch
  <2>2. PICK G \in Histories : /\ \A n \in 0 .. version : G[n] = H[n]
                               /\ Recorded(G)' /\ Leads(G, version', p)
    BY <1>0, <1>1, <1>2, <2>1, CommitExtends
  <2>3. /\ \A c \in Pages : \A f \in Fetches : Answered(G, version', fetch[c][f])
        /\ \A c \in Pages : Stage(mutation[c]) = "done" => Leads(G, version', mutation[c].patch)
        /\ Follows(G)'
    BY <1>0, <1>1, <1>2, <2>1, <2>2, PagesKept
  <2>4. ASSUME NEW c \in Pages
        PROVE  /\ Stage(mutation'[c]) \in {"idle", "sent", "done"}
               /\ Stage(mutation'[c]) = "done" => Leads(G, version', mutation'[c].patch)
    <3>1. CASE mutation'[c] = mutation[c]
      BY <1>1, <2>3, <3>1 DEF AnswersRecorded
    <3>2. CASE mutation'[c] = [at |-> "done", patch |-> p]
      BY <2>2, <3>2 DEF Stage
    <3> QED  BY <1>2, <3>1, <3>2
  <2>5. AnswersRecorded(G)'
    BY <1>2, <2>3, <2>4 DEF AnswersRecorded
  <2> QED  BY <2>2, <2>3, <2>5 DEF IInv
<1>3. ASSUME UNCHANGED <<db, persisted, version, pages>>, patches' \in {patches, <<>>},
             \A c \in Pages : mutation'[c] = mutation[c],
             \A c \in Pages : \A f \in Fetches :
                \/ fetch'[c][f] = fetch[c][f]
                \/ /\ fetch[c][f] # Idle /\ fetch'[c][f].cursor = fetch[c][f].cursor
                   /\ Answered(H, version, fetch'[c][f])
      PROVE  IInv'
  <2>1. Recorded(H)'
    BY <1>1, <1>3 DEF Recorded
  <2>2. AnswersRecorded(H)'
    BY <1>1, <1>3 DEF AnswersRecorded
  <2>3. Follows(H)'
    BY <1>1, <1>3 DEF Follows, pages
  <2> QED  BY <2>1, <2>2, <2>3 DEF IInv
<1>4. ASSUME NEW kind \in {"slot", "bulk"}, NEW i \in Items, NEW who \in Users \cup {Nobody},
             OtherChange(kind, i, who)
      PROVE  IInv'
  <2>1. CommitPatch(kind, NextPatch(i, who)) /\ UNCHANGED <<pages, mutation, fetch>>
    BY <1>4 DEF OtherChange, RollBackPatch
  <2>2. NextPatch(i, who) \in Patches /\ NextPatch(i, who).version = version + 1
    BY <1>0, <2>1, NextPatchTyped DEF CommitPatch, NextPatch
  <2> QED  BY <1>2, <2>1, <2>2
<1>5. ASSUME NEW c \in Pages, CommitMutation(c) PROVE IInv'
  <2>1. PICK p : /\ p = NextPatch(mutation[c].item, mutation[c].who)
                 /\ CommitPatch(mutation[c].kind, p)
                 /\ mutation' = [mutation EXCEPT ![c] = [at |-> "done", patch |-> p]]
                 /\ UNCHANGED <<pages, fetch>>
    BY <1>5 DEF CommitMutation
  <2>2. p \in Patches /\ p.version = version + 1
    <3>1. version < MaxVersion /\ Stage(mutation[c]) = "sent"
      BY <1>5, <2>1 DEF CommitMutation, CommitPatch
    <3>2. mutation[c].item \in Items /\ mutation[c].who \in Users \cup {Nobody}
      BY <1>0, <3>1, MutationFields
    <3> QED  BY <1>0, <2>1, <3>1, <3>2, NextPatchTyped DEF NextPatch
  <2> QED  BY <1>2, <2>1, <2>2
<1>6. ASSUME NEW c \in Pages PROVE ~Restore(c) /\ ~CopyRestored(c)
  BY <1>1 DEF AnswersRecorded, Restore, CopyRestored
<1>7. ASSUME NEW c \in Pages, NEW f \in Fetches, AnswerSync(c, f) PROVE IInv'
  <2>1. PICK n : n = fetch[c][f].cursor
    OBVIOUS
  <2>2. /\ fetch[c] \in [Fetches -> Requests \cup {Idle}] /\ fetch \in [Pages -> [Fetches -> Requests \cup {Idle}]]
        /\ fetch[c][f] # Idle /\ n \in Cursors
    BY <1>0, <1>7, <2>1, RequestFields DEF AnswerSync, Stage, TypeOK
  <2>3. PICK r : /\ fetch' = [fetch EXCEPT ![c][f] = r]
                 /\ \/ n = version /\ r = [at |-> "same", cursor |-> n, version |-> version]
                    \/ /\ n # NoVersion /\ PatchesSince(n) # <<>>
                       /\ r = [at |-> "patches", cursor |-> n, version |-> version, patches |-> PatchesSince(n)]
                    \/ r = [at |-> "copying", cursor |-> n]
    BY <1>7, <2>1 DEF AnswerSync
  <2>4. r.cursor = n
    BY <2>3
  <2>5. Answered(H, version, r)
    <3>1. CASE r = [at |-> "same", cursor |-> n, version |-> version]
      BY <2>3, <3>1 DEF Answered, Stage
    <3>2. CASE /\ n # NoVersion /\ PatchesSince(n) # <<>>
               /\ r = [at |-> "patches", cursor |-> n, version |-> version, patches |-> PatchesSince(n)]
      <4>1. n \in Versions /\ n \in Nat
        BY <2>2, <3>2, VersionsAreNat DEF Cursors
      <4>2. /\ n <= version /\ Len(PatchesSince(n)) = version - n
            /\ \A k \in 1 .. version - n :
                  /\ PatchesSince(n)[k].version = n + k
                  /\ \E j \in DOMAIN patches : PatchesSince(n)[k] = patches[j]
        BY <1>0, <3>2, <4>1, PatchesSinceLeads
      <4>3. \A k \in 1 .. version - n : Leads(H, version, PatchesSince(n)[k])
        BY <1>1, <4>2 DEF Recorded
      <4>4. version \in n .. version
        BY <1>0, <4>1, <4>2
      <4> QED  BY <3>2, <4>1, <4>2, <4>3, <4>4 DEF Answered, Stage
    <3>3. CASE r = [at |-> "copying", cursor |-> n]
      BY <3>3 DEF Answered, Stage
    <3> QED  BY <2>3, <3>1, <3>2, <3>3
  <2>6. UNCHANGED <<db, persisted, version, pages, mutation, patches>>
    BY <1>7 DEF AnswerSync, server
  <2>7. \A d \in Pages : \A g \in Fetches :
           \/ fetch'[d][g] = fetch[d][g]
           \/ d = c /\ g = f /\ fetch'[d][g] = r
    BY <2>2, <2>3
  <2> QED  BY <1>3, <2>1, <2>2, <2>4, <2>5, <2>6, <2>7
<1>8. ASSUME NEW c \in Pages, NEW f \in Fetches, AnswerBootstrap(c, f) PROVE IInv'
  <2>1. PICK r : r = [at |-> "full", cursor |-> fetch[c][f].cursor, version |-> version, board |-> db]
    OBVIOUS
  <2>2. /\ fetch \in [Pages -> [Fetches -> Requests \cup {Idle}]]
        /\ fetch[c][f] # Idle /\ fetch[c][f].cursor \in Cursors
    BY <1>0, <1>8, RequestFields DEF AnswerBootstrap, Stage, TypeOK
  <2>3. fetch' = [fetch EXCEPT ![c][f] = r]
    BY <1>8, <2>1, <2>2 DEF AnswerBootstrap
  <2>4. fetch[c][f].cursor # NoVersion => fetch[c][f].cursor <= version
    <3> SUFFICES ASSUME fetch[c][f].cursor # NoVersion PROVE fetch[c][f].cursor <= version
      OBVIOUS
    <3>1. cursor[c] # NoVersion /\ fetch[c][f].cursor <= cursor[c] /\ cursor[c] <= version
      BY <1>1, <2>2 DEF Follows
    <3>2. cursor[c] \in Nat /\ fetch[c][f].cursor \in Nat
      BY <1>0, <2>2, <3>1, VersionsAreNat DEF TypeOK, Cursors
    <3> QED  BY <1>0, <3>1, <3>2
  <2>5. Answered(H, version, r)
    BY <1>0, <1>1, <2>1, <2>4 DEF Answered, Stage, Recorded
  <2>6. UNCHANGED <<db, persisted, version, pages, mutation, patches>>
    BY <1>8 DEF AnswerBootstrap, server
  <2>7. \A d \in Pages : \A g \in Fetches :
           \/ fetch'[d][g] = fetch[d][g]
           \/ d = c /\ g = f /\ fetch'[d][g] = r
    BY <2>2, <2>3
  <2> QED  BY <1>3, <2>1, <2>2, <2>5, <2>6, <2>7
<1>9. CASE Restart
  <2>1. UNCHANGED <<db, persisted, version, pages, mutation>> /\ patches' = <<>>
    BY <1>1, <1>9 DEF Restart, Recorded
  <2>2. \A c \in Pages : \A f \in Fetches :
           \/ fetch'[c][f] = fetch[c][f]
           \/ /\ Stage(fetch[c][f]) = "copying"
              /\ fetch'[c][f] = [at |-> "asked", cursor |-> fetch[c][f].cursor]
    BY <1>9 DEF Restart
  <2>3. ASSUME NEW r PROVE Answered(H, version, [at |-> "asked", cursor |-> r])
    BY DEF Answered, Stage
  <2>4. ASSUME NEW c \in Pages, NEW f \in Fetches
        PROVE  \/ fetch'[c][f] = fetch[c][f]
               \/ /\ fetch[c][f] # Idle /\ fetch'[c][f].cursor = fetch[c][f].cursor
                  /\ Answered(H, version, fetch'[c][f])
    <3>1. CASE fetch'[c][f] = fetch[c][f]
      BY <3>1
    <3>2. CASE /\ Stage(fetch[c][f]) = "copying"
               /\ fetch'[c][f] = [at |-> "asked", cursor |-> fetch[c][f].cursor]
      <4>1. fetch[c][f] # Idle
        BY <3>2 DEF Stage
      <4>2. fetch'[c][f].cursor = fetch[c][f].cursor
        BY <3>2
      <4>3. Answered(H, version, fetch'[c][f])
        BY <2>3, <3>2
      <4> QED  BY <4>1, <4>2, <4>3
    <3> QED  BY <2>2, <3>1, <3>2
  <2> QED  BY <1>3, <2>1, <2>4
<1> QED  BY <1>4, <1>5, <1>6, <1>7, <1>8, <1>9 DEF ServerStep

LEMMA HistoryPageStep ==
    ASSUME Faults = {}, IInv, TypeOK', NEW c \in Pages, PageStep(c)
    PROVE  IInv'
<1>0. /\ TypeOK /\ version \in Nat /\ "sync" \in Fetches /\ "init" \in Fetches
      /\ view \in [Pages -> Boards] /\ cursor \in [Pages -> Cursors]
      /\ mutation \in [Pages -> Mutations \cup {Idle}]
      /\ fetch \in [Pages -> [Fetches -> Requests \cup {Idle}]]
      /\ cursor[c] \in Nat \cup {NoVersion} /\ view[c] \in Boards
  BY VersionsAreNat DEF IInv, TypeOK, Fetches, Cursors
<1>1. PICK H \in Histories : Recorded(H) /\ AnswersRecorded(H) /\ Follows(H)
  BY DEF IInv
\* It is enough to look at page c.
<1>2. ASSUME UNCHANGED server,
             \A d \in Pages \ {c} : UNCHANGED <<view[d], cursor[d], mutation[d], fetch[d]>>,
             \/ UNCHANGED mutation[c]
             \/ Stage(mutation'[c]) \in {"idle", "sent"},
             \A f \in Fetches : \/ UNCHANGED fetch[c][f]
                                \/ Stage(fetch'[c][f]) \in {"idle", "asked"},
             cursor'[c] # NoVersion =>
                cursor'[c] <= version /\ Shows(H, version, view'[c], cursor'[c]),
             \A f \in Fetches : fetch'[c][f] # Idle /\ fetch'[c][f].cursor # NoVersion =>
                cursor'[c] # NoVersion /\ fetch'[c][f].cursor <= cursor'[c]
      PROVE  IInv'
  <2>1. Recorded(H)'
    BY <1>1, <1>2 DEF Recorded, server
  <2>2. AnswersRecorded(H)'
    <3>1. ASSUME NEW d \in Pages
          PROVE  /\ Stage(mutation'[d]) \in {"idle", "sent", "done"}
                 /\ Stage(mutation'[d]) = "done" => Leads(H, version, mutation'[d].patch)
      BY <1>1, <1>2 DEF AnswersRecorded
    <3>2. ASSUME NEW d \in Pages, NEW f \in Fetches PROVE Answered(H, version, fetch'[d][f])
      <4>1. CASE fetch'[d][f] = fetch[d][f]
        BY <1>1, <4>1 DEF AnswersRecorded
      <4>2. CASE Stage(fetch'[d][f]) \in {"idle", "asked"}
        BY <4>2 DEF Answered
      <4> QED  BY <1>2, <4>1, <4>2
    <3> QED  BY <1>2, <3>1, <3>2 DEF AnswersRecorded, server
  <2>3. Follows(H)'
    BY <1>1, <1>2 DEF Follows, server
  <2> QED  BY <2>1, <2>2, <2>3 DEF IInv
\* The page takes over version v.
<1>3. ASSUME NEW v \in Nat, v <= version, cursor[c] # NoVersion => cursor[c] <= v,
             UNCHANGED <<server, online, mutation>>, NEW f \in Fetches,
             NEW b, Shows(H, version, b, v), view' = [view EXCEPT ![c] = b],
             cursor' = [cursor EXCEPT ![c] = v], fetch' = [fetch EXCEPT ![c][f] = Idle]
      PROVE  IInv'
  <2>1. /\ view'[c] = b /\ cursor'[c] = v /\ v # NoVersion
        /\ fetch'[c][f] = Idle /\ \A g \in Fetches \ {f} : fetch'[c][g] = fetch[c][g]
        /\ \A d \in Pages \ {c} : UNCHANGED <<view[d], cursor[d], mutation[d], fetch[d]>>
    BY <1>0, <1>3, NoVersionAssumption
  <2>2. ASSUME NEW g \in Fetches, fetch'[c][g] # Idle, fetch'[c][g].cursor # NoVersion
        PROVE  fetch'[c][g].cursor <= v
    <3>1. fetch'[c][g] = fetch[c][g]
      BY <2>1, <2>2
    <3>2. cursor[c] # NoVersion /\ fetch[c][g].cursor <= cursor[c]
      BY <1>1, <2>2, <3>1 DEF Follows
    <3>3. fetch[c][g].cursor \in Nat
      BY <1>0, <2>2, <3>1, RequestFields, VersionsAreNat DEF Cursors
    <3> QED  BY <1>0, <1>3, <3>1, <3>2, <3>3
  <2>3. Stage(Idle) = "idle"
    BY DEF Stage
  <2> QED  BY <1>2, <1>3, <2>1, <2>2, <2>3
<1>4. CASE Login(c)
  <2>1. /\ UNCHANGED <<server, view>> /\ cursor'[c] = NoVersion
        /\ \A d \in Pages \ {c} : UNCHANGED <<view[d], cursor[d], mutation[d], fetch[d]>>
        /\ mutation'[c] = mutation[c] \/ Stage(mutation'[c]) = "idle"
    BY <1>0, <1>4 DEF Login, Stage
  <2>2. ASSUME NEW f \in Fetches
        PROVE  /\ Stage(fetch'[c][f]) \in {"idle", "asked"}
               /\ fetch'[c][f] # Idle => fetch'[c][f].cursor = NoVersion
    BY <1>0, <1>4, <2>2 DEF Login, Stage
  <2> QED  BY <1>2, <2>1, <2>2
<1>5. ASSUME NEW i \in Items, NEW kind \in {"slot", "bulk"}, NEW who \in {c, Nobody}, SendMutation(c, kind, i, who)
      PROVE  IInv'
  <2>1. Stage(mutation'[c]) \in {"idle", "sent"}
    BY <1>0, <1>5 DEF SendMutation, Stage
  <2> QED  BY <1>0, <1>1, <1>2, <1>5, <2>1 DEF SendMutation, pages, Follows
<1>6. CASE LoseMutation(c)
  <2>1. Stage(mutation'[c]) = "idle"
    BY <1>0, <1>6 DEF LoseMutation, Stage
  <2> QED  BY <1>0, <1>1, <1>2, <1>6, <2>1 DEF LoseMutation, pages, Follows
<1>7. CASE MutationAnswered(c)
  <2>1. PICK p : p = mutation[c].patch
    OBVIOUS
  <2>2. /\ Stage(mutation[c]) = "done" /\ p \in Patches /\ p.version \in Nat /\ p.version <= version
        /\ Leads(H, version, p)
    <3>1. Stage(mutation[c]) = "done"
      BY <1>7 DEF MutationAnswered
    <3> QED  BY <1>0, <1>1, <2>1, <3>1, MutationFields, VersionsAreNat DEF AnswersRecorded, Leads, Patches
  <2>3. PICK plan : plan = Plan(c, p.version)
    OBVIOUS
  <2>4. /\ view' = [view EXCEPT ![c] = IF plan.apply THEN Apply(view[c], p) ELSE view[c]]
        /\ cursor' = [cursor EXCEPT ![c] = plan.next]
        /\ mutation' = [mutation EXCEPT ![c] = Idle] /\ UNCHANGED <<server, online, fetch>>
    BY <1>0, <1>7, <2>1, <2>3 DEF MutationAnswered
  <2>5. /\ \A d \in Pages \ {c} : UNCHANGED <<view[d], cursor[d], mutation[d], fetch[d]>>
        /\ UNCHANGED fetch[c] /\ Stage(mutation'[c]) = "idle"
    BY <1>0, <2>4 DEF Stage
  <2>6. CASE cursor[c] = NoVersion
    <3>1. cursor'[c] = NoVersion
      BY <1>0, <2>3, <2>4, <2>6 DEF Plan
    <3> QED  BY <1>1, <1>2, <2>4, <2>5, <2>6, <3>1 DEF Follows
  <2>7. CASE cursor[c] # NoVersion
    <3>1. cursor[c] \in Nat /\ cursor[c] <= version /\ Shows(H, version, view[c], cursor[c])
      BY <1>0, <1>1, <2>7 DEF Follows
    <3>2. /\ plan.apply <=> p.version > cursor[c]
          /\ plan.next = IF p.version = cursor[c] + 1 THEN p.version ELSE cursor[c]
      BY <2>3, <2>7 DEF Plan
    <3>3. /\ cursor'[c] \in Nat /\ cursor[c] <= cursor'[c] /\ cursor'[c] <= version
          /\ Shows(H, version, view'[c], cursor'[c])
      <4>1. CASE p.version = cursor[c] + 1
        <5>1. plan.apply /\ plan.next = cursor[c] + 1
          BY <2>2, <3>1, <3>2, <4>1
        <5>2. view'[c] = Apply(view[c], p) /\ cursor'[c] = cursor[c] + 1
          BY <1>0, <2>4, <5>1
        <5>3. Shows(H, version, Apply(view[c], p), cursor[c] + 1)
          BY <1>0, <2>2, <3>1, <4>1, ShowsPatch
        <5>4. cursor[c] + 1 <= version
          BY <2>2, <4>1
        <5> QED  BY <3>1, <5>2, <5>3, <5>4
      <4>2. CASE p.version > cursor[c] /\ p.version # cursor[c] + 1
        BY <1>0, <2>2, <2>4, <3>1, <3>2, <4>2, ShowsPatch
      <4>3. CASE ~(p.version > cursor[c])
        <5>1. ~plan.apply /\ plan.next = cursor[c]
          BY <2>2, <3>1, <3>2, <4>3
        <5>2. view'[c] = view[c] /\ cursor'[c] = cursor[c]
          BY <1>0, <2>4, <5>1
        <5> QED  BY <3>1, <5>2
      <4> QED  BY <4>1, <4>2, <4>3
    <3>4. ASSUME NEW f \in Fetches, fetch'[c][f] # Idle, fetch'[c][f].cursor # NoVersion
          PROVE  fetch'[c][f].cursor <= cursor'[c]
      <4>1. fetch'[c][f] = fetch[c][f] /\ fetch[c][f].cursor <= cursor[c]
        BY <1>1, <2>4, <3>4 DEF Follows
      <4>2. fetch[c][f].cursor \in Nat
        BY <1>0, <3>4, <4>1, RequestFields, VersionsAreNat DEF Cursors
      <4> QED  BY <3>1, <3>3, <4>1, <4>2
    <3>5. cursor'[c] # NoVersion
      BY <3>3, NoVersionAssumption
    <3> QED  BY <1>2, <2>4, <2>5, <3>3, <3>4, <3>5
  <2> QED  BY <2>6, <2>7
<1>8. CASE StartSync(c)
  <2>1. /\ UNCHANGED <<server, pages, mutation>>
        /\ \A d \in Pages \ {c} : fetch'[d] = fetch[d]
        /\ \A f \in Fetches \ {"sync"} : fetch'[c][f] = fetch[c][f]
        /\ fetch'[c]["sync"] = [at |-> "asked", cursor |-> cursor[c]]
    BY <1>0, <1>8 DEF StartSync
  <2>2. Stage(fetch'[c]["sync"]) \in {"idle", "asked"} /\ fetch'[c]["sync"].cursor = cursor[c]
    BY <2>1 DEF Stage
  <2>3. cursor[c] # NoVersion => cursor[c] <= cursor[c]
    BY <1>0
  <2> QED  BY <1>1, <1>2, <2>1, <2>2, <2>3 DEF Follows, pages
<1>9. CASE SyncFails(c) \/ InitFails(c)
  <2>1. UNCHANGED <<server, view, cursor, mutation>> /\ \E f \in Fetches : fetch' = [fetch EXCEPT ![c][f] = Idle]
    BY <1>0, <1>9 DEF SyncFails, InitFails, pages
  <2>2. /\ \A d \in Pages \ {c} : fetch'[d] = fetch[d]
        /\ \A f \in Fetches : fetch'[c][f] = fetch[c][f] \/ fetch'[c][f] = Idle
    BY <1>0, <2>1
  <2>3. Stage(Idle) = "idle"
    BY DEF Stage
  <2> QED  BY <1>1, <1>2, <2>1, <2>2, <2>3 DEF Follows
<1>10. CASE InitAnswered(c)
  <2>1. PICK r : r = fetch[c]["init"]
    OBVIOUS
  <2>2. Stage(r) = "full" /\ r # Idle /\ r.version \in Nat /\ r.version <= version /\ r.board = H[r.version]
    <3>1. Stage(r) = "full"
      BY <1>10, <2>1 DEF InitAnswered
    <3>2. r # Idle
      BY <3>1 DEF Stage
    <3> QED  BY <1>0, <1>1, <2>1, <3>1, <3>2, RequestFields, VersionsAreNat DEF AnswersRecorded, Answered
  <2>3. CASE cursor[c] # NoVersion => r.version >= cursor[c]
    <3>1. /\ view' = [view EXCEPT ![c] = r.board] /\ cursor' = [cursor EXCEPT ![c] = r.version]
          /\ fetch' = [fetch EXCEPT ![c]["init"] = Idle] /\ UNCHANGED <<server, online, mutation>>
      BY <1>0, <1>10, <2>1, <2>3 DEF InitAnswered
    <3>2. Shows(H, version, r.board, r.version)
      <4>1. r.version \in r.version .. version
        BY <1>0, <2>2
      <4> QED  BY <2>2, <4>1 DEF Shows
    <3>3. cursor[c] # NoVersion => cursor[c] <= r.version
      BY <1>0, <2>2, <2>3
    <3> QED  BY <1>0, <1>3, <2>2, <3>1, <3>2, <3>3
  <2>4. CASE ~(cursor[c] # NoVersion => r.version >= cursor[c])
    <3>1. /\ UNCHANGED <<server, view, cursor, mutation>>
          /\ \A d \in Pages \ {c} : fetch'[d] = fetch[d]
          /\ \A f \in Fetches : fetch'[c][f] = fetch[c][f] \/ fetch'[c][f] = Idle
      BY <1>0, <1>10, <2>1, <2>4 DEF InitAnswered
    <3>2. Stage(Idle) = "idle"
      BY DEF Stage
    <3> QED  BY <1>1, <1>2, <3>1, <3>2 DEF Follows
  <2> QED  BY <2>3, <2>4
<1>11. ASSUME SyncAnswered(c) PROVE IInv'
  <2>1. PICK r : r = fetch[c]["sync"]
    OBVIOUS
  <2>2. /\ Stage(r) \in {"same", "patches", "full"} /\ r # Idle /\ r.at = Stage(r)
        /\ r.version \in Nat /\ r.cursor \in Nat \cup {NoVersion} /\ Answered(H, version, r)
        /\ r.at = "patches" => r.patches \in Seq(Patches)
    <3>1. Stage(r) \in {"same", "patches", "full"}
      BY <1>11, <2>1 DEF SyncAnswered
    <3>2. r # Idle /\ r.at = Stage(r)
      BY <3>1 DEF Stage
    <3> QED  BY <1>0, <1>1, <2>1, <3>1, <3>2, RequestFields, VersionsAreNat DEF AnswersRecorded, Cursors
  <2>3. r.cursor # NoVersion => cursor[c] \in Nat /\ cursor[c] # NoVersion /\ r.cursor <= cursor[c]
    BY <1>0, <1>1, <2>1, <2>2 DEF Follows
  <2>4. cursor[c] # NoVersion => cursor[c] <= version /\ Shows(H, version, view[c], cursor[c])
    BY <1>1 DEF Follows
  <2>5. UNCHANGED <<server, online, mutation>> /\ fetch' = [fetch EXCEPT ![c]["sync"] = Idle]
    BY <1>11 DEF SyncAnswered
  <2>6. CASE ~ShouldApply(c, r)
    <3>1. view' = view /\ cursor' = cursor
      BY <1>0, <1>11, <2>1, <2>6 DEF SyncAnswered
    <3>2. /\ \A d \in Pages \ {c} : fetch'[d] = fetch[d]
          /\ \A f \in Fetches : fetch'[c][f] = fetch[c][f] \/ fetch'[c][f] = Idle
      BY <1>0, <2>5
    <3>3. Stage(Idle) = "idle"
      BY DEF Stage
    <3> QED  BY <1>1, <1>2, <2>5, <3>1, <3>2, <3>3 DEF Follows
  <2>7. CASE ShouldApply(c, r)
    <3>1. cursor' = [cursor EXCEPT ![c] = r.version]
      BY <1>11, <2>1, <2>7 DEF SyncAnswered
    <3>2. CASE r.at = "same"
      <4>1. view' = [view EXCEPT ![c] = view[c]]
        BY <1>11, <2>1, <3>2 DEF SyncAnswered
      <4>2. r.version = r.cursor /\ r.cursor # NoVersion
        BY <2>2, <3>2, NoVersionAssumption DEF Answered
      <4>3. r.version = cursor[c]
        BY <2>2, <2>3, <2>7, <4>2 DEF ShouldApply
      <4> QED  BY <1>0, <1>3, <2>2, <2>3, <2>4, <2>5, <3>1, <4>1, <4>2, <4>3
    <3>3. CASE r.at = "patches"
      <4>1. view' = [view EXCEPT ![c] = ApplyUnseen(c, r.patches)]
        BY <1>11, <2>1, <2>7, <3>3 DEF SyncAnswered
      <4>2. /\ r.cursor \in Nat /\ r.cursor # NoVersion /\ r.cursor <= r.version /\ r.version <= version
            /\ Len(r.patches) = r.version - r.cursor
            /\ \A k \in 1 .. Len(r.patches) :
                  Leads(H, version, r.patches[k]) /\ r.patches[k].version = r.cursor + k
        BY <1>0, <2>2, <3>3, NoVersionAssumption DEF Answered
      <4>3. cursor[c] \in Nat /\ r.cursor <= cursor[c] /\ cursor[c] <= r.version
        BY <2>2, <2>3, <2>7, <4>2 DEF ShouldApply
      <4>4. r.cursor + Len(r.patches) = r.version
        BY <2>2, <4>2
      <4>5. Shows(H, version, ApplyUnseen(c, r.patches), r.version)
        BY <1>0, <2>2, <2>3, <2>4, <3>3, <4>2, <4>3, <4>4, ShowsPatches
      <4> QED  BY <1>0, <1>3, <2>2, <2>5, <3>1, <4>1, <4>2, <4>3, <4>5
    <3>4. CASE r.at = "full"
      <4>1. view' = [view EXCEPT ![c] = r.board]
        BY <1>11, <2>1, <2>7, <3>4 DEF SyncAnswered
      <4>2. r.version <= version /\ r.board = H[r.version] /\ (r.cursor # NoVersion => r.cursor <= r.version)
        BY <2>2, <3>4 DEF Answered
      <4>3. cursor[c] # NoVersion => cursor[c] <= r.version
        BY <1>0, <2>2, <2>7, <4>2 DEF ShouldApply
      <4>4. Shows(H, version, r.board, r.version)
        <5>1. r.version \in r.version .. version
          BY <1>0, <2>2, <4>2
        <5> QED  BY <4>2, <5>1 DEF Shows
      <4> QED  BY <1>0, <1>3, <2>2, <2>5, <3>1, <4>1, <4>2, <4>3, <4>4
    <3> QED  BY <2>2, <3>2, <3>3, <3>4
  <2> QED  BY <2>6, <2>7
<1>12. ~SendRestore(c) /\ ~RestoreAnswered(c)
  BY <1>1 DEF SendRestore, AnswersRecorded, RestoreAnswered
<1> QED  BY <1>4, <1>5, <1>6, <1>7, <1>8, <1>9, <1>10, <1>11, <1>12 DEF PageStep

LEMMA HistoryStep == ASSUME Faults = {} PROVE IInv /\ TypeInv' /\ [Next]_vars => IInv'
<1> SUFFICES ASSUME IInv, TypeInv', [Next]_vars PROVE IInv'
  OBVIOUS
<1>0. TypeOK'
  BY DEF TypeInv
<1>1. CASE ServerStep
  BY <1>0, <1>1, HistoryServerStep
<1>2. ASSUME NEW c \in Pages, PageStep(c) PROVE IInv'
  BY <1>0, <1>2, HistoryPageStep
<1>3. CASE UNCHANGED vars
  <2>1. PICK H \in Histories : Recorded(H) /\ AnswersRecorded(H) /\ Follows(H)
    BY DEF IInv
  <2>2. Recorded(H)' /\ AnswersRecorded(H)' /\ Follows(H)'
    BY <1>3, <2>1 DEF Recorded, AnswersRecorded, Follows, vars, server, pages
  <2> QED  BY <1>0, <2>2 DEF IInv
<1> QED  BY <1>1, <1>2, <1>3 DEF Next

\* SameVersionSameData: as long as no COMMIT fails and no backup is restored,
\* a page that believes itself up to date shows what the server has, however
\* its answers were lost, delayed and overtaken, and however often the server
\* was started again.
THEOREM SameVersionSameDataHolds == ASSUME Faults = {} PROVE Spec => []SameVersionSameData
<1>1. IInv => SameVersionSameData
  <2> SUFFICES ASSUME IInv, NEW c \in Pages, cursor[c] = version PROVE SameData(view[c], db)
    BY DEF SameVersionSameData
  <2>1. PICK H \in Histories : Recorded(H) /\ Follows(H)
    BY DEF IInv
  <2>2. version \in Nat /\ cursor[c] # NoVersion
    BY VersionsAreNat DEF IInv, TypeOK
  <2>3. Shows(H, version, view[c], version) /\ H[version] = db
    BY <2>1, <2>2 DEF Follows, Recorded
  <2>4. \A i \in Items : view[c][i] = db[i]
    BY <2>2, <2>3 DEF Shows
  <2> QED  BY <2>4 DEF SameData
<1>2. IInv /\ TypeInv' /\ [Next]_vars => IInv'
  BY HistoryStep
<1> QED  BY TypeInit, TypeStep, HistoryInit, <1>1, <1>2, PTL DEF Spec
=============================================================================
