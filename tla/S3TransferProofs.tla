-------------------------- MODULE S3TransferProofs --------------------------
(***************************************************************************)
(* What module S3Transfer promises, for any keys, names and limit: types,  *)
(* which keys are selected, and what is in the directory at the end.      *)
(***************************************************************************)
EXTENDS S3Transfer, FiniteSetTheorems, WellFoundedInduction, TLAPS

USE DEF vars

(* The keys the loop has been through. *)
Past == chosen \ pending

(* Until the listing is over nothing is chosen or stored; the loop goes      *)
(* through the chosen keys from the first to the last, and each name holds  *)
(* the last of them that arrived.                                           *)
LoopInv ==
  /\ (pc \in {"mkdir", "listing", "raised"}) => chosen = {} /\ pending = {} /\ lost = {}
  /\ (pc = "done") => pending = {}
  /\ lost \subseteq Past
  /\ \A k \in Past, m \in pending : k < m
  /\ \A k \in Past \ lost :
       /\ files[NameOf[k]] \in Past \ lost
       /\ NameOf[files[NameOf[k]]] = NameOf[k]
       /\ k <= files[NameOf[k]]

IInv == TypeOK /\ LoopInv

LEMMA FirstSubset == \A S : First(S) \subseteq S
BY DEF First

(* A nonempty set of numbers has a least one. *)
LEMMA Least ==
  ASSUME NEW T \in SUBSET Nat, T # {}
  PROVE  \E x \in T : \A y \in T : x <= y
  <1> DEFINE R == OpToRel(<, Nat)
  <1>1. IsWellFoundedOn(R, Nat)
    BY NatLessThanWellFounded
  <1>2. T \subseteq Nat
    OBVIOUS
  <1> HIDE DEF R
  <1>3. PICK x \in T : \A y \in T : ~ (<<y, x>> \in R)
    BY <1>1, <1>2, WFMin, Zenon
  <1>4. \A y \in T : x <= y
    <2> SUFFICES ASSUME NEW y \in T PROVE x <= y
      OBVIOUS
    <2>1. ~ (<<y, x>> \in R) /\ x \in Nat /\ y \in Nat
      BY <1>3
    <2>2. (y < x) => <<y, x>> \in R
      BY <2>1 DEF R, OpToRel
    <2> QED BY <2>1, <2>2
  <1> QED BY <1>4

(* A set of keys has a last one. *)
LEMMA Last ==
  ASSUME NEW S \in SUBSET Keys, S # {}
  PROVE  \E x \in S : \A y \in S : y <= x
  <1> DEFINE T == {NumKeys - x : x \in S}
  <1>1. \A x \in S : x \in Nat /\ x <= NumKeys
    BY KeysAssumption DEF Keys
  <1>2. T \in SUBSET Nat /\ T # {}
    BY <1>1, KeysAssumption
  <1>3. PICK t \in T : \A u \in T : t <= u
    BY <1>2, Least
  <1>4. PICK x \in S : t = NumKeys - x
    BY <1>3
  <1>5. \A y \in S : NumKeys - x <= NumKeys - y
    BY <1>3, <1>4
  <1> QED BY <1>1, <1>5, KeysAssumption

LEMMA KeysNat ==
  ASSUME NEW S \in SUBSET Keys
  PROVE  \A x \in S : x \in Nat
  <1>1. \A x \in Keys : x \in Nat
    BY KeysAssumption DEF Keys
  <1> QED BY <1>1

LEMMA KeysFinite ==
  ASSUME NEW S \in SUBSET Keys
  PROVE  IsFiniteSet(S) /\ Cardinality(S) \in Nat
  <1>1. IsFiniteSet(Keys)
    BY KeysAssumption, FS_Interval DEF Keys
  <1>2. IsFiniteSet(S)
    BY <1>1, FS_Subset
  <1> QED BY <1>2, FS_CardinalityType

LEMMA BeforeKeys ==
  ASSUME NEW S \in SUBSET Keys, NEW k
  PROVE  /\ Before(k, S) \in SUBSET Keys
         /\ IsFiniteSet(Before(k, S)) /\ Cardinality(Before(k, S)) \in Nat
  <1>1. Before(k, S) \in SUBSET Keys
    BY DEF Before
  <1> QED BY <1>1, KeysFinite

(* The selection takes a beginning of the order: what it leaves is later. *)
LEMMA FirstIsFirst ==
  ASSUME NEW S \in SUBSET Keys, NEW k \in First(S), NEW m \in S \ First(S)
  PROVE  k < m
  <1>1. k \in Nat /\ m \in Nat /\ k # m /\ k \in S
    BY KeysAssumption DEF Keys, First
  <1>2. SUFFICES ASSUME m < k PROVE FALSE
    BY <1>1
  <1>3. Before(m, S) \subseteq Before(k, S)
    <2> SUFFICES ASSUME NEW x \in Before(m, S) PROVE x \in Before(k, S)
      OBVIOUS
    <2>1. x \in S /\ x < m
      BY DEF Before
    <2>2. x \in Nat
      BY <2>1, KeysNat
    <2>3. x < k
      BY <1>1, <1>2, <2>1, <2>2
    <2> QED BY <2>1, <2>3 DEF Before
  <1>4. Cardinality(Before(m, S)) <= Cardinality(Before(k, S))
    BY <1>3, BeforeKeys, FS_Subset
  <1>5. Cardinality(Before(k, S)) < MaxAssets
    BY DEF First
  <1>6. ~ (Cardinality(Before(m, S)) < MaxAssets)
    BY DEF First
  <1>7. Cardinality(Before(m, S)) \in Nat /\ Cardinality(Before(k, S)) \in Nat
    BY BeforeKeys
  <1> QED BY <1>4, <1>5, <1>6, <1>7, CountAssumption

(* The last selected key has all the others before it. *)
LEMMA FirstIsLimited ==
  ASSUME NEW S \in SUBSET Keys
  PROVE  Cardinality(First(S)) <= MaxAssets
  <1>1. CASE First(S) = {}
    BY <1>1, FS_EmptySet, CountAssumption
  <1>2. CASE First(S) # {}
    <2>1. First(S) \in SUBSET Keys
      BY FirstSubset
    <2>2. PICK k \in First(S) : \A y \in First(S) : y <= k
      BY <1>2, <2>1, Last
    <2>3. First(S) \subseteq Before(k, S) \cup {k}
      <3>1. \A y \in First(S) : y \in S /\ y \in Nat /\ k \in Nat
        BY <2>1, FirstSubset, KeysAssumption DEF Keys
      <3> QED BY <2>2, <3>1 DEF Before
    <2>4. IsFiniteSet(Before(k, S)) /\ Cardinality(Before(k, S)) \in Nat
      BY BeforeKeys
    <2>5. Cardinality(Before(k, S)) < MaxAssets
      BY DEF First
    <2>6. /\ IsFiniteSet(Before(k, S) \cup {k})
          /\ Cardinality(Before(k, S) \cup {k}) <= Cardinality(Before(k, S)) + 1
      <3> DEFINE B == Before(k, S)
      <3> HIDE DEF B
      <3>1. /\ IsFiniteSet(B \cup {k})
            /\ Cardinality(B \cup {k}) =
                 IF k \in B THEN Cardinality(B) ELSE Cardinality(B) + 1
        BY <2>4, FS_AddElement DEF B
      <3>2. Cardinality(B) \in Nat
        BY <2>4 DEF B
      <3>3. Cardinality(B \cup {k}) <= Cardinality(B) + 1
        BY <3>1, <3>2
      <3> QED BY <3>1, <3>3 DEF B
    <2>7. Cardinality(First(S)) <= Cardinality(Before(k, S) \cup {k})
      BY <2>3, <2>6, FS_Subset
    <2>8. /\ Cardinality(First(S)) \in Nat
          /\ Cardinality(Before(k, S) \cup {k}) \in Nat
      BY <2>1, <2>6, KeysFinite, FS_CardinalityType
    <2> QED BY <2>4, <2>5, <2>6, <2>7, <2>8, CountAssumption
  <1> QED BY <1>1, <1>2

(* If the limit is not reached, the first key that was left out would have   *)
(* only selected keys before it, too few to leave it out.                   *)
LEMMA FirstIsAll ==
  ASSUME NEW S \in SUBSET Keys, Cardinality(First(S)) < MaxAssets
  PROVE  First(S) = S
  <1>1. SUFFICES ASSUME S \ First(S) # {} PROVE FALSE
    BY FirstSubset
  <1>2. S \ First(S) \in SUBSET Nat
    BY KeysNat
  <1>3. PICK m \in S \ First(S) : \A y \in S \ First(S) : m <= y
    BY <1>1, <1>2, Least
  <1>4. Before(m, S) \subseteq First(S)
    <2>1. m \in Nat /\ \A y \in S : y \in Nat
      BY KeysNat
    <2> SUFFICES ASSUME NEW y \in Before(m, S) PROVE y \in First(S)
      OBVIOUS
    <2>2. y \in S /\ y < m
      BY DEF Before
    <2>3. ~ (m <= y)
      BY <2>1, <2>2
    <2> QED BY <1>3, <2>2, <2>3
  <1>5. First(S) \in SUBSET Keys
    BY FirstSubset
  <1>6. Cardinality(Before(m, S)) <= Cardinality(First(S))
    BY <1>4, <1>5, KeysFinite, FS_Subset
  <1>7. ~ (Cardinality(Before(m, S)) < MaxAssets)
    BY DEF First
  <1>8. Cardinality(Before(m, S)) \in Nat /\ Cardinality(First(S)) \in Nat
    BY <1>5, BeforeKeys, KeysFinite
  <1> QED BY <1>6, <1>7, <1>8, CountAssumption

LEMMA InvInit == Init => IInv
  <1> SUFFICES ASSUME Init PROVE IInv
    OBVIOUS
  <1>1. TypeOK
    BY DEF Init, TypeOK
  <1> QED BY <1>1 DEF Init, IInv, LoopInv, Past

LEMMA InvNext ==
  ASSUME IInv, [Next]_vars
  PROVE  IInv'
  <1> USE DEF IInv
  <1>1. CASE ListPage
    <2>1. TypeOK'
      BY <1>1 DEF ListPage, TypeOK
    <2> QED BY <1>1, <2>1 DEF ListPage, LoopInv, Past
  <1>2. CASE ListingFails
    <2>1. TypeOK'
      BY <1>2 DEF ListingFails, TypeOK, LoopInv
    <2> QED BY <1>2, <2>1 DEF ListingFails, LoopInv, Past
  <1>3. CASE SelectKeys
    <2>1. TypeOK'
      BY <1>3, FirstSubset DEF SelectKeys, TypeOK, LoopInv
    <2>2. Past' = {} /\ lost' = {}
      BY <1>3 DEF SelectKeys, LoopInv, Past
    <2>3. (pc' = "done") => pending' = {}
      BY <1>3, FirstSubset DEF SelectKeys
    <2>4. pc' \notin {"mkdir", "listing", "raised"}
      BY <1>3 DEF SelectKeys
    <2> QED BY <2>1, <2>2, <2>3, <2>4 DEF LoopInv
  <1>4. ASSUME NEW k \in Keys, DownloadAsset(k) \/ SkipAsset(k)
        PROVE  IInv'
    <2>1. /\ k \in chosen /\ k \in pending /\ \A m \in pending : ~ (m < k)
          /\ pending' = pending \ {k} /\ UNCHANGED chosen
          /\ pc' \in {"downloading", "done"} /\ (pc' = "done" => pending' = {})
      BY <1>4 DEF DownloadAsset, SkipAsset, IsNext, Before, Finish, TypeOK
    <2>2. /\ chosen \subseteq Keys /\ NameOf \in [Keys -> Names]
          /\ files \in [Names -> Keys \cup {0}]
      BY KeysAssumption DEF TypeOK
    <2>3. TypeOK'
      BY <1>4, <2>1, <2>2 DEF DownloadAsset, SkipAsset, TypeOK
    <2>4. Past' = Past \cup {k} /\ k \notin Past
      BY <2>1 DEF Past
    <2>5. \A m \in pending' : k < m
      BY <2>1, <2>2 DEF Keys, TypeOK
    <2>6. lost' \subseteq Past' /\ \A n \in Past', m \in pending' : n < m
      BY <1>4, <2>1, <2>4, <2>5 DEF DownloadAsset, SkipAsset, LoopInv
    <2>7. ASSUME NEW n \in Past' \ lost'
          PROVE  /\ files'[NameOf[n]] \in Past' \ lost'
                 /\ NameOf[files'[NameOf[n]]] = NameOf[n]
                 /\ n <= files'[NameOf[n]]
      <3>1. CASE SkipAsset(k)
        <4>1. files' = files /\ lost' = lost \cup {k} /\ n \in Past \ lost
          BY <2>4, <2>7, <3>1 DEF SkipAsset
        <4> QED BY <2>4, <4>1 DEF LoopInv
      <3>2. CASE DownloadAsset(k)
        <4>1. lost' = lost /\ files' = [files EXCEPT ![NameOf[k]] = k] /\ k \notin lost
          BY <2>4, <3>2 DEF DownloadAsset, LoopInv
        <4>2. n \in Keys /\ n <= k
          <5>1. n = k \/ (n \in Past /\ n < k)
            BY <2>1, <2>4, <2>7 DEF LoopInv
          <5>2. k \in Keys /\ n \in Keys
            BY <2>1, <2>2, <5>1 DEF Past
          <5> QED BY <5>1, <5>2, KeysAssumption DEF Keys
        <4>3. CASE NameOf[n] = NameOf[k]
          BY <2>2, <2>4, <4>1, <4>2, <4>3
        <4>4. CASE NameOf[n] # NameOf[k]
          <5>1. n \in Past \ lost /\ files'[NameOf[n]] = files[NameOf[n]]
            BY <2>2, <2>4, <2>7, <4>1, <4>2, <4>4
          <5> QED BY <2>4, <4>1, <5>1 DEF LoopInv
        <4> QED BY <4>3, <4>4
      <3> QED BY <1>4, <3>1, <3>2
    <2> QED BY <2>1, <2>3, <2>6, <2>7 DEF LoopInv
  <1>5. CASE MakeDirectory
    <2>1. TypeOK'
      BY <1>5 DEF MakeDirectory, TypeOK
    <2> QED BY <1>5, <2>1 DEF MakeDirectory, LoopInv, Past
  <1>6. CASE UNCHANGED vars
    BY <1>6 DEF TypeOK, LoopInv, Past
  <1> QED BY <1>1, <1>2, <1>3, <1>4, <1>5, <1>6 DEF Next

(* Every variable keeps its type. *)
THEOREM TypeCorrect == Spec => []TypeOK
  <1>1. IInv => TypeOK
    BY DEF IInv
  <1> QED BY <1>1, InvInit, InvNext, PTL DEF Spec

(* A file of the directory holds the last asset of its name that arrived,    *)
(* and a failed download costs that asset only.                             *)
THEOREM Namesakes == Spec => []OnlyNamesakesReplace
  <1>1. IInv => OnlyNamesakesReplace
    BY DEF IInv, LoopInv, Past, OnlyNamesakesReplace
  <1> QED BY <1>1, InvInit, InvNext, PTL DEF Spec

(* What is being downloaded is the selection from all that was listed. *)
ChosenInv == (pc = "downloading") => chosen = First(found)

LEMMA ChosenNext ==
  ASSUME IInv, ChosenInv, [Next]_vars
  PROVE  ChosenInv'
  <1> USE DEF ChosenInv
  <1>1. CASE ListPage
    BY <1>1 DEF ListPage
  <1>2. CASE ListingFails
    BY <1>2 DEF ListingFails
  <1>3. CASE SelectKeys
    BY <1>3 DEF SelectKeys, First
  <1>4. ASSUME NEW k \in Keys, DownloadAsset(k) \/ SkipAsset(k)
        PROVE  ChosenInv'
    <2>1. pc = "downloading" /\ chosen' = chosen /\ found' = found
      BY <1>4 DEF DownloadAsset, SkipAsset
    <2> QED BY <2>1 DEF First
  <1>5. CASE MakeDirectory
    BY <1>5 DEF MakeDirectory
  <1>6. CASE UNCHANGED vars
    BY <1>6 DEF First
  <1> QED BY <1>1, <1>2, <1>3, <1>4, <1>5, <1>6 DEF Next

(* The selection is the beginning of the sorted listing, of the right length. *)
THEOREM Selection == Spec => []SelectsTheFirst
  <1>1. Init => ChosenInv
    BY DEF Init, ChosenInv
  <1>2. IInv /\ ChosenInv => SelectsTheFirst
    <2> SUFFICES ASSUME IInv, ChosenInv, pc = "downloading"
                 PROVE  /\ Cardinality(chosen) <= MaxAssets
                        /\ \A k \in chosen, m \in found \ chosen : k < m
                        /\ Cardinality(chosen) < MaxAssets => chosen = found
      BY DEF SelectsTheFirst
    <2>1. found \in SUBSET Keys /\ chosen = First(found)
      BY KeysAssumption DEF IInv, TypeOK, ChosenInv
    <2>2. Cardinality(chosen) <= MaxAssets
      BY <2>1, FirstIsLimited
    <2>3. \A k \in chosen, m \in found \ chosen : k < m
      BY <2>1, FirstIsFirst
    <2>4. Cardinality(chosen) < MaxAssets => chosen = found
      BY <2>1, FirstIsAll
    <2> QED BY <2>2, <2>3, <2>4
  <1> QED BY <1>1, <1>2, InvInit, InvNext, ChosenNext, PTL DEF Spec
=============================================================================
