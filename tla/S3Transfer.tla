----------------------------- MODULE S3Transfer -----------------------------
(***************************************************************************)
(* One call of S3Client.download_assets (src/s3/client.py): the listing of *)
(* the asset prefix page by page, the selection among what it found, and   *)
(* the downloads into the one directory of the Job.                        *)
(***************************************************************************)
EXTENDS Naturals, FiniteSets

CONSTANTS
  NumKeys,    \* the keys of the prefix are 1..NumKeys, in their sort order
  Images,     \* the keys with an allowed suffix
  Names,      \* file names
  NameOf,     \* NameOf[k]: the last part of key k
  MaxAssets   \* MAX_ASSET_COUNT

Keys == 1..NumKeys

ASSUME KeysAssumption ==
  /\ NumKeys \in Nat /\ Images \subseteq Keys
  /\ NameOf \in [Keys -> Names]
ASSUME CountAssumption == MaxAssets \in Nat \ {0}

VARIABLES
  pc,        \* where the call is, or how it has ended
  unlisted,  \* the objects under the prefix that no page has shown yet
  found,     \* keys: the images of the pages so far
  pending,   \* the selected keys the loop has still to come to
  files,     \* files[n]: the key whose object is stored as n, 0 none
  lost,      \* history: the keys whose download failed
  chosen     \* history: the keys that were selected

vars == <<pc, unlisted, found, pending, files, lost, chosen>>

TypeOK ==
  /\ pc \in {"mkdir", "listing", "downloading", "done", "raised"}
  /\ unlisted \subseteq Keys
  /\ found \subseteq Images
  /\ pending \subseteq chosen
  /\ files \in [Names -> Keys \cup {0}]
  /\ lost \subseteq chosen
  /\ chosen \subseteq found

Init ==
  /\ pc = "mkdir"
  /\ unlisted \in SUBSET Keys
  /\ found = {} /\ pending = {}
  /\ files = [n \in Names |-> 0]
  /\ lost = {} /\ chosen = {}

(* The one step of the call whose failure leaves it: OSError. *)
MakeDirectory ==
  /\ pc = "mkdir"
  /\ pc' \in {"listing", "raised"}
  /\ UNCHANGED <<unlisted, found, pending, files, lost, chosen>>

(* Bug: the suffix is not looked at. *)
ListPageUnfiltered ==
  /\ pc = "listing"
  /\ \E page \in SUBSET unlisted :
       /\ page # {}
       /\ unlisted' = unlisted \ page
       /\ found' = found \cup page
  /\ UNCHANGED <<pc, pending, files, lost, chosen>>

(* A page shows some of the objects; those with another suffix are dropped. *)
ListPage ==
  /\ pc = "listing"
  /\ \E page \in SUBSET unlisted :
       /\ page # {}
       /\ unlisted' = unlisted \ page
       /\ found' = found \cup (page \cap Images)
  /\ UNCHANGED <<pc, pending, files, lost, chosen>>

(* A page that cannot be read drops those before it, too. *)
ListingFails ==
  /\ pc = "listing"
  /\ pc' = "done" /\ found' = {}
  /\ UNCHANGED <<unlisted, pending, files, lost, chosen>>

Before(k, S) == {m \in S : m < k}

(* Bug: the limit is compared with <= . *)
FirstOneTooMany(S) == {k \in S : Cardinality(Before(k, S)) <= MaxAssets}

(* keys.sort() and keys[:MAX_ASSET_COUNT]. *)
First(S) == {k \in S : Cardinality(Before(k, S)) < MaxAssets}

SelectKeys ==
  /\ pc = "listing" /\ unlisted = {}
  /\ pc' = IF found = {} THEN "done" ELSE "downloading"
  /\ chosen' = First(found) /\ pending' = First(found)
  /\ UNCHANGED <<unlisted, found, files, lost>>

(* The loop goes through the keys in their order. *)
IsNext(k) == k \in pending /\ Before(k, pending) = {}

Finish == pc' = IF pending' = {} THEN "done" ELSE "downloading"

(* The file of an earlier key with the same name is overwritten. *)
DownloadAsset(k) ==
  /\ pc = "downloading" /\ IsNext(k)
  /\ files' = [files EXCEPT ![NameOf[k]] = k]
  /\ pending' = pending \ {k} /\ Finish
  /\ UNCHANGED <<unlisted, found, lost, chosen>>

(* Bug: an asset that fails ends the loop. *)
SkipTheRest(k) ==
  /\ pc = "downloading" /\ IsNext(k)
  /\ lost' = lost \cup {k}
  /\ pending' = {} /\ Finish
  /\ UNCHANGED <<unlisted, found, files, chosen>>

SkipAsset(k) ==
  /\ pc = "downloading" /\ IsNext(k)
  /\ lost' = lost \cup {k}
  /\ pending' = pending \ {k} /\ Finish
  /\ UNCHANGED <<unlisted, found, files, chosen>>

Next ==
  \/ MakeDirectory \/ ListPage \/ ListingFails \/ SelectKeys
  \/ \E k \in Keys : DownloadAsset(k) \/ SkipAsset(k)

Spec == Init /\ [][Next]_vars

-----------------------------------------------------------------------------
(* However the listing is cut into pages, the keys selected from it are the  *)
(* first ones, at most MaxAssets, and as many as there are up to that (BR-   *)
(* 020: sorted and limited to five).                                         *)
SelectsTheFirst ==
  pc = "downloading" =>
    /\ Cardinality(chosen) <= MaxAssets
    /\ \A k \in chosen, m \in found \ chosen : k < m
    /\ Cardinality(chosen) < MaxAssets => chosen = found

(* At the end every selected asset whose download did not fail is in the     *)
(* directory, unless a later one with the same name has taken its place: a   *)
(* failure costs that one asset only, and a file never holds an earlier      *)
(* namesake of an asset that arrived.                                        *)
OnlyNamesakesReplace ==
  pc = "done" =>
    \A k \in chosen \ lost :
      /\ files[NameOf[k]] \in chosen \ lost
      /\ NameOf[files[NameOf[k]]] = NameOf[k]
      /\ k <= files[NameOf[k]]
=============================================================================
