---------------------------- MODULE MethodTable ----------------------------
(***************************************************************************)
(* The method id table of the Neko-RPC backend: NekoRpcMethodIdTable       *)
(* (src/rpc.cpp) and NekoRpcSyncMethodTable (private/backend_method_id).   *)
(*                                                                         *)
(* A table is a record: its version, the oldest version it still accepts,  *)
(* its entries and the index of the active names (mNameToId).  The id of   *)
(* an entry is its place in entries; an entry that was given up stays as   *)
(* a tombstone.  A method is a name with a signature; only the hash of the *)
(* two travels, and nothing assumes that hashes differ.                    *)
(***************************************************************************)
EXTENDS Integers, Sequences, FiniteSets, SequencesExt

CONSTANTS
  Name,           \* method names
  NameOrder,      \* Name as a sequence: the order of the handler map
  Signature,      \* method signatures
  HashOf,         \* [Name \X Signature -> Hash], signatureHash
  Hash            \* signature hashes

ASSUME CatalogAssumption ==
  /\ NameOrder \in Seq(Name)
  /\ \A n \in Name : \E p \in DOMAIN NameOrder : NameOrder[p] = n
  /\ \A p, q \in DOMAIN NameOrder : NameOrder[p] = NameOrder[q] => p = q
  /\ HashOf \in [Name \X Signature -> Hash]

State == {"active", "removed"}
Entry == [name : Name, hash : Hash, state : State]
Entries == Seq(Entry)

Active(entries) == {i \in DOMAIN entries : entries[i].state = "active"}

(* Bugs of the index: ids counted over the active entries only, and names  *)
(* of tombstones kept.                                                     *)
IndexCounted(entries) ==
  [n \in {entries[i].name : i \in Active(entries)} |->
     Cardinality({j \in Active(entries) :
                    j <= CHOOSE i \in Active(entries) : entries[i].name = n})]
IndexOfAll(entries) ==
  [n \in {entries[i].name : i \in DOMAIN entries} |->
     CHOOSE i \in DOMAIN entries : entries[i].name = n]

(* The id of the active entry of a name. *)
Index(entries) ==
  [n \in {entries[i].name : i \in Active(entries)} |->
     CHOOSE i \in Active(entries) : entries[i].name = n]

Empty == [version |-> 0, minimum |-> 0, entries |-> <<>>, index |-> <<>>]

(* The table of entries at a version, as _resetValidated installs it. *)
Installed(entries, version) ==
  LET v == IF entries = <<>> THEN 0 ELSE version
  IN [version |-> v, minimum |-> v, entries |-> entries, index |-> Index(entries)]

Valid(entries, version, max) ==
  /\ Len(entries) <= max
  /\ entries # <<>> => version # 0
  /\ \A i, j \in Active(entries) : entries[i].name = entries[j].name => i = j

Tombstone(t, i) == [t EXCEPT !.entries[i].state = "removed"]

Unindexed(t, n) == [t EXCEPT !.index = [m \in DOMAIN t.index \ {n} |-> t.index[m]]]

(* A change of the table starts its versions at one. *)
Bumped(t) ==
  [t EXCEPT !.version = t.version + 1, !.minimum = IF t.version = 0 THEN 1 ELSE t.minimum]

(* One step of Sync: the table, and what the step adds to the delta. *)
Upsert(t, n, h, max) ==
  LET known == n \in DOMAIN t.index
      old   == t.index[n]
      cut   == IF known THEN Unindexed(Tombstone(t, old), n) ELSE t
      entry == [name |-> n, hash |-> h, state |-> "active"]
      put   == [cut EXCEPT !.entries = Append(cut.entries, entry)]
  IN IF known /\ t.entries[old].hash = h THEN [table |-> t, delta |-> <<>>]
     ELSE IF Len(t.entries) >= max THEN [table |-> cut, delta |-> <<>>]
     ELSE [table |-> [Bumped(put) EXCEPT !.index = Index(put.entries)],
           delta |-> <<[id |-> Len(t.entries) + 1, entry |-> entry]>>]

(* A bug: the tombstone is missing from the delta. *)
RemoveNameQuietly(t, n) ==
  IF n \notin DOMAIN t.index THEN [table |-> t, delta |-> <<>>]
  ELSE [table |-> Bumped(Unindexed(Tombstone(t, t.index[n]), n)), delta |-> <<>>]
RemoveName(t, n) ==
  IF n \notin DOMAIN t.index THEN [table |-> t, delta |-> <<>>]
  ELSE LET i   == t.index[n]
           cut == Unindexed(Tombstone(t, i), n)
       IN [table |-> Bumped(cut), delta |-> <<[id |-> i, entry |-> cut.entries[i]]>>]

(* refreshMethodCatalog, step by step: every method of the list is         *)
(* upserted, then every active name outside the list is removed.  A step   *)
(* takes and leaves the table and the delta so far.                        *)
UpsertStep(r, n, methods, max) ==
  LET u == Upsert(r.table, n, HashOf[<<n, methods[n]>>], max)
  IN IF n \in DOMAIN methods THEN [table |-> u.table, delta |-> r.delta \o u.delta] ELSE r

RemoveStep(r, e, methods) ==
  LET u == RemoveName(r.table, e.name)
  IN IF e.state = "active" /\ e.name \notin DOMAIN methods
     THEN [table |-> u.table, delta |-> r.delta \o u.delta] ELSE r

Upserted(t, methods, max) ==
  LET Upto[k \in 0 .. Len(NameOrder)] ==
        IF k = 0 THEN [table |-> t, delta |-> <<>>]
        ELSE UpsertStep(Upto[k - 1], NameOrder[k], methods, max)
  IN Upto[Len(NameOrder)]

Swept(added, methods) ==
  LET entries == added.table.entries
      Upto[k \in 0 .. Len(entries)] ==
        IF k = 0 THEN added ELSE RemoveStep(Upto[k - 1], entries[k], methods)
  IN Upto[Len(entries)]

SyncSteps(t, methods, max) == Swept(Upserted(t, methods, max), methods)

(* The same in one step: what the catalog no longer has becomes a          *)
(* tombstone; what is new is appended in order, while there is room.       *)

(* A bug: the signature is not compared. *)
StaysByName(e, methods) == e.state = "active" /\ e.name \in DOMAIN methods
Stays(e, methods) ==
  /\ e.state = "active"
  /\ e.name \in DOMAIN methods
  /\ e.hash = HashOf[<<e.name, methods[e.name]>>]

(* A bug: tombstones are dropped, so later entries move and ids return. *)
KeptCompact(t, methods) == SelectSeq(t.entries, LAMBDA e : Stays(e, methods))
Kept(t, methods) ==
  [i \in DOMAIN t.entries |->
     [name |-> t.entries[i].name, hash |-> t.entries[i].hash,
      state |-> IF Stays(t.entries[i], methods) THEN "active" ELSE "removed"]]

(* The methods without an id, as positions of NameOrder. *)
Fresh(t, methods) ==
  {p \in DOMAIN NameOrder :
     /\ NameOrder[p] \in DOMAIN methods
     /\ \A i \in DOMAIN t.entries : t.entries[i].name = NameOrder[p] => ~Stays(t.entries[i], methods)}

(* How many of them get one. *)
Room(t, methods, max) ==
  LET fresh == Cardinality(Fresh(t, methods))
  IN IF Len(t.entries) + fresh <= max THEN fresh
     ELSE IF Len(t.entries) <= max THEN max - Len(t.entries)
     ELSE 0

(* The first of them in order. *)
Additions(t, methods, max) ==
  {s \in [1 .. Room(t, methods, max) -> Fresh(t, methods)] :
     /\ \A i, j \in DOMAIN s : i < j => s[i] < s[j]
     /\ \A p \in Fresh(t, methods) : (\E i \in DOMAIN s : p <= s[i]) => \E i \in DOMAIN s : p = s[i]}

(* By how much the version grows; and a bug, where removals do not count. *)
BumpsOfAdded(t, methods, added) == Len(added)
Bumps(t, methods, added) ==
  Len(added) + Cardinality({i \in Active(t.entries) : t.entries[i].name \notin DOMAIN methods})

Sync(t, methods, added) ==
  LET new(p)  == [name |-> NameOrder[p], hash |-> HashOf[<<NameOrder[p], methods[NameOrder[p]]>>],
                  state |-> "active"]
      entries == Kept(t, methods) \o [k \in DOMAIN added |-> new(added[k])]
      bumps   == Bumps(t, methods, added)
  IN [version |-> t.version + bumps,
      minimum |-> IF t.version = 0 /\ bumps > 0 THEN 1 ELSE t.minimum,
      entries |-> entries,
      index   |-> Index(entries)]

SetMinimum(t, v) == [t EXCEPT !.minimum = IF v > t.version THEN t.version ELSE v]

(* makeServerContext: the reflected methods at version one, or no table    *)
(* at all when they do not fit.                                            *)
Initial(methods, max) ==
  IF Cardinality(Fresh(Empty, methods)) <= max
  THEN {Installed(Sync(Empty, methods, added).entries, 1) : added \in Additions(Empty, methods, max)}
  ELSE {Empty}

(* What the server makes of an id, a table version and a hash. *)
Resolve(t, id, version, hash) ==
  IF version < t.minimum \/ version > t.version \/ version = 0 THEN "outdated"
  ELSE IF id \notin DOMAIN t.entries THEN "not_found"
  ELSE IF t.entries[id].state = "removed" THEN "removed"
  ELSE IF t.entries[id].hash # hash THEN "mismatch"
  ELSE "ok"

(* The peer's copy: a whole table replaces it, a delta is installed in it. *)
ApplyRemoteTable(remote, entries, version, max) ==
  IF Valid(entries, version, max) THEN Installed(entries, version) ELSE remote

ApplyRemoteDelta(remote, delta, version, max) ==
  LET ids   == {delta[k].id : k \in DOMAIN delta}
      size  == CHOOSE n \in ids \cup {Len(remote.entries)} : \A i \in ids \cup {Len(remote.entries)} : i <= n
      Put(i) == IF i \in ids THEN (CHOOSE d \in {delta[k] : k \in DOMAIN delta} : d.id = i).entry
                ELSE remote.entries[i]
      dense == \A i \in 1 .. size : i \in ids \/ i \in DOMAIN remote.entries
      entries == [i \in 1 .. size |-> Put(i)]
  IN IF /\ version # 0
        /\ remote.version # 0 => version >= remote.version
        /\ Len(delta) <= max
        /\ Cardinality(ids) = Len(delta)
        /\ dense
        /\ Valid(entries, version, max)
     THEN [version |-> version,
           minimum |-> IF remote.minimum = 0 THEN version ELSE remote.minimum,
           entries |-> entries,
           index   |-> Index(entries)]
     ELSE remote

============================================================================
