------------------------ MODULE MethodCatalogProofs ------------------------
(***************************************************************************)
(* Proofs about MethodCatalog, for every set of names, signatures, calls   *)
(* and hashes (which may collide), and every limit: ids are forever, and   *)
(* so a request reaches the handler of the name it was made for.           *)
(***************************************************************************)
EXTENDS MethodCatalog, FiniteSetTheorems, SequenceTheorems, TLAPS

Table == [version : Nat, minimum : Nat, entries : Entries,
          index : UNION {[S -> Nat] : S \in SUBSET Name}]

(* Every entry of a sequence is in another one, under the same id. *)
Within(older, newer) ==
  \A i \in DOMAIN older : /\ i \in DOMAIN newer
                          /\ newer[i].name = older[i].name
                          /\ newer[i].hash = older[i].hash

(* The index leads to entries of its names. *)
Indexed(t) ==
  \A n \in DOMAIN t.index : t.index[n] \in DOMAIN t.entries /\ t.entries[t.index[n]].name = n

(* A past state of the catalog, wherever a copy of it is. *)
Copy(t) == t \in Table /\ Indexed(t) /\ Within(t.entries, table.entries)

ActiveAreBound ==
  \A i \in Active(table.entries) :
    LET e == table.entries[i]
    IN bound[e.name] # NoMethod /\ HashOf[<<e.name, bound[e.name]>>] = e.hash

(* A request by id names the entry of the method it was made for. *)
WellAddressed(c) ==
  /\ request[c].by \in {"id", "name"}
  /\ request[c].by = "id" =>
       /\ request[c].id \in DOMAIN table.entries
       /\ table.entries[request[c].id].name = NameOf[c]
       /\ table.entries[request[c].id].hash = request[c].hash

Reply == [call : Call, ext : Table \cup {None}]

CopiesInv ==
  /\ bound \in [Name -> Signature \cup {NoMethod}]
  /\ Copy(table)
  /\ Copy(remote)
  /\ carried # None => Copy(carried)
  /\ replies \in Seq(Reply)
  /\ \A k \in DOMAIN replies : replies[k].ext # None => Copy(replies[k].ext)
  /\ changes \in Nat

CallsInv ==
  /\ phase \in [Call -> {"idle", "sent", "dispatched", "rejected", "recovering", "done", "failed"}]
  /\ DOMAIN request = Call /\ DOMAIN outcome = Call /\ DOMAIN handler = Call
  /\ dangling \subseteq Call
  /\ \A c \in Call : phase[c] # "idle" => WellAddressed(c)
  /\ \A c \in Call : handler[c] # None => phase[c] = "dispatched"
  /\ \A c \in Call : outcome[c] # None => phase[c] = "done"
  /\ \A k \in DOMAIN replies : phase[replies[k].call] = "rejected"
  /\ \A j, k \in DOMAIN replies : replies[j].call = replies[k].call => j = k

(* The reference a request task waits with is to the handler it asked for. *)
HeldAsNamed ==
  \A c \in Call : phase[c] = "dispatched" =>
    /\ handler[c].name = NameOf[c]
    /\ request[c].by = "id" =>
         /\ handler[c].signature # NoMethod
         /\ HashOf[<<handler[c].name, handler[c].signature>>] = request[c].hash

CatalogInv == CopiesInv /\ ActiveAreBound /\ CallsInv /\ HeldAsNamed /\ HandlerAsNamed

-----------------------------------------------------------------------------
(* The operators of the table. *)

LEMMA IndexLeadsToActive ==
  ASSUME NEW s \in Entries
  PROVE  /\ Index(s) \in UNION {[S -> Nat] : S \in SUBSET Name}
         /\ \A n \in DOMAIN Index(s) : Index(s)[n] \in Active(s) /\ s[Index(s)[n]].name = n
<1> DEFINE names == {s[i].name : i \in Active(s)}
<1>1. Active(s) \subseteq DOMAIN s /\ DOMAIN s \subseteq Nat
  BY DEF Active, Entries
<1>2. names \subseteq Name
  <2>1. \A i \in DOMAIN s : s[i] \in Entry
    BY ElementOfSeq, LenProperties DEF Entries
  <2>2. \A i \in DOMAIN s : s[i].name \in Name
    BY <2>1 DEF Entry
  <2>3. QED
    BY <1>1, <2>2
<1>3. DOMAIN Index(s) = names
  BY DEF Index
<1>4. ASSUME NEW n \in names
      PROVE  Index(s)[n] \in Active(s) /\ s[Index(s)[n]].name = n
  <2>1. PICK i \in Active(s) : s[i].name = n
    OBVIOUS
  <2>2. Index(s)[n] = CHOOSE j \in Active(s) : s[j].name = n
    BY DEF Index
  <2>3. QED
    BY <2>1, <2>2
<1>5. Index(s) \in [names -> Nat]
  BY <1>1, <1>3, <1>4 DEF Index
<1>6. QED
  BY <1>2, <1>3, <1>4, <1>5

LEMMA RoomIsNat ==
  ASSUME NEW t \in Table, NEW methods, NEW max \in Nat
  PROVE  /\ Fresh(t, methods) \subseteq DOMAIN NameOrder
         /\ Room(t, methods, max) \in Nat
<1>1. Fresh(t, methods) \subseteq DOMAIN NameOrder
  BY DEF Fresh
<1>2. IsFiniteSet(DOMAIN NameOrder)
  BY CatalogAssumption, FS_Interval
<1>3. Cardinality(Fresh(t, methods)) \in Nat
  BY <1>1, <1>2, FS_Subset, FS_CardinalityType
<1>4. Len(t.entries) \in Nat
  BY DEF Table, Entries
<1>5. QED
  BY <1>1, <1>3, <1>4 DEF Room

Bindings == [Name -> Signature \cup {NoMethod}]

(* Refreshing a table keeps every id with its name and hash, and what it   *)
(* makes active is bound.                                                  *)
LEMMA SyncKeepsIds ==
  ASSUME NEW t \in Table, NEW b \in Bindings, NEW max \in Nat,
         NEW added \in Additions(t, Methods(b), max)
  PROVE  LET s == Sync(t, Methods(b), added)
         IN /\ s \in Table
            /\ Indexed(s)
            /\ Within(t.entries, s.entries)
            /\ \A i \in DOMAIN t.entries : t.entries[i].state = "removed" => s.entries[i].state = "removed"
            /\ \A i \in Active(s.entries) : /\ b[s.entries[i].name] # NoMethod
                                            /\ HashOf[<<s.entries[i].name, b[s.entries[i].name]>>] = s.entries[i].hash
            /\ s.version >= t.version
<1> DEFINE methods == Methods(b)
           s == Sync(t, methods, added)
           kept == Kept(t, methods)
           new(p) == [name |-> NameOrder[p], hash |-> HashOf[<<NameOrder[p], methods[NameOrder[p]]>>],
                      state |-> "active"]
           more == [k \in DOMAIN added |-> new(added[k])]
<1>1. /\ t.entries \in Seq(Entry) /\ DOMAIN t.entries = 1 .. Len(t.entries) /\ Len(t.entries) \in Nat
      /\ t.version \in Nat /\ t.minimum \in Nat
  BY DEF Table, Entries
<1>2. /\ DOMAIN methods \subseteq Name
      /\ \A n \in DOMAIN methods : methods[n] = b[n] /\ b[n] \in Signature /\ b[n] # NoMethod
  BY DEF Methods, Bindings
<1>3. /\ Room(t, methods, max) \in Nat
      /\ added \in [1 .. Room(t, methods, max) -> Fresh(t, methods)]
  BY RoomIsNat DEF Additions
<1>4. ASSUME NEW k \in DOMAIN added
      PROVE  /\ new(added[k]) \in Entry
             /\ new(added[k]).name \in DOMAIN methods
             /\ new(added[k]).hash = HashOf[<<new(added[k]).name, b[new(added[k]).name]>>]
  <2>1. NameOrder[added[k]] \in DOMAIN methods
    BY <1>3 DEF Fresh
  <2>2. HashOf[<<NameOrder[added[k]], methods[NameOrder[added[k]]]>>] \in Hash
    BY <1>2, <2>1, CatalogAssumption
  <2>3. QED
    BY <1>2, <2>1, <2>2 DEF Entry, State
<1>5. ASSUME NEW i \in DOMAIN t.entries
      PROVE  /\ kept[i] \in Entry
             /\ kept[i].name = t.entries[i].name /\ kept[i].hash = t.entries[i].hash
             /\ kept[i].state = "active" => Stays(t.entries[i], methods)
             /\ t.entries[i].state = "removed" => kept[i].state = "removed"
  <2>1. t.entries[i] \in Entry
    BY <1>1, ElementOfSeq
  <2>2. t.entries[i].name \in Name /\ t.entries[i].hash \in Hash
    BY <2>1 DEF Entry
  <2>3. kept[i] = [name |-> t.entries[i].name, hash |-> t.entries[i].hash,
                   state |-> IF Stays(t.entries[i], methods) THEN "active" ELSE "removed"]
    BY DEF Kept
  <2> HIDE DEF kept, methods
  <2>4. QED
    BY <2>2, <2>3 DEF Entry, State, Stays
<1>6. kept \in Seq(Entry) /\ Len(kept) = Len(t.entries)
  <2>1. DOMAIN kept = 1 .. Len(t.entries)
    BY <1>1 DEF Kept
  <2>2. kept = [i \in 1 .. Len(t.entries) |-> kept[i]]
    BY <1>1 DEF Kept
  <2> HIDE DEF kept
  <2>3. kept \in [1 .. Len(t.entries) -> Entry]
    BY <1>1, <1>5, <2>1, <2>2
  <2>4. QED
    BY <1>1, <2>1, <2>3
<1>7. more \in Seq(Entry) /\ Len(more) = Room(t, methods, max)
  <2>1. DOMAIN added = 1 .. Room(t, methods, max)
    BY <1>3
  <2>2. more = [k \in 1 .. Room(t, methods, max) |-> more[k]] /\ \A k \in DOMAIN added : more[k] \in Entry
    BY <1>4, <2>1
  <2> HIDE DEF more
  <2>3. more \in [1 .. Room(t, methods, max) -> Entry]
    BY <2>1, <2>2
  <2>4. QED
    BY <1>3, <2>3
<1>8. s.entries = kept \o more
  BY DEF Sync
<1> HIDE DEF kept, s
<1>9. /\ s.entries \in Entries /\ Len(s.entries) = Len(t.entries) + Len(more)
      /\ \A i \in 1 .. Len(s.entries) :
           s.entries[i] = IF i <= Len(t.entries) THEN kept[i] ELSE more[i - Len(t.entries)]
  <2> HIDE DEF more, methods
  <2>1. /\ kept \o more \in Seq(Entry)
        /\ Len(kept \o more) = Len(kept) + Len(more)
        /\ \A i \in 1 .. Len(kept) + Len(more) :
             (kept \o more)[i] = IF i <= Len(kept) THEN kept[i] ELSE more[i - Len(kept)]
    BY <1>6, <1>7, ConcatProperties
  <2>2. QED
    BY <1>6, <1>8, <2>1 DEF Entries
<1>10. \A i \in DOMAIN t.entries : i \in DOMAIN s.entries /\ s.entries[i] = kept[i]
  <2> HIDE DEF more
  <2>1. Len(more) \in Nat /\ DOMAIN s.entries = 1 .. Len(s.entries)
    BY <1>7, <1>9 DEF Entries
  <2>2. QED
    BY <1>1, <1>9, <2>1
<1>11. ASSUME NEW i \in DOMAIN s.entries, i \notin DOMAIN t.entries
       PROVE  i - Len(t.entries) \in DOMAIN added /\ s.entries[i] = new(added[i - Len(t.entries)])
  <2>1. more[i - Len(t.entries)] = new(added[i - Len(t.entries)])
    <3>1. i - Len(t.entries) \in DOMAIN added
      <4> HIDE DEF more
      <4>1. DOMAIN s.entries = 1 .. Len(s.entries) /\ DOMAIN added = 1 .. Room(t, methods, max)
        BY <1>3, <1>9 DEF Entries
      <4>2. QED
        BY <1>1, <1>3, <1>7, <1>9, <1>11, <4>1
    <3>2. QED
      BY <3>1
  <2> HIDE DEF more
  <2>2. DOMAIN s.entries = 1 .. Len(s.entries) /\ DOMAIN added = 1 .. Room(t, methods, max)
    BY <1>3, <1>9 DEF Entries
  <2>3. QED
    BY <1>1, <1>3, <1>7, <1>9, <1>11, <2>1, <2>2
<1> HIDE DEF more, new
<1>12. Within(t.entries, s.entries)
  BY <1>5, <1>10 DEF Within
<1>13. \A i \in DOMAIN t.entries : t.entries[i].state = "removed" => s.entries[i].state = "removed"
  BY <1>5, <1>10
<1>14. ASSUME NEW i \in Active(s.entries)
       PROVE  /\ b[s.entries[i].name] # NoMethod
              /\ HashOf[<<s.entries[i].name, b[s.entries[i].name]>>] = s.entries[i].hash
  <2>1. i \in DOMAIN s.entries /\ s.entries[i].state = "active"
    BY DEF Active
  <2>2. CASE i \in DOMAIN t.entries
    <3>1. /\ s.entries[i].name = t.entries[i].name /\ s.entries[i].hash = t.entries[i].hash
          /\ Stays(t.entries[i], methods)
      BY <1>5, <1>10, <2>1, <2>2
    <3>2. /\ t.entries[i].name \in DOMAIN methods
          /\ t.entries[i].hash = HashOf[<<t.entries[i].name, methods[t.entries[i].name]>>]
      BY <3>1 DEF Stays
    <3> HIDE DEF methods
    <3>3. methods[t.entries[i].name] = b[t.entries[i].name] /\ b[t.entries[i].name] # NoMethod
      BY <1>2, <3>2
    <3>4. QED
      BY <3>1, <3>2, <3>3
  <2>3. CASE i \notin DOMAIN t.entries
    BY <1>2, <1>4, <1>11, <2>1, <2>3
  <2>4. QED
    BY <2>2, <2>3
<1>15. s.version \in Nat /\ s.version >= t.version /\ s.minimum \in Nat
  <2>1. IsFiniteSet(DOMAIN t.entries)
    <3>1. IsFiniteSet(1 .. Len(t.entries))
      BY <1>1, FS_Interval
    <3>2. QED
      BY <1>1, <3>1
  <2>2. Cardinality({i \in Active(t.entries) : t.entries[i].name \notin DOMAIN methods}) \in Nat
    BY <2>1, FS_Subset, FS_CardinalityType DEF Active
  <2>3. Len(added) \in Nat
    BY <1>3
  <2>4. Bumps(t, methods, added) \in Nat
    BY <2>2, <2>3 DEF Bumps
  <2>5. /\ s.version = t.version + Bumps(t, methods, added)
        /\ s.minimum = IF t.version = 0 /\ Bumps(t, methods, added) > 0 THEN 1 ELSE t.minimum
    BY DEF Sync, s
  <2>6. QED
    BY <1>1, <2>4, <2>5
<1>16. s = [version |-> s.version, minimum |-> s.minimum, entries |-> s.entries, index |-> Index(s.entries)]
  BY DEF Sync, s
<1>17. s \in Table /\ Indexed(s)
  <2>1. s.index = Index(s.entries)
    BY <1>16
  <2>2. s \in Table
    BY <1>9, <1>15, <1>16, IndexLeadsToActive DEF Table
  <2>3. QED
    BY <1>9, <2>1, <2>2, IndexLeadsToActive DEF Indexed, Active
<1>18. QED
  BY <1>12, <1>13, <1>14, <1>15, <1>17 DEF s

LEMMA EmptyIsTable == Empty \in Table /\ Indexed(Empty)
<1>1. <<>> \in Entries
  BY EmptySeq DEF Entries
<1>2. <<>> \in [{} -> Nat] /\ {} \in SUBSET Name
  OBVIOUS
<1>3. <<>> \in UNION {[S -> Nat] : S \in SUBSET Name}
  BY <1>2
<1>4. QED
  BY <1>1, <1>3 DEF Empty, Table, Indexed

LEMMA InstalledIsTable ==
  ASSUME NEW s \in Entries, NEW v \in Nat
  PROVE  /\ Installed(s, v) \in Table
         /\ Indexed(Installed(s, v))
         /\ Installed(s, v).entries = s
<1>1. /\ Index(s) \in UNION {[S -> Nat] : S \in SUBSET Name}
      /\ \A n \in DOMAIN Index(s) : Index(s)[n] \in Active(s) /\ s[Index(s)[n]].name = n
  BY IndexLeadsToActive
<1>2. \A n \in DOMAIN Index(s) : Index(s)[n] \in DOMAIN s
  BY <1>1 DEF Active
<1> DEFINE w == IF s = <<>> THEN 0 ELSE v
<1>3. Installed(s, v) = [version |-> w, minimum |-> w, entries |-> s, index |-> Index(s)]
  BY DEF Installed
<1>4. w \in Nat
  OBVIOUS
<1> HIDE DEF w
<1>5. Installed(s, v) \in Table
  BY <1>1, <1>3, <1>4 DEF Table
<1>6. Installed(s, v).entries = s /\ Installed(s, v).index = Index(s)
  BY <1>3
<1>7. QED
  BY <1>1, <1>2, <1>5, <1>6 DEF Indexed

LEMMA MinimumKeepsTable ==
  ASSUME NEW t \in Table, NEW v \in Nat
  PROVE  /\ SetMinimum(t, v) \in Table
         /\ SetMinimum(t, v).entries = t.entries
         /\ SetMinimum(t, v).index = t.index
         /\ SetMinimum(t, v).version = t.version
BY DEF SetMinimum, Table

LEMMA WithinTransitive ==
  ASSUME NEW x, NEW y, NEW z, Within(x, y), Within(y, z)
  PROVE  Within(x, z)
BY DEF Within

(* A table that is applied leaves the copy it was, with an older minimum.  *)
LEMMA AppliedIsCopy ==
  ASSUME Copy(remote), NEW ext \in Table, Copy(ext), Applies(ext)
  PROVE  Copy(Applied(ext))
<1>1. ext.entries \in Entries /\ ext.version \in Nat /\ ext.minimum \in Nat
  BY DEF Table
<1>2. Applied(ext) = SetMinimum(Installed(ext.entries, ext.version), ext.minimum)
  BY DEF Applied, Applies, ApplyRemoteTable
<1>3. /\ Installed(ext.entries, ext.version) \in Table
      /\ Indexed(Installed(ext.entries, ext.version))
      /\ Installed(ext.entries, ext.version).entries = ext.entries
  BY <1>1, InstalledIsTable
<1> DEFINE i == Installed(ext.entries, ext.version)
<1> HIDE DEF i
<1>4. i \in Table /\ Indexed(i) /\ i.entries = ext.entries
  BY <1>3 DEF i
<1>5. /\ Applied(ext) \in Table
      /\ Applied(ext).entries = ext.entries
      /\ Applied(ext).index = i.index
  BY <1>1, <1>2, <1>4, MinimumKeepsTable DEF i
<1>6. Indexed(Applied(ext))
  BY <1>4, <1>5 DEF Indexed
<1>7. QED
  BY <1>5, <1>6 DEF Copy

-----------------------------------------------------------------------------
(* The invariant. *)

LEMMA InitCatalog == Init => CatalogInv
<1> SUFFICES ASSUME Init PROVE CatalogInv
  OBVIOUS
<1> USE DEF Init
<1>1. bound \in Bindings
  BY BoundsAssumption DEF Bindings
<1>2. MaxEntries \in Nat
  BY BoundsAssumption
<1>3. Copy(table) /\ ActiveAreBound
  <2>1. CASE table = Empty
    <3>1. table.entries = <<>>
      BY <2>1 DEF Empty
    <3>2. QED
      BY <2>1, <3>1, EmptyIsTable DEF Copy, Within, ActiveAreBound, Active
  <2>2. ASSUME NEW added \in Additions(Empty, Methods(bound), MaxEntries),
               table = Installed(Sync(Empty, Methods(bound), added).entries, 1)
        PROVE  Copy(table) /\ ActiveAreBound
    <3> DEFINE s == Sync(Empty, Methods(bound), added)
    <3>1. /\ s \in Table
          /\ \A i \in Active(s.entries) : /\ bound[s.entries[i].name] # NoMethod
                                          /\ HashOf[<<s.entries[i].name, bound[s.entries[i].name]>>] = s.entries[i].hash
      BY <1>1, <1>2, EmptyIsTable, SyncKeepsIds
    <3> HIDE DEF s
    <3>2. s.entries \in Entries
      BY <3>1 DEF Table
    <3>3. table \in Table /\ Indexed(table) /\ table.entries = s.entries
      BY <2>2, <3>2, InstalledIsTable DEF s
    <3>4. ActiveAreBound
      BY <3>1, <3>3 DEF ActiveAreBound
    <3>5. QED
      BY <3>3, <3>4 DEF Copy, Within
  <2>3. QED
    BY <2>1, <2>2 DEF Initial
<1>4. Copy(remote)
  <2>1. remote.entries = <<>>
    BY DEF Empty
  <2>2. QED
    BY <2>1, EmptyIsTable DEF Copy, Within
<1>5. CopiesInv
  BY <1>1, <1>3, <1>4, EmptySeq DEF CopiesInv, Bindings
<1>6. CallsInv
  BY DEF CallsInv
<1>7. HeldAsNamed /\ HandlerAsNamed
  BY DEF HeldAsNamed, HandlerAsNamed
<1>8. QED
  BY <1>3, <1>5, <1>6, <1>7 DEF CatalogInv

(* A step of the catalog only adds entries, and leaves more of the waiting *)
(* calls without their handler.                                            *)
LEMMA CatalogGrows ==
  ASSUME CatalogInv,
         table' \in Table, Indexed(table'), Within(table.entries, table'.entries),
         bound' \in Bindings, ActiveAreBound', changes' \in Nat,
         UNCHANGED <<remote, carried, replies, phase, request, handler, outcome>>,
         dangling \subseteq dangling', dangling' \subseteq Call
  PROVE  CatalogInv'
<1> USE DEF CatalogInv
<1>1. \A x : Copy(x) => x \in Table /\ Indexed(x) /\ Within(x.entries, table'.entries)
  BY WithinTransitive DEF Copy
<1>2. Within(table'.entries, table'.entries)
  BY DEF Within
<1>3. CopiesInv'
  BY <1>1, <1>2 DEF CopiesInv, Copy, Bindings
<1>4. CallsInv'
  <2>1. ASSUME NEW c \in Call, phase[c] # "idle", request[c].by = "id"
        PROVE  /\ request[c].id \in DOMAIN table'.entries
               /\ table'.entries[request[c].id].name = NameOf[c]
               /\ table'.entries[request[c].id].hash = request[c].hash
    BY <2>1 DEF CallsInv, WellAddressed, Within
  <2>2. \A c \in Call : phase[c] # "idle" => WellAddressed(c)'
    BY <2>1 DEF WellAddressed, CallsInv
  <2>3. QED
    BY <2>2 DEF CallsInv
<1>5. HeldAsNamed' /\ HandlerAsNamed'
  BY DEF HeldAsNamed, HandlerAsNamed
<1>6. QED
  BY <1>3, <1>4, <1>5

(* Any other step leaves the catalog as it is.                             *)
LEMMA CatalogStays ==
  ASSUME CatalogInv, UNCHANGED <<bound, table, changes>>,
         remote' # remote => Copy(remote)',
         carried' # carried => carried' = None \/ Copy(carried)',
         replies' \in Seq(Reply),
         \A k \in DOMAIN replies' : replies'[k].ext # None => Copy(replies'[k].ext)
  PROVE  CopiesInv' /\ ActiveAreBound' /\ \A x : Copy(x)' <=> Copy(x)
<1>1. \A x : Copy(x)' <=> Copy(x)
  BY DEF Copy
<1>2. ActiveAreBound'
  BY DEF CatalogInv, ActiveAreBound
<1>3. CopiesInv'
  BY <1>1 DEF CatalogInv, CopiesInv
<1>4. QED
  BY <1>1, <1>2, <1>3

(* A request encoded from the copy is addressed to the entry it names.     *)
LEMMA EncodedIsAddressed ==
  ASSUME CatalogInv, NEW c \in Call, NEW on, Encoded(c, on).by = "id"
  PROVE  /\ Encoded(c, on).id \in DOMAIN table.entries
         /\ table.entries[Encoded(c, on).id].name = NameOf[c]
         /\ table.entries[Encoded(c, on).id].hash = Encoded(c, on).hash
<1>1. on /\ NameOf[c] \in DOMAIN remote.index
  BY DEF Encoded
<1> DEFINE i == remote.index[NameOf[c]]
<1>2. Encoded(c, on) = [by |-> "id", id |-> i, version |-> remote.version, hash |-> remote.entries[i].hash]
  BY <1>1 DEF Encoded
<1>3. i \in DOMAIN remote.entries /\ remote.entries[i].name = NameOf[c]
  BY <1>1 DEF CatalogInv, CopiesInv, Copy, Indexed
<1>4. /\ i \in DOMAIN table.entries
      /\ table.entries[i].name = remote.entries[i].name
      /\ table.entries[i].hash = remote.entries[i].hash
  BY <1>3 DEF CatalogInv, CopiesInv, Copy, Within
<1> HIDE DEF i
<1>5. Encoded(c, on).id = i /\ Encoded(c, on).hash = remote.entries[i].hash
  BY <1>2
<1>6. QED
  BY <1>3, <1>4, <1>5

LEMMA RepliesAreCalls ==
  ASSUME NEW s \in Seq(Reply), NEW k \in DOMAIN s
  PROVE  s[k].call \in Call
<1>1. s[k] \in Reply
  BY ElementOfSeq, LenProperties
<1>2. QED
  BY <1>1 DEF Reply

LEMMA StepKeepsCatalog == CatalogInv /\ [Next]_vars => CatalogInv'
<1> SUFFICES ASSUME CatalogInv, [Next]_vars PROVE CatalogInv'
  OBVIOUS
<1>1. ASSUME NEW b \in Bindings, Refresh(b) PROVE CatalogInv'
  <2>1. table \in Table /\ MaxEntries \in Nat
    BY BoundsAssumption DEF CatalogInv, CopiesInv, Copy
  <2>2. PICK added \in Additions(table, Methods(b), MaxEntries) : table' = Sync(table, Methods(b), added)
    BY <1>1 DEF Refresh
  <2>3. /\ table' \in Table
        /\ Indexed(table')
        /\ Within(table.entries, table'.entries)
        /\ \A i \in Active(table'.entries) :
             /\ b[table'.entries[i].name] # NoMethod
             /\ HashOf[<<table'.entries[i].name, b[table'.entries[i].name]>>] = table'.entries[i].hash
    BY <2>1, <2>2, SyncKeepsIds
  <2>4. bound' = b /\ changes' \in Nat
    BY <1>1 DEF Refresh, CatalogInv, CopiesInv
  <2>5. ActiveAreBound'
    BY <2>3, <2>4 DEF ActiveAreBound
  <2>6. UNCHANGED <<remote, carried, replies, phase, request, handler, outcome>>
    BY <1>1 DEF Refresh, sessionVars, callVars
  <2>7. dangling \subseteq dangling' /\ dangling' \subseteq Call
    BY <1>1 DEF Refresh, Holding, CatalogInv, CallsInv
  <2>8. QED
    BY <2>3, <2>4, <2>5, <2>6, <2>7, CatalogGrows
<1>2. ASSUME NEW v \in 1 .. table.version, RaiseMinimum(v) PROVE CatalogInv'
  <2>1. table \in Table /\ v \in Nat
    BY DEF CatalogInv, CopiesInv, Copy, Table
  <2>2. /\ table' \in Table
        /\ table'.entries = table.entries
        /\ table'.index = table.index
    BY <1>2, <2>1, MinimumKeepsTable DEF RaiseMinimum
  <2>3. Indexed(table') /\ Within(table.entries, table'.entries)
    BY <2>2 DEF CatalogInv, CopiesInv, Copy, Indexed, Within
  <2>4. bound' \in Bindings /\ changes' \in Nat
    BY <1>2 DEF RaiseMinimum, CatalogInv, CopiesInv, Bindings
  <2>5. ActiveAreBound'
    BY <1>2, <2>2 DEF RaiseMinimum, CatalogInv, ActiveAreBound
  <2>6. UNCHANGED <<remote, carried, replies, phase, request, handler, outcome, dangling>>
    BY <1>2 DEF RaiseMinimum, sessionVars, callVars
  <2>7. dangling' \subseteq Call
    BY <2>6 DEF CatalogInv, CallsInv
  <2>8. QED
    BY <2>2, <2>3, <2>4, <2>5, <2>6, <2>7, CatalogGrows
<1>3. CASE AskHello \/ (\E allowed \in BOOLEAN : AnswerHello(allowed)) \/ AcceptHello
  <2>1. UNCHANGED <<bound, table, changes, phase, request, handler, outcome, dangling, replies>>
    BY <1>3 DEF AskHello, AnswerHello, AcceptHello, serverVars, callVars
  <2>2. carried' # carried => carried' = None \/ Copy(carried)'
    BY <1>3, <2>1 DEF AskHello, AnswerHello, AcceptHello, Extensions, CatalogInv, CopiesInv, Copy
  <2>3. remote' # remote => Copy(remote)'
    <3>1. SUFFICES ASSUME remote' # remote PROVE Copy(remote)'
      OBVIOUS
    <3>2. AcceptHello /\ Applies(carried) /\ remote' = Applied(carried)
      BY <1>3, <3>1 DEF AskHello, AnswerHello, AcceptHello
    <3>3. Copy(carried) /\ Copy(remote) /\ carried \in Table
      BY <3>2 DEF Applies, CatalogInv, CopiesInv, Copy
    <3>4. Copy(Applied(carried))
      BY <3>2, <3>3, AppliedIsCopy
    <3>5. QED
      BY <2>1, <3>2, <3>4 DEF Copy
  <2>4. /\ replies' \in Seq(Reply)
        /\ \A k \in DOMAIN replies' : replies'[k].ext # None => Copy(replies'[k].ext)
    BY <2>1 DEF CatalogInv, CopiesInv
  <2>5. CopiesInv' /\ ActiveAreBound'
    BY <2>1, <2>2, <2>3, <2>4, CatalogStays
  <2>6. CallsInv' /\ HeldAsNamed' /\ HandlerAsNamed'
    BY <2>1 DEF CatalogInv, CallsInv, HeldAsNamed, HandlerAsNamed, WellAddressed
  <2>7. QED
    BY <2>5, <2>6 DEF CatalogInv
<1>4. ASSUME NEW c \in Call, EncodeRequest(c) \/ Retry(c) PROVE CatalogInv'
  <2>1. UNCHANGED <<bound, table, changes, remote, carried, handler, outcome, dangling, replies>>
    BY <1>4 DEF EncodeRequest, Retry, serverVars, sessionVars
  <2>2. PICK on : request' = [request EXCEPT ![c] = Encoded(c, on)]
    BY <1>4 DEF EncodeRequest, Retry
  <2>3. phase[c] \in {"idle", "recovering"} /\ phase' = [phase EXCEPT ![c] = "sent"]
    BY <1>4 DEF EncodeRequest, Retry
  <2>4. /\ replies' \in Seq(Reply)
        /\ \A k \in DOMAIN replies' : replies'[k].ext # None => Copy(replies'[k].ext)
    BY <2>1 DEF CatalogInv, CopiesInv
  <2>5. CopiesInv' /\ ActiveAreBound'
    BY <2>1, <2>4, CatalogStays
  <2>6. CallsInv'
    <3>1. /\ phase' \in [Call -> {"idle", "sent", "dispatched", "rejected", "recovering", "done", "failed"}]
          /\ DOMAIN request' = Call /\ DOMAIN outcome' = Call /\ DOMAIN handler' = Call
          /\ dangling' \subseteq Call
      BY <2>1, <2>2, <2>3 DEF CatalogInv, CallsInv
    <3>2. ASSUME NEW d \in Call, phase'[d] # "idle" PROVE WellAddressed(d)'
      <4>1. CASE d = c
        <5>1. request'[d] = Encoded(c, on)
          BY <2>2, <4>1 DEF CatalogInv, CallsInv
        <5>2. Encoded(c, on).by \in {"id", "name"}
          BY DEF Encoded
        <5>3. QED
          BY <2>1, <4>1, <5>1, <5>2, EncodedIsAddressed DEF WellAddressed
      <4>2. CASE d # c
        BY <2>1, <2>2, <2>3, <3>2, <4>2 DEF CatalogInv, CallsInv, WellAddressed
      <4>3. QED
        BY <4>1, <4>2
    <3>3. \A d \in Call : /\ outcome'[d] # None => phase'[d] = "done"
                          /\ handler'[d] # None => phase'[d] = "dispatched"
      BY <2>1, <2>3 DEF CatalogInv, CallsInv
    <3>4. \A k \in DOMAIN replies' : phase'[replies'[k].call] = "rejected"
      BY <2>1, <2>3 DEF CatalogInv, CallsInv
    <3>5. QED
      BY <2>1, <3>1, <3>2, <3>3, <3>4 DEF CatalogInv, CallsInv
  <2>7. HeldAsNamed' /\ HandlerAsNamed'
    <3>1. outcome[c] = None /\ phase'[c] # "dispatched"
      BY <2>3 DEF CatalogInv, CallsInv
    <3>2. HeldAsNamed'
      BY <2>1, <2>2, <2>3, <3>1 DEF CatalogInv, CallsInv, HeldAsNamed
    <3>3. HandlerAsNamed'
      BY <2>1, <2>2, <3>1 DEF CatalogInv, CallsInv, HandlerAsNamed
    <3>4. QED
      BY <3>2, <3>3
  <2>8. QED
    BY <2>5, <2>6, <2>7 DEF CatalogInv
<1>5. ASSUME NEW c \in Call, Dispatch(c) PROVE CatalogInv'
  <2> DEFINE found == [name |-> IncomingName(c), signature |-> bound[IncomingName(c)]]
  <2>1. UNCHANGED <<bound, table, changes, remote, carried, request, dangling, replies>>
    BY <1>5 DEF Dispatch, serverVars, sessionVars
  <2>2. /\ phase[c] = "sent"
        /\ \/ /\ handler' = [handler EXCEPT ![c] = found]
              /\ phase' = [phase EXCEPT ![c] = "dispatched"]
              /\ outcome' = outcome
           \/ /\ outcome' = [outcome EXCEPT ![c] = found]
              /\ phase' = [phase EXCEPT ![c] = "done"]
              /\ handler' = handler
    BY <1>5 DEF Dispatch
  <2>3. /\ IncomingName(c) = NameOf[c]
        /\ request[c].by = "id" => /\ bound[NameOf[c]] # NoMethod
                                   /\ HashOf[<<NameOf[c], bound[NameOf[c]]>>] = request[c].hash
    <3>1. CASE request[c].by = "name"
      BY <3>1 DEF IncomingName
    <3>2. request[c].by \in {"id", "name"}
      BY <2>2 DEF CatalogInv, CallsInv, WellAddressed
    <3>3. CASE request[c].by = "id"
      <4>1. Resolve(table, request[c].id, request[c].version, request[c].hash) = "ok"
        BY <1>5, <3>3 DEF Dispatch, Status
      <4>2. request[c].id \in Active(table.entries) /\ table.entries[request[c].id].hash = request[c].hash
        <5>1. /\ request[c].id \in DOMAIN table.entries
              /\ table.entries[request[c].id].state # "removed"
              /\ table.entries[request[c].id].hash = request[c].hash
          BY <4>1 DEF Resolve
        <5>2. table.entries[request[c].id].state \in State
          <6>1. table.entries \in Seq(Entry)
            BY DEF CatalogInv, CopiesInv, Copy, Table, Entries
          <6>2. table.entries[request[c].id] \in Entry
            BY <5>1, <6>1, ElementOfSeq, LenProperties
          <6>3. QED
            BY <6>2 DEF Entry
        <5>3. QED
          BY <5>1, <5>2 DEF Active, State
      <4>3. table.entries[request[c].id].name = NameOf[c]
        BY <2>2, <3>3 DEF CatalogInv, CallsInv, WellAddressed
      <4>4. QED
        BY <3>3, <4>2, <4>3 DEF IncomingName, CatalogInv, ActiveAreBound
    <3>4. QED
      BY <3>1, <3>2, <3>3
  <2>4. found = [name |-> NameOf[c], signature |-> bound[NameOf[c]]]
    BY <2>3
  <2> HIDE DEF found
  <2>5. /\ replies' \in Seq(Reply)
        /\ \A k \in DOMAIN replies' : replies'[k].ext # None => Copy(replies'[k].ext)
    BY <2>1 DEF CatalogInv, CopiesInv
  <2>6. CopiesInv' /\ ActiveAreBound'
    BY <2>1, <2>5, CatalogStays
  <2>7. CallsInv'
    <3>1. /\ phase' \in [Call -> {"idle", "sent", "dispatched", "rejected", "recovering", "done", "failed"}]
          /\ DOMAIN request' = Call /\ DOMAIN outcome' = Call /\ DOMAIN handler' = Call
          /\ dangling' \subseteq Call
      BY <2>1, <2>2 DEF CatalogInv, CallsInv
    <3>2. \A d \in Call : phase'[d] # "idle" => WellAddressed(d)'
      BY <2>1, <2>2 DEF CatalogInv, CallsInv, WellAddressed
    <3>3. \A d \in Call : /\ outcome'[d] # None => phase'[d] = "done"
                          /\ handler'[d] # None => phase'[d] = "dispatched"
      BY <2>2 DEF CatalogInv, CallsInv
    <3>4. \A k \in DOMAIN replies' : phase'[replies'[k].call] = "rejected"
      <4>1. \A k \in DOMAIN replies : replies[k].call # c
        BY <2>2 DEF CatalogInv, CallsInv
      <4>2. \A k \in DOMAIN replies : replies[k].call \in Call
        BY RepliesAreCalls DEF CatalogInv, CopiesInv
      <4>3. \A d \in Call : d # c => phase'[d] = phase[d]
        BY <2>2 DEF CatalogInv, CallsInv
      <4>4. QED
        BY <2>1, <4>1, <4>2, <4>3 DEF CatalogInv, CallsInv
    <3>5. QED
      BY <2>1, <3>1, <3>2, <3>3, <3>4 DEF CatalogInv, CallsInv
  <2>8. HeldAsNamed'
    <3>1. phase'[c] = "dispatched" => handler'[c] = found
      BY <2>2 DEF CatalogInv, CallsInv
    <3>2. \A d \in Call : d # c => handler'[d] = handler[d] /\ phase'[d] = phase[d]
      BY <2>2 DEF CatalogInv, CallsInv
    <3>3. QED
      BY <2>1, <2>3, <2>4, <3>1, <3>2 DEF CatalogInv, HeldAsNamed
  <2>9. HandlerAsNamed'
    <3>1. outcome'[c] # None => outcome'[c] = found
      BY <2>2 DEF CatalogInv, CallsInv
    <3>2. \A d \in Call : d # c => outcome'[d] = outcome[d]
      BY <2>2 DEF CatalogInv, CallsInv
    <3>3. QED
      BY <2>1, <2>3, <2>4, <3>1, <3>2 DEF CatalogInv, HandlerAsNamed
  <2>10. QED
    BY <2>6, <2>7, <2>8, <2>9 DEF CatalogInv
<1>6. ASSUME NEW c \in Call, Fail(c) PROVE CatalogInv'
  <2>1. UNCHANGED <<bound, table, changes, remote, carried, request, handler, dangling, replies, outcome>>
    BY <1>6 DEF Fail, serverVars, sessionVars
  <2>2. phase[c] = "recovering" /\ phase' = [phase EXCEPT ![c] = "failed"]
    BY <1>6 DEF Fail
  <2>3. /\ replies' \in Seq(Reply)
        /\ \A k \in DOMAIN replies' : replies'[k].ext # None => Copy(replies'[k].ext)
    BY <2>1 DEF CatalogInv, CopiesInv
  <2>4. CopiesInv' /\ ActiveAreBound'
    BY <2>1, <2>3, CatalogStays
  <2>5. CallsInv'
    BY <2>1, <2>2 DEF CatalogInv, CallsInv, WellAddressed
  <2>6. HeldAsNamed' /\ HandlerAsNamed'
    BY <2>1, <2>2 DEF CatalogInv, CallsInv, HeldAsNamed, HandlerAsNamed
  <2>7. QED
    BY <2>4, <2>5, <2>6 DEF CatalogInv
<1>7. ASSUME NEW c \in Call, Reject(c) PROVE CatalogInv'
  <2> DEFINE r == [call |-> c, ext |-> IF serverEnabled THEN Extensions ELSE None]
  <2>1. UNCHANGED <<bound, table, changes, remote, carried, request, handler, dangling, outcome>>
    BY <1>7 DEF Reject, serverVars, sessionVars
  <2>2. phase[c] = "sent" /\ phase' = [phase EXCEPT ![c] = "rejected"] /\ replies' = Append(replies, r)
    BY <1>7 DEF Reject
  <2>3. r \in Reply /\ r.call = c /\ (r.ext # None => Copy(r.ext))
    BY DEF Reply, Extensions, CatalogInv, CopiesInv, Copy
  <2> HIDE DEF r
  <2>4. /\ replies' \in Seq(Reply) /\ Len(replies') = Len(replies) + 1 /\ Len(replies) \in Nat
        /\ \A k \in DOMAIN replies' : replies'[k] = IF k \in DOMAIN replies THEN replies[k] ELSE r
        /\ DOMAIN replies' = DOMAIN replies \cup {Len(replies) + 1}
    <3>1. replies \in Seq(Reply)
      BY DEF CatalogInv, CopiesInv
    <3>2. QED
      BY <2>2, <2>3, <3>1, AppendProperties, LenProperties
  <2>5. \A k \in DOMAIN replies' : replies'[k].ext # None => Copy(replies'[k].ext)
    BY <2>3, <2>4 DEF CatalogInv, CopiesInv
  <2>6. CopiesInv' /\ ActiveAreBound'
    BY <2>1, <2>4, <2>5, CatalogStays
  <2>7. CallsInv'
    <3>1. \A k \in DOMAIN replies : replies[k].call # c
      BY <2>2 DEF CatalogInv, CallsInv
    <3>2. \A k \in DOMAIN replies : replies[k].call \in Call
      BY RepliesAreCalls DEF CatalogInv, CopiesInv
    <3>3. \A k \in DOMAIN replies' : phase'[replies'[k].call] = "rejected"
      BY <2>2, <2>3, <2>4, <3>1, <3>2 DEF CatalogInv, CallsInv
    <3>4. \A j, k \in DOMAIN replies' : replies'[j].call = replies'[k].call => j = k
      BY <2>3, <2>4, <3>1 DEF CatalogInv, CallsInv
    <3>5. QED
      BY <2>1, <2>2, <3>3, <3>4 DEF CatalogInv, CallsInv, WellAddressed
  <2>8. HeldAsNamed' /\ HandlerAsNamed'
    BY <2>1, <2>2 DEF CatalogInv, CallsInv, HeldAsNamed, HandlerAsNamed
  <2>9. QED
    BY <2>6, <2>7, <2>8 DEF CatalogInv
<1>8. CASE DecodeResponse
  <2> DEFINE r == Head(replies)
  <2>1. UNCHANGED <<bound, table, changes, carried, request, handler, dangling, outcome>>
    BY <1>8 DEF DecodeResponse, serverVars
  <2>2. /\ replies # <<>> /\ replies' = Tail(replies)
        /\ phase' = [phase EXCEPT ![r.call] = "recovering"]
        /\ remote' = IF Applies(r.ext) THEN Applied(r.ext) ELSE Empty
    BY <1>8 DEF DecodeResponse
  <2>3. replies \in Seq(Reply)
    BY DEF CatalogInv, CopiesInv
  <2>4. /\ r = replies[1] /\ 1 \in DOMAIN replies
        /\ DOMAIN replies = 1 .. Len(replies) /\ Len(replies) \in Nat
        /\ replies' \in Seq(Reply)
        /\ \A k \in DOMAIN replies' : k \in Nat \ {0} /\ k + 1 \in DOMAIN replies /\ replies'[k] = replies[k + 1]
    BY <2>2, <2>3, HeadTailProperties, LenProperties
  <2>5. r \in Reply /\ phase[r.call] = "rejected" /\ (r.ext # None => Copy(r.ext))
    BY <2>3, <2>4, ElementOfSeq DEF CatalogInv, CopiesInv, CallsInv
  <2> HIDE DEF r
  <2>6. \A k \in DOMAIN replies' : replies'[k].ext # None => Copy(replies'[k].ext)
    BY <2>4 DEF CatalogInv, CopiesInv
  <2>7. Copy(remote)'
    <3>1. CASE Applies(r.ext)
      <4>1. Copy(r.ext) /\ r.ext \in Table
        BY <2>5, <3>1 DEF Applies, Copy
      <4>2. Copy(remote)
        BY DEF CatalogInv, CopiesInv
      <4>3. Copy(Applied(r.ext))
        BY <3>1, <4>1, <4>2, AppliedIsCopy
      <4>4. QED
        BY <2>1, <2>2, <3>1, <4>3 DEF Copy
    <3>2. CASE ~Applies(r.ext)
      <4>1. remote' = Empty /\ Empty.entries = <<>>
        BY <2>2, <3>2 DEF Empty
      <4>2. QED
        BY <4>1, EmptyIsTable DEF Copy, Within
    <3>3. QED
      BY <3>1, <3>2
  <2>8. CopiesInv' /\ ActiveAreBound'
    BY <2>1, <2>4, <2>6, <2>7, CatalogStays
  <2>9. CallsInv'
    <3>1. r.call \in Call
      BY <2>5 DEF Reply
    <3>2. \A k \in DOMAIN replies' : replies'[k].call # r.call
      BY <2>4 DEF CatalogInv, CallsInv
    <3>3. \A k \in DOMAIN replies' : phase'[replies'[k].call] = "rejected"
      <4>1. \A k \in DOMAIN replies' : phase[replies'[k].call] = "rejected"
        BY <2>4 DEF CatalogInv, CallsInv
      <4>2. \A k \in DOMAIN replies' : replies'[k].call \in Call
        BY <2>4, RepliesAreCalls
      <4>3. QED
        BY <2>2, <3>2, <4>1, <4>2 DEF CatalogInv, CallsInv
    <3>4. \A j, k \in DOMAIN replies' : replies'[j].call = replies'[k].call => j = k
      <4>1. SUFFICES ASSUME NEW j \in DOMAIN replies', NEW k \in DOMAIN replies',
                            replies'[j].call = replies'[k].call
                     PROVE  j = k
        OBVIOUS
      <4>2. j + 1 = k + 1
        BY <2>4, <4>1 DEF CatalogInv, CallsInv
      <4>3. QED
        BY <2>4, <4>2
    <3>5. /\ phase' \in [Call -> {"idle", "sent", "dispatched", "rejected", "recovering", "done", "failed"}]
          /\ \A d \in Call : phase'[d] # "idle" => WellAddressed(d)'
          /\ \A d \in Call : outcome'[d] # None => phase'[d] = "done"
          /\ \A d \in Call : handler'[d] # None => phase'[d] = "dispatched"
      BY <2>1, <2>2, <2>5, <3>1 DEF CatalogInv, CallsInv, WellAddressed
    <3>6. QED
      BY <2>1, <3>3, <3>4, <3>5 DEF CatalogInv, CallsInv
  <2>10. HeldAsNamed' /\ HandlerAsNamed'
    <3>1. r.call \in Call
      BY <2>5 DEF Reply
    <3>2. QED
      BY <2>1, <2>2, <2>5, <3>1 DEF CatalogInv, CallsInv, HeldAsNamed, HandlerAsNamed
  <2>11. QED
    BY <2>8, <2>9, <2>10 DEF CatalogInv
<1>9. ASSUME NEW c \in Call, Invoke(c) PROVE CatalogInv'
  <2>1. UNCHANGED <<bound, table, changes, remote, carried, request, dangling, replies>>
    BY <1>9 DEF Invoke, serverVars, sessionVars
  <2>2. /\ phase[c] = "dispatched" /\ phase' = [phase EXCEPT ![c] = "done"]
        /\ handler' = [handler EXCEPT ![c] = None]
    BY <1>9 DEF Invoke
  <2>3. PICK h \in Reached(c) : outcome' = [outcome EXCEPT ![c] = h]
    BY <1>9 DEF Invoke
  <2>4. /\ replies' \in Seq(Reply)
        /\ \A k \in DOMAIN replies' : replies'[k].ext # None => Copy(replies'[k].ext)
    BY <2>1 DEF CatalogInv, CopiesInv
  <2>5. CopiesInv' /\ ActiveAreBound'
    BY <2>1, <2>4, CatalogStays
  <2>6. CallsInv'
    <3>1. /\ phase' \in [Call -> {"idle", "sent", "dispatched", "rejected", "recovering", "done", "failed"}]
          /\ DOMAIN request' = Call /\ DOMAIN outcome' = Call /\ DOMAIN handler' = Call
          /\ dangling' \subseteq Call
      BY <2>1, <2>2, <2>3 DEF CatalogInv, CallsInv
    <3>2. \A d \in Call : phase'[d] # "idle" => WellAddressed(d)'
      BY <2>1, <2>2 DEF CatalogInv, CallsInv, WellAddressed
    <3>3. \A d \in Call : /\ outcome'[d] # None => phase'[d] = "done"
                          /\ handler'[d] # None => phase'[d] = "dispatched"
      BY <2>2, <2>3 DEF CatalogInv, CallsInv
    <3>4. \A k \in DOMAIN replies' : phase'[replies'[k].call] = "rejected"
      <4>1. \A k \in DOMAIN replies : replies[k].call # c
        BY <2>2 DEF CatalogInv, CallsInv
      <4>2. \A k \in DOMAIN replies : replies[k].call \in Call
        BY RepliesAreCalls DEF CatalogInv, CopiesInv
      <4>3. \A d \in Call : d # c => phase'[d] = phase[d]
        BY <2>2 DEF CatalogInv, CallsInv
      <4>4. QED
        BY <2>1, <4>1, <4>2, <4>3 DEF CatalogInv, CallsInv
    <3>5. QED
      BY <2>1, <3>1, <3>2, <3>3, <3>4 DEF CatalogInv, CallsInv
  <2>7. HeldAsNamed'
    BY <2>1, <2>2 DEF CatalogInv, CallsInv, HeldAsNamed
  <2>8. HandlerAsNamed'
    <3>1. c \notin dangling => outcome'[c] = handler[c]
      BY <2>3 DEF Reached, CatalogInv, CallsInv
    <3>2. \A d \in Call : d # c => outcome'[d] = outcome[d]
      BY <2>3 DEF CatalogInv, CallsInv
    <3>3. QED
      BY <2>1, <2>2, <3>1, <3>2 DEF CatalogInv, HeldAsNamed, HandlerAsNamed
  <2>9. QED
    BY <2>5, <2>6, <2>7, <2>8 DEF CatalogInv
<1>10. CASE UNCHANGED vars
  <2>1. UNCHANGED <<bound, table, changes, remote, carried, request, handler, dangling, outcome, phase, replies>>
    BY <1>10 DEF vars, serverVars, sessionVars, callVars
  <2>2. CopiesInv' /\ ActiveAreBound'
    BY <2>1 DEF CatalogInv, CopiesInv, Copy, ActiveAreBound
  <2>3. CallsInv' /\ HeldAsNamed' /\ HandlerAsNamed'
    BY <2>1 DEF CatalogInv, CallsInv, WellAddressed, HeldAsNamed, HandlerAsNamed
  <2>4. QED
    BY <2>2, <2>3 DEF CatalogInv
<1>11. QED
  BY <1>1, <1>2, <1>3, <1>4, <1>5, <1>6, <1>7, <1>8, <1>9, <1>10 DEF Next, CallStep, Bindings

-----------------------------------------------------------------------------
(* What follows for every behaviour. *)

(* The copies of the table that the client and the messages hold are past  *)
(* states of the catalog, and no call is left without its method.          *)
THEOREM CatalogInvariant == Spec => []CatalogInv
<1>1. QED
  BY InitCatalog, StepKeepsCatalog, PTL DEF Spec

(* A request reaches the handler of the name it was made for, one of the   *)
(* signature its hash stands for, whatever refreshMethodCatalog did while  *)
(* it was on its way or waited for its permit, and however hashes collide; *)
(* unless its own handler was destroyed while it waited.                   *)
THEOREM CallsReachTheirHandler == Spec => []HandlerAsNamed
<1>1. CatalogInv => HandlerAsNamed
  BY DEF CatalogInv
<1>2. QED
  BY <1>1, CatalogInvariant, PTL

(* refreshMethodCatalog and setMinimumVersion never move, rename or revive *)
(* an entry, and the version of the table does not go back.                *)
THEOREM IdsStay == Spec => IdsAreForever
<1> DEFINE Keeps ==
      /\ \A i \in DOMAIN table.entries :
           /\ i \in DOMAIN table'.entries
           /\ table'.entries[i].name = table.entries[i].name
           /\ table'.entries[i].hash = table.entries[i].hash
           /\ table.entries[i].state = "removed" => table'.entries[i].state = "removed"
      /\ table'.version >= table.version
<1>1. CatalogInv /\ [Next]_vars => Keeps
  <2> SUFFICES ASSUME CatalogInv, [Next]_vars PROVE Keeps
    OBVIOUS
  <2>1. table \in Table /\ MaxEntries \in Nat /\ table.version \in Nat
    BY BoundsAssumption DEF CatalogInv, CopiesInv, Copy, Table
  <2>2. ASSUME NEW b \in Bindings, Refresh(b) PROVE Keeps
    <3>1. PICK added \in Additions(table, Methods(b), MaxEntries) : table' = Sync(table, Methods(b), added)
      BY <2>2 DEF Refresh
    <3>2. QED
      BY <2>1, <3>1, SyncKeepsIds DEF Within
  <2>3. ASSUME NEW v \in 1 .. table.version, RaiseMinimum(v) PROVE Keeps
    BY <2>1, <2>3, MinimumKeepsTable DEF RaiseMinimum
  <2>4. CASE UNCHANGED table
    BY <2>1, <2>4
  <2>5. (\E b \in Bindings : Refresh(b)) \/ (\E v \in 1 .. table.version : RaiseMinimum(v)) \/ UNCHANGED table
    BY DEF Next, Bindings, vars, serverVars, AskHello, AnswerHello, AcceptHello, DecodeResponse, CallStep,
           EncodeRequest, Dispatch, Invoke, Reject, Retry, Fail
  <2>6. QED
    BY <2>2, <2>3, <2>4, <2>5
<1>2. CatalogInv /\ [Next]_vars => [Keeps]_vars
  BY <1>1
<1>3. QED
  BY <1>2, CatalogInvariant, PTL DEF Spec, IdsAreForever

============================================================================
