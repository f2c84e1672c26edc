------------------------ MODULE MethodCatalogCopies ------------------------
(***************************************************************************)
(* More proofs about MethodCatalog, on the invariant of                    *)
(* MethodCatalogProofs: what a version says of a copy of the catalog, why  *)
(* one retry is enough, what the catalog has of the handlers, and that the *)
(* loops of a refresh leave what the closed form of the model says.        *)
(***************************************************************************)
EXTENDS MethodCatalogProofs, NaturalsInduction, WellFoundedInduction

-----------------------------------------------------------------------------
(* Why one retry is enough. *)

(* The changes of the catalog that the last rejection of a call had seen.  *)
Stamp(c) == rejected[c][Len(rejected[c])]

(* A call is rejected once, and once more after its retry; it is encoded   *)
(* after the hello.                                                        *)
CallsRejected ==
  /\ rejected \in [Call -> Seq(Nat)] /\ retried \in [Call -> BOOLEAN]
  /\ \A c \in Call :
       /\ phase[c] = "idle" => Len(rejected[c]) = 0 /\ ~retried[c]
       /\ phase[c] = "sent" => Len(rejected[c]) = IF retried[c] THEN 1 ELSE 0
       /\ phase[c] \in {"rejected", "recovering"} =>
            Len(rejected[c]) = IF retried[c] THEN 2 ELSE 1
       /\ phase[c] # "idle" => hello = "done"
       /\ Len(rejected[c]) > 0 => Stamp(c) <= changes

(* An error of the resolution that saw all changes carries the table as it *)
(* is, and so do those behind it.                                          *)
Current == IF serverEnabled THEN Extensions ELSE None
RepliesCurrent ==
  /\ \A k \in DOMAIN replies : Stamp(replies[k].call) = changes => replies[k].ext = Current
  /\ \A j, k \in DOMAIN replies : j < k => Stamp(replies[j].call) <= Stamp(replies[k].call)

(* Once the client has decoded one, it is up to date, or uses names. *)
SessionCurrent ==
  enabled => /\ serverEnabled
             /\ remote.entries = table.entries
             /\ remote.index = Index(table.entries)
             /\ remote.entries # <<>> => remote.version = table.version /\ table.version # 0
Recovering(c) == phase[c] = "recovering" /\ Stamp(c) = changes
RecoveryCurrent ==
  \A c \in Call : Recovering(c) =>
    SessionCurrent /\ \A k \in DOMAIN replies : Stamp(replies[k].call) = changes

(* So what it encodes anew resolves. *)
RetryResolves ==
  \A c \in Call : phase[c] = "sent" /\ retried[c] /\ Stamp(c) = changes => Status(request[c]) = "ok"

MinimumWithin == table.minimum <= table.version

RetryInv ==
  /\ CallsRejected /\ RepliesCurrent /\ RecoveryCurrent /\ RetryResolves /\ MinimumWithin
  /\ RetrySettles

-----------------------------------------------------------------------------
(* What a version says. *)

(* The changes of the bindings fit into the table. *)
TableHasRoom == Len(NameOrder) * (MaxChanges + 1) <= MaxEntries

UniqueActive(entries) ==
  \A i, j \in Active(entries) : entries[i].name = entries[j].name => i = j

(* A copy is older than the catalog, or is the catalog. *)
NotNewer(t, catalog) ==
  /\ t.version <= catalog.version
  /\ t.version # 0 /\ t.version = catalog.version => t.entries = catalog.entries

VersionsMean ==
  /\ NotNewer(remote, table)
  /\ carried # None => NotNewer(carried, table)
  /\ \A k \in DOMAIN replies : replies[k].ext # None => NotNewer(replies[k].ext, table)

VersionInv ==
  /\ UniqueActive(table.entries) /\ VersionsMean
  /\ Len(table.entries) <= Len(NameOrder) * (changes + 1)

-----------------------------------------------------------------------------
(* What the catalog has of the handlers. *)

RepliesOfRejected ==
  \A c \in Call : phase[c] = "rejected" => \E k \in DOMAIN replies : replies[k].call = c

HandlersInv ==
  /\ Len(table.entries) <= MaxEntries /\ Len(remote.entries) <= PeerMaxEntries
  /\ hello \in {"none", "asked", "answered", "done"}
  /\ {serverEnabled, enabled, agreed} \subseteq BOOLEAN
  /\ table.index = Index(table.entries)
  /\ RepliesOfRejected /\ CatalogMatchesHandlers

-----------------------------------------------------------------------------
(* Lemmas about the steps. *)

LEMMA Bases ==
  ASSUME CatalogInv
  PROVE  /\ table \in Table /\ remote \in Table /\ table.version \in Nat /\ table.minimum \in Nat
         /\ changes \in Nat /\ replies \in Seq(Reply)
         /\ \A k \in DOMAIN replies : replies[k].call \in Call /\ phase[replies[k].call] = "rejected"
BY RepliesAreCalls DEF CatalogInv, CopiesInv, Copy, CallsInv, Table

LEMMA AppliedIsIt ==
  ASSUME NEW ext \in Table, Applies(ext)
  PROVE  /\ Applied(ext).entries = ext.entries
         /\ Applied(ext).index = Index(ext.entries)
         /\ ext.entries # <<>> => Applied(ext).version = ext.version /\ ext.version # 0
         /\ ext.entries = <<>> => Applied(ext).version = 0
<1>1. ext.entries \in Entries /\ ext.version \in Nat /\ ext.minimum \in Nat
  BY DEF Table
<1> DEFINE i == Installed(ext.entries, ext.version)
<1>2. Applied(ext) = SetMinimum(i, ext.minimum)
  BY DEF Applied, Applies, ApplyRemoteTable
<1>3. /\ i.entries = ext.entries /\ i.index = Index(ext.entries)
      /\ i.version = IF ext.entries = <<>> THEN 0 ELSE ext.version
  BY DEF Installed
<1>4. i \in Table
  BY <1>1, InstalledIsTable
<1> HIDE DEF i
<1>5. /\ Applied(ext).entries = i.entries /\ Applied(ext).index = i.index
      /\ Applied(ext).version = i.version
  BY <1>1, <1>2, <1>4, MinimumKeepsTable
<1>6. ext.entries # <<>> => ext.version # 0
  BY DEF Applies, Valid
<1>7. QED
  BY <1>3, <1>5, <1>6

(* What the client encodes with the current table resolves. *)
LEMMA EncodedResolves ==
  ASSUME CatalogInv, MinimumWithin, SessionCurrent, NEW c \in Call, NEW on,
         on => enabled /\ remote.entries # <<>>
  PROVE  Status(Encoded(c, on)) = "ok"
<1> DEFINE r == Encoded(c, on)
           n == NameOf[c]
<1>1. CASE ~(on /\ n \in DOMAIN remote.index)
  BY <1>1 DEF Encoded, Status
<1>2. CASE on /\ n \in DOMAIN remote.index
  <2>1. /\ serverEnabled /\ remote.entries = table.entries
        /\ remote.index = Index(table.entries)
        /\ remote.version = table.version /\ table.version # 0
    BY <1>2 DEF SessionCurrent
  <2>2. table.entries \in Entries
    BY Bases DEF Table
  <2>3. Index(table.entries)[n] \in Active(table.entries)
    BY <1>2, <2>1, <2>2, IndexLeadsToActive
  <2> DEFINE i == Index(table.entries)[n]
  <2>4. r = [by |-> "id", id |-> i, version |-> table.version, hash |-> table.entries[i].hash]
    BY <1>2, <2>1 DEF Encoded
  <2> HIDE DEF i, r
  <2>5. i \in DOMAIN table.entries /\ table.entries[i].state = "active"
    BY <2>3 DEF i, Active
  <2>6. table.minimum <= table.version /\ table.version \in Nat /\ table.minimum \in Nat
    BY Bases DEF MinimumWithin
  <2>7. Resolve(table, i, table.version, table.entries[i].hash) = "ok"
    BY <2>1, <2>5, <2>6 DEF Resolve
  <2>8. Status(r) = "ok"
    BY <2>1, <2>4, <2>7 DEF Status
  <2>9. QED
    BY <2>8 DEF r
<1>3. QED
  BY <1>1, <1>2

LEMMA SyncMinimum ==
  ASSUME NEW t \in Table, t.minimum <= t.version, NEW b \in Bindings,
         NEW added \in Additions(t, Methods(b), MaxEntries)
  PROVE  LET s == Sync(t, Methods(b), added) IN s.minimum <= s.version
<1> DEFINE n == Bumps(t, Methods(b), added)
<1>1. /\ t.entries \in Seq(Entry) /\ t.version \in Nat /\ t.minimum \in Nat
  BY DEF Table, Entries
<1>2. n \in Nat
  <2>1. IsFiniteSet(DOMAIN t.entries)
    <3>1. Len(t.entries) \in Nat /\ DOMAIN t.entries = 1 .. Len(t.entries)
      BY <1>1, LenProperties
    <3>2. IsFiniteSet(1 .. Len(t.entries))
      BY <3>1, FS_Interval
    <3>3. QED
      BY <3>1, <3>2
  <2>2. Cardinality({i \in Active(t.entries) : t.entries[i].name \notin DOMAIN Methods(b)}) \in Nat
    BY <2>1, FS_Subset, FS_CardinalityType DEF Active
  <2>3. Len(added) \in Nat
    BY RoomIsNat, BoundsAssumption DEF Additions
  <2>4. QED
    BY <2>2, <2>3 DEF Bumps
<1>3. LET s == Sync(t, Methods(b), added)
      IN  /\ s.version = t.version + n
          /\ s.minimum = IF t.version = 0 /\ n > 0 THEN 1 ELSE t.minimum
  BY DEF Sync
<1> HIDE DEF n
<1>4. QED
  BY <1>1, <1>2, <1>3

(* A call that was rejected has seen no more changes than there were. *)
Rejectable(c) == phase[c] \in {"rejected", "recovering"} \/ (phase[c] = "sent" /\ retried[c])
LEMMA Stamped ==
  ASSUME CatalogInv, CallsRejected, NEW c \in Call, Rejectable(c)
  PROVE  Stamp(c) \in Nat /\ Stamp(c) <= changes /\ changes \in Nat
<1>1. rejected[c] \in Seq(Nat)
  BY DEF CallsRejected
<1>2. Len(rejected[c]) \in Nat \ {0}
  <2>1. CASE phase[c] \in {"rejected", "recovering"}
    <3>1. Len(rejected[c]) = IF retried[c] THEN 2 ELSE 1
      BY <2>1 DEF CallsRejected
    <3>2. QED
      BY <3>1
  <2>2. CASE phase[c] = "sent" /\ retried[c]
    <3>1. Len(rejected[c]) = IF retried[c] THEN 1 ELSE 0
      BY <2>2 DEF CallsRejected
    <3>2. QED
      BY <2>2, <3>1
  <2>3. QED
    BY <2>1, <2>2 DEF Rejectable
<1>3. Len(rejected[c]) \in DOMAIN rejected[c] /\ Len(rejected[c]) > 0
  <2>1. DOMAIN rejected[c] = 1 .. Len(rejected[c])
    BY <1>1, LenProperties
  <2>2. QED
    BY <1>2, <2>1
<1>4. Stamp(c) \in Nat
  BY <1>1, <1>3, ElementOfSeq, LenProperties DEF Stamp
<1>5. Stamp(c) <= changes
  BY <1>3 DEF CallsRejected
<1>6. QED
  BY <1>4, <1>5, Bases

(* A change of the catalog makes every rejection an old one. *)
LEMMA ChangeMakesOld ==
  ASSUME CatalogInv, RetryInv, changes' = changes + 1, MinimumWithin',
         UNCHANGED <<hello, phase, retried, replies, rejected>>
  PROVE  RetryInv'
<1> USE DEF RetryInv
<1>1. changes \in Nat
  BY Bases
<1>2. \A c \in Call : Stamp(c)' = Stamp(c)
  BY DEF Stamp
<1>3. ASSUME NEW c \in Call, Rejectable(c)
      PROVE  Stamp(c)' # changes'
  <2>1. Stamp(c) \in Nat /\ Stamp(c) <= changes
    BY <1>3, Stamped
  <2>2. QED
    BY <1>1, <1>2, <2>1
<1>4. CallsRejected'
  <2>1. ASSUME NEW c \in Call, Len(rejected[c]) > 0 PROVE Stamp(c)' <= changes'
    <3>1. Stamp(c) <= changes /\ Stamp(c) \in Nat
      <4>1. rejected[c] \in Seq(Nat) /\ Len(rejected[c]) \in DOMAIN rejected[c]
        BY <2>1 DEF CallsRejected
      <4>2. QED
        BY <2>1, <4>1, ElementOfSeq, LenProperties DEF Stamp, CallsRejected
    <3>2. QED
      BY <1>1, <1>2, <3>1
  <2>2. QED
    BY <2>1 DEF CallsRejected
<1>5. \A k \in DOMAIN replies : /\ Stamp(replies[k].call)' = Stamp(replies[k].call)
                                /\ Stamp(replies[k].call)' # changes'
  BY <1>2, <1>3, Bases DEF Rejectable
<1>6. RepliesCurrent'
  BY <1>5 DEF RepliesCurrent
<1>7. RecoveryCurrent' /\ RetryResolves'
  BY <1>3 DEF RecoveryCurrent, Recovering, RetryResolves, Rejectable
<1>8. RetrySettles'
  BY DEF RetrySettles
<1>9. QED
  BY <1>4, <1>6, <1>7, <1>8

LEMMA HelloRetry ==
  ASSUME CatalogInv, RetryInv,
         AskHello \/ AcceptHello \/ (\E allowed \in BOOLEAN : AnswerHello(allowed))
  PROVE  RetryInv'
<1> USE DEF RetryInv
<1>1. hello # "done" /\ UNCHANGED <<table, changes, phase, retried, replies, rejected>>
  BY DEF AskHello, AcceptHello, AnswerHello, serverVars, callVars
<1>2. \A c \in Call : phase[c] = "idle"
  BY <1>1 DEF CallsRejected
<1>3. DOMAIN replies = {}
  BY <1>2, Bases
<1>4. CallsRejected'
  BY <1>1, <1>2 DEF CallsRejected, Stamp
<1>5. RepliesCurrent' /\ RecoveryCurrent' /\ RetryResolves' /\ MinimumWithin' /\ RetrySettles'
  BY <1>1, <1>2, <1>3
     DEF RepliesCurrent, RecoveryCurrent, Recovering, RetryResolves, MinimumWithin, RetrySettles
<1>6. QED
  BY <1>4, <1>5

(* A step of one call that is no rejection. *)
LEMMA CallRetry ==
  ASSUME CatalogInv, RetryInv, NEW c \in Call,
         UNCHANGED <<table, serverEnabled, hello, remote, changes, replies, rejected>>,
         phase[c] # "rejected", hello = "done",
         phase' \in [Call -> {"idle", "sent", "dispatched", "rejected", "recovering", "done", "failed"}],
         phase'[c] \notin {"idle", "rejected", "recovering"},
         retried' \in [Call -> BOOLEAN],
         \A d \in Call \ {c} : /\ phase'[d] = phase[d] /\ retried'[d] = retried[d]
                               /\ request'[d] = request[d],
         phase'[c] = "sent" => Len(rejected[c]) = IF retried'[c] THEN 1 ELSE 0,
         enabled' => enabled,
         phase'[c] = "sent" /\ retried'[c] /\ Stamp(c) = changes => Status(request'[c]) = "ok"
  PROVE  RetryInv'
<1> USE DEF RetryInv
<1>1. \A d \in Call : Stamp(d)' = Stamp(d)
  BY DEF Stamp
<1>2. \A k \in DOMAIN replies : /\ replies[k].call \in Call
                                /\ Stamp(replies[k].call)' = Stamp(replies[k].call)
  BY <1>1, Bases
<1>3. CallsRejected'
  BY <1>1 DEF CallsRejected
<1>4. RepliesCurrent'
  BY <1>2 DEF RepliesCurrent, Current, Extensions
<1>5. SessionCurrent => SessionCurrent'
  BY DEF SessionCurrent
<1>6. RecoveryCurrent'
  <2>1. \A d \in Call : Recovering(d)' => Recovering(d)
    BY <1>1 DEF Recovering
  <2>2. QED
    BY <1>2, <1>5, <2>1 DEF RecoveryCurrent
<1>7. RetryResolves'
  <2>1. \A r : Status(r)' = Status(r)
    BY DEF Status, Resolve
  <2>2. QED
    BY <1>1, <2>1 DEF RetryResolves
<1>8. MinimumWithin' /\ RetrySettles'
  BY DEF MinimumWithin, RetrySettles
<1>9. QED
  BY <1>3, <1>4, <1>6, <1>7, <1>8

LEMMA RejectRetry ==
  ASSUME CatalogInv, RetryInv, NEW c \in Call, Reject(c)
  PROVE  RetryInv'
<1> USE DEF RetryInv
<1>1. /\ phase[c] = "sent" /\ Status(request[c]) # "ok"
      /\ phase' = [phase EXCEPT ![c] = "rejected"]
      /\ rejected' = [rejected EXCEPT ![c] = Append(rejected[c], changes)]
      /\ replies' = Append(replies, [call |-> c, ext |-> Current])
      /\ UNCHANGED <<table, serverEnabled, hello, enabled, remote, request, retried, changes>>
  BY DEF Reject, Current, serverVars, sessionVars
<1>2. changes \in Nat /\ replies \in Seq(Reply) /\ rejected[c] \in Seq(Nat)
  BY Bases DEF CallsRejected
<1>3. /\ Len(rejected[c]) = IF retried[c] THEN 1 ELSE 0
      /\ retried[c] \in BOOLEAN
  BY <1>1 DEF CallsRejected
<1>4. /\ rejected'[c] = Append(rejected[c], changes) /\ rejected' \in [Call -> Seq(Nat)]
      /\ Len(rejected'[c]) = Len(rejected[c]) + 1 /\ Stamp(c)' = changes
      /\ retried[c] => rejected'[c][1] = Stamp(c) /\ rejected'[c][2] = changes
  <2>1. rejected'[c] = Append(rejected[c], changes) /\ rejected' \in [Call -> Seq(Nat)]
    BY <1>1, <1>2 DEF CallsRejected
  <2>2. /\ Len(Append(rejected[c], changes)) = Len(rejected[c]) + 1
        /\ Append(rejected[c], changes)[Len(rejected[c]) + 1] = changes
        /\ \A i \in 1 .. Len(rejected[c]) : Append(rejected[c], changes)[i] = rejected[c][i]
    BY <1>2, AppendProperties
  <2>3. Stamp(c)' = changes
    BY <2>1, <2>2 DEF Stamp
  <2>4. CASE retried[c]
    <3>1. Len(rejected[c]) = 1
      BY <1>3, <2>4
    <3>2. QED
      BY <2>1, <2>2, <2>3, <3>1 DEF Stamp
  <2>5. CASE ~retried[c]
    BY <2>1, <2>2, <2>3, <2>5
  <2>6. QED
    BY <1>3, <2>4, <2>5
<1>5. \A d \in Call \ {c} : /\ rejected'[d] = rejected[d] /\ phase'[d] = phase[d]
                            /\ Stamp(d)' = Stamp(d)
  BY <1>1 DEF CallsRejected, CatalogInv, CallsInv, Stamp
<1>6. CallsRejected'
  <2>1. phase' \in [Call -> {"idle", "sent", "dispatched", "rejected", "recovering", "done", "failed"}]
    BY <1>1 DEF CatalogInv, CallsInv
  <2>2. phase'[c] = "rejected" /\ Len(rejected'[c]) = IF retried[c] THEN 2 ELSE 1
    BY <1>1, <1>3, <1>4 DEF CatalogInv, CallsInv
  <2>3. hello' = "done"
    BY <1>1 DEF CallsRejected
  <2>4. Stamp(c)' <= changes'
    BY <1>1, <1>2, <1>4
  <2>5. QED
    BY <1>1, <1>4, <1>5, <2>1, <2>2, <2>3, <2>4 DEF CallsRejected
<1>7. /\ DOMAIN replies' = 1 .. Len(replies) + 1 /\ DOMAIN replies = 1 .. Len(replies)
      /\ Len(replies) \in Nat
      /\ replies'[Len(replies) + 1] = [call |-> c, ext |-> Current]
      /\ \A k \in DOMAIN replies : /\ replies'[k] = replies[k]
                                   /\ replies[k].call \in Call \ {c}
                                   /\ Stamp(replies[k].call)' = Stamp(replies[k].call)
                                   /\ Stamp(replies[k].call) <= changes
  <2> DEFINE r == [call |-> c, ext |-> Current]
  <2>1. r \in Reply
    BY DEF Current, Extensions, Reply, CatalogInv, CopiesInv, Copy
  <2>2. replies' = Append(replies, r)
    BY <1>1
  <2> HIDE DEF r
  <2>3. /\ DOMAIN replies' = 1 .. Len(replies) + 1 /\ DOMAIN replies = 1 .. Len(replies)
        /\ Len(replies) \in Nat /\ replies'[Len(replies) + 1] = r
        /\ \A k \in DOMAIN replies : replies'[k] = replies[k]
    BY <1>2, <2>1, <2>2, AppendProperties, LenProperties
  <2>4. ASSUME NEW k \in DOMAIN replies
        PROVE  replies[k].call \in Call \ {c} /\ Stamp(replies[k].call) <= changes
    BY <1>1, Bases, Stamped DEF Rejectable
  <2>5. QED
    BY <1>5, <2>3, <2>4 DEF r
<1>8. RepliesCurrent'
  <2>1. Current' = Current
    BY <1>1 DEF Current, Extensions
  <2>2. ASSUME NEW k \in DOMAIN replies'
        PROVE  /\ Stamp(replies[k].call)' <= changes
               /\ k = Len(replies) + 1 => Stamp(replies[k].call)' = changes
    <3>1. CASE k \in DOMAIN replies
      BY <1>7, <3>1
    <3>2. CASE k = Len(replies) + 1
      <4>1. replies'[k].call = c
        BY <1>7, <3>2
      <4>2. Stamp(replies[k].call)' = changes
        BY <1>4, <4>1 DEF Stamp
      <4>3. QED
        BY <1>2, <4>2
    <3>3. QED
      BY <1>7, <3>1, <3>2
  <2>3. ASSUME NEW k \in DOMAIN replies', Stamp(replies[k].call)' = changes
        PROVE  replies'[k].ext = Current
    BY <1>7, <2>3 DEF RepliesCurrent
  <2>4. ASSUME NEW j \in DOMAIN replies', NEW k \in DOMAIN replies', j < k
        PROVE  Stamp(replies[j].call)' <= Stamp(replies[k].call)'
    BY <1>7, <2>2, <2>4 DEF RepliesCurrent
  <2>5. QED
    BY <1>1, <2>1, <2>3, <2>4 DEF RepliesCurrent
<1>9. RecoveryCurrent'
  <2>1. ASSUME NEW d \in Call, Recovering(d)'
        PROVE  SessionCurrent' /\ \A k \in DOMAIN replies' : Stamp(replies[k].call)' = changes'
    <3>1. Recovering(d)
      BY <1>1, <1>5, <2>1 DEF Recovering, CatalogInv, CallsInv
    <3>2. SessionCurrent /\ \A k \in DOMAIN replies : Stamp(replies[k].call) = changes
      BY <3>1 DEF RecoveryCurrent
    <3>3. SessionCurrent'
      BY <1>1, <3>2 DEF SessionCurrent
    <3>4. ASSUME NEW k \in DOMAIN replies' PROVE Stamp(replies[k].call)' = changes
      <4>1. CASE k \in DOMAIN replies
        BY <1>7, <3>2, <4>1
      <4>2. CASE k = Len(replies) + 1
        <5>1. replies'[k].call = c
          BY <1>7, <4>2
        <5>2. QED
          BY <1>4, <5>1 DEF Stamp
      <4>3. QED
        BY <1>7, <4>1, <4>2
    <3>5. QED
      BY <1>1, <3>3, <3>4
  <2>2. QED
    BY <2>1 DEF RecoveryCurrent
<1>10. RetryResolves'
  <2>1. \A r : Status(r)' = Status(r)
    BY <1>1 DEF Status, Resolve
  <2>2. phase'[c] # "sent"
    BY <1>1 DEF CatalogInv, CallsInv
  <2>3. QED
    BY <1>1, <1>5, <2>1, <2>2 DEF RetryResolves
<1>11. RetrySettles'
  <2>1. CASE retried[c]
    <3>1. Stamp(c) # changes
      BY <1>1, <2>1 DEF RetryResolves
    <3>2. QED
      BY <1>4, <1>5, <2>1, <3>1 DEF RetrySettles
  <2>2. CASE ~retried[c]
    <3>1. Len(rejected'[c]) = 1
      BY <1>3, <1>4, <2>2
    <3>2. QED
      BY <1>5, <3>1 DEF RetrySettles
  <2>3. QED
    BY <2>1, <2>2
<1>12. MinimumWithin'
  BY <1>1 DEF MinimumWithin
<1>13. QED
  BY <1>6, <1>8, <1>9, <1>10, <1>11, <1>12

LEMMA DecodeRetry ==
  ASSUME CatalogInv, RetryInv, DecodeResponse
  PROVE  RetryInv'
<1> USE DEF RetryInv
<1> DEFINE r == Head(replies)
           c == r.call
<1>1. /\ replies # <<>> /\ replies' = Tail(replies)
      /\ enabled' = Applies(r.ext)
      /\ remote' = IF Applies(r.ext) THEN Applied(r.ext) ELSE Empty
      /\ phase' = [phase EXCEPT ![c] = "recovering"]
      /\ UNCHANGED <<table, serverEnabled, hello, request, retried, rejected, changes>>
  BY DEF DecodeResponse, serverVars
<1>2. /\ r = replies[1] /\ 1 \in DOMAIN replies
      /\ \A k \in DOMAIN replies' : /\ k \in Nat /\ k + 1 \in DOMAIN replies /\ 1 < k + 1
                                    /\ replies'[k] = replies[k + 1]
  BY <1>1, Bases
<1>3. c \in Call /\ phase[c] = "rejected"
  BY <1>2, Bases
<1> HIDE DEF r
<1>4. \A d \in Call : Stamp(d)' = Stamp(d)
  BY <1>1 DEF Stamp
<1>5. \A k \in DOMAIN replies' :
        /\ replies[k + 1].call \in Call \ {c}
        /\ Stamp(replies[k].call)' = Stamp(replies[k + 1].call)
        /\ Stamp(c) <= Stamp(replies[k + 1].call) /\ Stamp(replies[k + 1].call) <= changes
  <2>1. ASSUME NEW k \in DOMAIN replies' PROVE replies[k + 1].call \in Call \ {c}
    BY <1>2, Bases DEF CatalogInv, CallsInv
  <2>2. ASSUME NEW k \in DOMAIN replies'
        PROVE  Stamp(c) <= Stamp(replies[k + 1].call) /\ Stamp(replies[k + 1].call) <= changes
    <3>1. Stamp(c) <= Stamp(replies[k + 1].call)
      BY <1>2 DEF RepliesCurrent
    <3>2. Stamp(replies[k + 1].call) <= changes
      BY <1>2, Bases, Stamped DEF Rejectable
    <3>3. QED
      BY <3>1, <3>2
  <2>3. ASSUME NEW k \in DOMAIN replies' PROVE Stamp(replies[k].call)' = Stamp(replies[k + 1].call)
    BY <1>2, <1>4, <2>1
  <2>4. QED
    BY <2>1, <2>2, <2>3
<1>6. CallsRejected'
  BY <1>1, <1>3, <1>4 DEF CallsRejected, CatalogInv, CallsInv
<1>7. RepliesCurrent'
  <2>1. Current' = Current
    BY <1>1 DEF Current, Extensions
  <2>2. ASSUME NEW k \in DOMAIN replies', Stamp(replies[k].call)' = changes
        PROVE  replies'[k].ext = Current
    <3>1. Stamp(replies[k + 1].call) = changes /\ k + 1 \in DOMAIN replies
      BY <1>2, <1>5, <2>2
    <3>2. QED
      BY <1>2, <3>1 DEF RepliesCurrent
  <2>3. ASSUME NEW j \in DOMAIN replies', NEW k \in DOMAIN replies', j < k
        PROVE  Stamp(replies[j].call)' <= Stamp(replies[k].call)'
    <3>1. j + 1 \in DOMAIN replies /\ k + 1 \in DOMAIN replies /\ j + 1 < k + 1
      BY <1>2, <2>3
    <3>2. Stamp(replies[j + 1].call) <= Stamp(replies[k + 1].call)
      BY <3>1 DEF RepliesCurrent
    <3>3. QED
      BY <1>5, <3>2
  <2>4. QED
    BY <1>1, <2>1, <2>2, <2>3 DEF RepliesCurrent
<1>8. Stamp(c) = changes => SessionCurrent'
  <2> SUFFICES ASSUME Stamp(c) = changes, enabled' PROVE SessionCurrent'
    BY DEF SessionCurrent
  <2>1. r.ext = Current /\ Applies(r.ext) /\ r.ext # None
    BY <1>1, <1>2 DEF RepliesCurrent, Applies
  <2>2. serverEnabled /\ r.ext = table
    BY <2>1 DEF Current, Extensions
  <2>3. table \in Table
    BY Bases
  <2>4. /\ remote' = Applied(table) /\ Applied(table).entries = table.entries
        /\ Applied(table).index = Index(table.entries)
        /\ table.entries # <<>> => Applied(table).version = table.version /\ table.version # 0
    BY <1>1, <2>1, <2>2, <2>3, AppliedIsIt
  <2>5. QED
    BY <1>1, <2>2, <2>4 DEF SessionCurrent
<1>9. RecoveryCurrent'
  <2>1. ASSUME NEW d \in Call, Recovering(d)' PROVE Stamp(c) = changes
    <3>1. CASE d = c
      BY <1>1, <1>3, <1>4, <2>1, <3>1 DEF Recovering
    <3>2. CASE d # c
      <4>1. Recovering(d)
        BY <1>1, <1>3, <1>4, <2>1, <3>2 DEF Recovering, CatalogInv, CallsInv
      <4>2. QED
        BY <1>2, <4>1 DEF RecoveryCurrent
    <3>3. QED
      BY <3>1, <3>2
  <2>2. ASSUME Stamp(c) = changes
        PROVE  \A k \in DOMAIN replies' : Stamp(replies[k].call)' = changes'
    <3>1. ASSUME NEW k \in DOMAIN replies' PROVE Stamp(replies[k].call)' = changes'
      <4>1. replies[k + 1].call \in Call /\ Rejectable(replies[k + 1].call) /\ Rejectable(c)
        BY <1>2, <1>3, Bases DEF Rejectable
      <4>2. Stamp(replies[k + 1].call) \in Nat /\ changes \in Nat
        BY <4>1, Stamped
      <4>3. QED
        BY <1>1, <1>5, <2>2, <4>2
    <3>2. QED
      BY <3>1
  <2>3. QED
    BY <1>8, <2>1, <2>2 DEF RecoveryCurrent
<1>10. RetryResolves'
  <2>1. \A q : Status(q)' = Status(q)
    BY <1>1 DEF Status, Resolve
  <2>2. QED
    BY <1>1, <1>3, <1>4, <2>1 DEF RetryResolves, CatalogInv, CallsInv
<1>11. MinimumWithin' /\ RetrySettles'
  BY <1>1 DEF MinimumWithin, RetrySettles
<1>12. QED
  BY <1>6, <1>7, <1>9, <1>10, <1>11

LEMMA RetryStep == CatalogInv /\ RetryInv /\ [Next]_vars => RetryInv'
<1> SUFFICES ASSUME CatalogInv, RetryInv, [Next]_vars PROVE RetryInv'
  OBVIOUS
<1> USE DEF RetryInv
<1>1. ASSUME NEW b \in Bindings, Refresh(b) PROVE RetryInv'
  <2>1. PICK added \in Additions(table, Methods(b), MaxEntries) :
          table' = Sync(table, Methods(b), added)
    BY <1>1 DEF Refresh
  <2>2. MinimumWithin'
    BY <2>1, Bases, SyncMinimum DEF MinimumWithin
  <2>3. changes' = changes + 1 /\ UNCHANGED <<hello, phase, retried, replies, rejected>>
    BY <1>1 DEF Refresh, sessionVars, callVars
  <2>4. QED
    BY <2>2, <2>3, ChangeMakesOld
<1>2. ASSUME NEW v \in 1 .. table.version, RaiseMinimum(v) PROVE RetryInv'
  <2>1. table' = SetMinimum(table, v)
    BY <1>2 DEF RaiseMinimum
  <2>2. v \in Nat /\ v <= table.version /\ table.version \in Nat
    BY Bases
  <2>3. table'.minimum = v /\ table'.version = table.version
    BY <2>1, <2>2, Bases DEF SetMinimum, Table
  <2>4. MinimumWithin'
    BY <2>2, <2>3 DEF MinimumWithin
  <2>5. changes' = changes + 1 /\ UNCHANGED <<hello, phase, retried, replies, rejected>>
    BY <1>2 DEF RaiseMinimum, sessionVars, callVars
  <2>6. QED
    BY <2>4, <2>5, ChangeMakesOld
<1>3. ASSUME NEW c \in Call, EncodeRequest(c) PROVE RetryInv'
  <2>1. /\ UNCHANGED <<table, serverEnabled, hello, enabled, remote, changes, replies, rejected,
                       retried>>
        /\ phase[c] = "idle" /\ phase' = [phase EXCEPT ![c] = "sent"] /\ hello = "done"
        /\ request' = [request EXCEPT ![c] = Encoded(c, enabled)]
    BY <1>3 DEF EncodeRequest, serverVars, sessionVars
  <2>2. ~retried[c] /\ Len(rejected[c]) = 0 /\ retried \in [Call -> BOOLEAN]
    BY <2>1 DEF CallsRejected
  <2>3. phase' \in [Call -> {"idle", "sent", "dispatched", "rejected", "recovering", "done", "failed"}]
    BY <2>1 DEF CatalogInv, CallsInv
  <2>4. phase'[c] = "sent"
    BY <2>1 DEF CatalogInv, CallsInv
  <2>5. \A d \in Call \ {c} : phase'[d] = phase[d] /\ request'[d] = request[d]
    BY <2>1 DEF CatalogInv, CallsInv
  <2>6. QED
    BY <2>1, <2>2, <2>3, <2>4, <2>5, CallRetry
<1>4. ASSUME NEW c \in Call, Dispatch(c) \/ Invoke(c) \/ Fail(c) PROVE RetryInv'
  <2>1. /\ UNCHANGED <<table, serverEnabled, hello, enabled, remote, changes, replies, rejected,
                       retried, request>>
        /\ phase[c] \in {"sent", "dispatched", "recovering"}
        /\ phase' \in {[phase EXCEPT ![c] = "done"], [phase EXCEPT ![c] = "failed"],
                       [phase EXCEPT ![c] = "dispatched"]}
    BY <1>4 DEF Dispatch, Invoke, Fail, serverVars, sessionVars
  <2>2. phase' \in [Call -> {"idle", "sent", "dispatched", "rejected", "recovering", "done", "failed"}]
    BY <2>1 DEF CatalogInv, CallsInv
  <2>3. /\ phase'[c] \in {"done", "failed", "dispatched"} /\ \A d \in Call \ {c} : phase'[d] = phase[d]
        /\ hello = "done" /\ retried \in [Call -> BOOLEAN]
    BY <2>1 DEF CatalogInv, CallsInv, CallsRejected
  <2>4. QED
    BY <2>1, <2>2, <2>3, CallRetry
<1>5. ASSUME NEW c \in Call, Retry(c) PROVE RetryInv'
  <2> DEFINE on == enabled /\ remote.entries # <<>>
  <2>1. /\ UNCHANGED <<table, serverEnabled, hello, remote, changes, replies, rejected>>
        /\ phase[c] = "recovering" /\ ~retried[c] /\ phase' = [phase EXCEPT ![c] = "sent"]
        /\ retried' = [retried EXCEPT ![c] = TRUE]
        /\ enabled' = on /\ request' = [request EXCEPT ![c] = Encoded(c, on)]
    BY <1>5 DEF Retry, MayRetry, serverVars
  <2>2. /\ Len(rejected[c]) = 1 /\ hello = "done"
        /\ retried'[c] = TRUE /\ retried' \in [Call -> BOOLEAN]
        /\ \A d \in Call \ {c} : retried'[d] = retried[d]
    BY <2>1 DEF CallsRejected
  <2>3. phase' \in [Call -> {"idle", "sent", "dispatched", "rejected", "recovering", "done", "failed"}]
    BY <2>1 DEF CatalogInv, CallsInv
  <2>4. phase'[c] = "sent" /\ \A d \in Call \ {c} : phase'[d] = phase[d] /\ request'[d] = request[d]
    BY <2>1 DEF CatalogInv, CallsInv
  <2>5. request'[c] = Encoded(c, on)
    BY <2>1 DEF CatalogInv, CallsInv
  <2>6. Stamp(c) = changes => Status(Encoded(c, on)) = "ok"
    BY <2>1, EncodedResolves DEF RecoveryCurrent, Recovering
  <2>7. enabled' => enabled
    BY <2>1
  <2> HIDE DEF on
  <2>8. QED
    BY <2>1, <2>2, <2>3, <2>4, <2>5, <2>6, <2>7, CallRetry
<1>6. CASE UNCHANGED vars
  <2>1. UNCHANGED <<table, serverEnabled, hello, enabled, remote, changes, replies, rejected,
                    retried, request, phase>>
    BY <1>6 DEF vars, serverVars, sessionVars, callVars
  <2>2. CallsRejected' /\ RepliesCurrent'
    BY <2>1 DEF CallsRejected, RepliesCurrent, Current, Extensions, Stamp
  <2>3. RecoveryCurrent' /\ RetryResolves'
    BY <2>1 DEF RecoveryCurrent, Recovering, SessionCurrent, RetryResolves, Status, Resolve, Stamp
  <2>4. MinimumWithin' /\ RetrySettles'
    BY <2>1 DEF MinimumWithin, RetrySettles
  <2>5. QED
    BY <2>2, <2>3, <2>4
<1>7. QED
  BY <1>1, <1>2, <1>3, <1>4, <1>5, <1>6, HelloRetry, DecodeRetry, RejectRetry
     DEF Next, CallStep, Bindings

LEMMA InitRetry == Init => RetryInv
<1> SUFFICES ASSUME Init PROVE RetryInv
  OBVIOUS
<1>1. CallsRejected
  BY EmptySeq DEF Init, CallsRejected
<1>2. RepliesCurrent /\ RecoveryCurrent /\ RetryResolves /\ RetrySettles
  BY DEF Init, RepliesCurrent, RecoveryCurrent, Recovering, RetryResolves, RetrySettles
<1>3. MinimumWithin
  <2>1. CASE table = Empty
    BY <2>1 DEF Empty, MinimumWithin
  <2>2. ASSUME NEW s, table = Installed(s, 1) PROVE MinimumWithin
    BY <2>2 DEF Installed, MinimumWithin
  <2>3. QED
    BY <2>1, <2>2 DEF Init, Initial
<1>4. QED
  BY <1>1, <1>2, <1>3 DEF RetryInv

LEMMA RetryInvariant == Spec => [](CatalogInv /\ RetryInv)
<1>1. Init => CatalogInv /\ RetryInv
  BY InitCatalog, InitRetry
<1>2. CatalogInv /\ RetryInv /\ [Next]_vars => (CatalogInv /\ RetryInv)'
  BY StepKeepsCatalog, RetryStep
<1>3. QED
  BY <1>1, <1>2, PTL DEF Spec

(* One retry after a method id error is enough: it fails in its turn only  *)
(* when the catalog changed between the two, because the error carried the *)
(* table as it was, or made the client use names, and no error that        *)
(* another call applies in between is older.                               *)
THEOREM OneRetrySettles == Spec => []RetrySettles
BY RetryInvariant, PTL DEF RetryInv

-----------------------------------------------------------------------------
(* What a refresh makes of the entries. *)

EntryOf(n, b) == [name |-> n, hash |-> HashOf[<<n, b[n]>>], state |-> "active"]

KeptIn(entries, t, methods) ==
  \A i \in DOMAIN t.entries :
    entries[i] = [name |-> t.entries[i].name, hash |-> t.entries[i].hash,
                  state |-> IF Stays(t.entries[i], methods) THEN "active" ELSE "removed"]

LEMMA SyncEntries ==
  ASSUME NEW t \in Table, NEW b \in Bindings, NEW max \in Nat,
         NEW added \in Additions(t, Methods(b), max),
         NEW s, s = Sync(t, Methods(b), added)
  PROVE  /\ Len(added) = Room(t, Methods(b), max) /\ DOMAIN added = 1 .. Len(added)
         /\ Len(added) \in Nat /\ Len(t.entries) \in Nat
         /\ DOMAIN t.entries = 1 .. Len(t.entries)
         /\ s.entries \in Seq(Entry) /\ Len(s.entries) = Len(t.entries) + Len(added)
         /\ DOMAIN s.entries = 1 .. Len(s.entries)
         /\ KeptIn(s.entries, t, Methods(b))
         /\ \A k \in DOMAIN added :
              s.entries[Len(t.entries) + k] = EntryOf(NameOrder[added[k]], b)
<1> DEFINE methods == Methods(b)
           kept == Kept(t, methods)
           more == [k \in DOMAIN added |->
                      [name |-> NameOrder[added[k]],
                       hash |-> HashOf[<<NameOrder[added[k]], methods[NameOrder[added[k]]]>>],
                       state |-> "active"]]
<1>1. t.entries \in Seq(Entry) /\ DOMAIN t.entries = 1 .. Len(t.entries) /\ Len(t.entries) \in Nat
  BY LenProperties DEF Table, Entries
<1>2. /\ Room(t, methods, max) \in Nat
      /\ added \in [1 .. Room(t, methods, max) -> Fresh(t, methods)]
  BY RoomIsNat DEF Additions
<1>3. Len(added) = Room(t, methods, max) /\ DOMAIN added = 1 .. Len(added) /\ Len(added) \in Nat
  BY <1>2
<1>4. \A k \in DOMAIN added : more[k] = EntryOf(NameOrder[added[k]], b)
  <2>1. ASSUME NEW k \in DOMAIN added PROVE methods[NameOrder[added[k]]] = b[NameOrder[added[k]]]
    <3>1. added[k] \in Fresh(t, methods)
      BY <1>2
    <3>2. NameOrder[added[k]] \in DOMAIN methods
      BY <3>1 DEF Fresh
    <3>3. QED
      BY <3>2 DEF Methods
  <2>2. QED
    BY <2>1 DEF EntryOf
<1>5. s.entries = kept \o more
  BY DEF Sync
<1>6. /\ DOMAIN kept = 1 .. Len(t.entries)
      /\ \A i \in DOMAIN t.entries :
           kept[i] = [name |-> t.entries[i].name, hash |-> t.entries[i].hash,
                      state |-> IF Stays(t.entries[i], methods) THEN "active" ELSE "removed"]
      /\ kept = [i \in 1 .. Len(t.entries) |-> kept[i]]
  BY <1>1 DEF Kept
<1>7. s.entries \in Seq(Entry)
  BY SyncKeepsIds DEF Table, Entries
<1>8. more = [k \in 1 .. Len(added) |-> more[k]] /\ DOMAIN more = 1 .. Len(added)
  BY <1>3
<1> DEFINE E == {kept[i] : i \in 1 .. Len(t.entries)} \cup {more[k] : k \in 1 .. Len(added)}
<1> HIDE DEF kept, more
<1>9. kept \in Seq(E) /\ Len(kept) = Len(t.entries) /\ more \in Seq(E) /\ Len(more) = Len(added)
  <2>1. kept \in [1 .. Len(t.entries) -> E] /\ more \in [1 .. Len(added) -> E]
    BY <1>6, <1>8
  <2> HIDE DEF E
  <2>2. QED
    BY <1>1, <1>3, <2>1
<1> HIDE DEF E
<1>10. /\ Len(s.entries) = Len(t.entries) + Len(added)
       /\ \A i \in 1 .. Len(s.entries) :
            s.entries[i] = IF i <= Len(t.entries) THEN kept[i] ELSE more[i - Len(t.entries)]
  <2>1. /\ Len(kept \o more) = Len(kept) + Len(more)
        /\ \A i \in 1 .. Len(kept) + Len(more) :
             (kept \o more)[i] = IF i <= Len(kept) THEN kept[i] ELSE more[i - Len(kept)]
    BY <1>9, ConcatProperties
  <2>2. QED
    BY <1>5, <1>9, <2>1
<1>11. DOMAIN s.entries = 1 .. Len(s.entries)
  BY <1>7, LenProperties
<1>12. ASSUME NEW i \in DOMAIN t.entries PROVE s.entries[i] = kept[i]
  <2>1. i \in 1 .. Len(s.entries) /\ i <= Len(t.entries)
    BY <1>1, <1>3, <1>10
  <2>2. QED
    BY <1>10, <2>1
<1>13. ASSUME NEW k \in DOMAIN added PROVE s.entries[Len(t.entries) + k] = more[k]
  <2> DEFINE j == Len(t.entries) + k
  <2>1. j \in 1 .. Len(s.entries) /\ ~(j <= Len(t.entries)) /\ j - Len(t.entries) = k
    BY <1>1, <1>3, <1>10
  <2> HIDE DEF j
  <2>2. s.entries[j] = more[k]
    BY <1>10, <2>1
  <2>3. QED
    BY <2>2 DEF j
<1>14. KeptIn(s.entries, t, methods)
  BY <1>6, <1>12 DEF KeptIn
<1>15. QED
  BY <1>1, <1>3, <1>4, <1>7, <1>10, <1>11, <1>13, <1>14

(* The methods without an id are fewer than the names. *)
LEMMA FreshBound ==
  ASSUME NEW t \in Table, NEW methods
  PROVE  /\ IsFiniteSet(Fresh(t, methods)) /\ Cardinality(Fresh(t, methods)) \in Nat
         /\ Cardinality(Fresh(t, methods)) <= Len(NameOrder) /\ Len(NameOrder) \in Nat
<1>1. Fresh(t, methods) \subseteq 1 .. Len(NameOrder) /\ Len(NameOrder) \in Nat
  BY CatalogAssumption, LenProperties DEF Fresh
<1>2. IsFiniteSet(1 .. Len(NameOrder)) /\ Cardinality(1 .. Len(NameOrder)) = Len(NameOrder)
  <2>1. 1 \in Int /\ Len(NameOrder) \in Int /\ ~(1 > Len(NameOrder) + 1)
    BY <1>1
  <2>2. /\ IsFiniteSet(1 .. Len(NameOrder))
        /\ Cardinality(1 .. Len(NameOrder)) = IF 1 > Len(NameOrder) THEN 0 ELSE Len(NameOrder) - 1 + 1
    BY <2>1, FS_Interval
  <2>3. QED
    BY <1>1, <2>2
<1>3. QED
  BY <1>1, <1>2, FS_Subset, FS_CardinalityType

LEMMA RoomBound ==
  ASSUME NEW t \in Table, NEW methods, NEW max \in Nat
  PROVE  /\ Room(t, methods, max) <= Cardinality(Fresh(t, methods))
         /\ Len(t.entries) <= max => Len(t.entries) + Room(t, methods, max) <= max
<1>1. Len(t.entries) \in Nat /\ Cardinality(Fresh(t, methods)) \in Nat
  BY FreshBound, LenProperties DEF Table, Entries
<1> DEFINE f == Cardinality(Fresh(t, methods))
           n == Len(t.entries)
           r == Room(t, methods, max)
<1>2. r = IF n + f <= max THEN f ELSE IF n <= max THEN max - n ELSE 0
  BY DEF Room
<1>3. f \in Nat /\ n \in Nat
  BY <1>1
<1>4. r <= f /\ (n <= max => n + r <= max)
  <2> HIDE DEF f, n, r
  <2>1. QED
    BY <1>2, <1>3
<1>5. QED
  BY <1>4

(* Active entries keep different names. *)
LEMMA SyncUnique ==
  ASSUME NEW t \in Table, NEW b \in Bindings, NEW max \in Nat,
         NEW added \in Additions(t, Methods(b), max), UniqueActive(t.entries),
         NEW s, s = Sync(t, Methods(b), added)
  PROVE  UniqueActive(s.entries)
<1>0. KeptIn(s.entries, t, Methods(b))
  BY SyncEntries
<1> DEFINE m == Methods(b)
           n == Len(t.entries)
<1>1. added \in [1 .. Room(t, m, max) -> Fresh(t, m)]
      /\ \A i, j \in DOMAIN added : i < j => added[i] < added[j]
  BY DEF Additions
<1>2. Fresh(t, m) \subseteq DOMAIN NameOrder /\ DOMAIN NameOrder \subseteq Nat
  BY CatalogAssumption, LenProperties DEF Fresh
<1>3. ASSUME NEW i \in Active(s.entries), i \in DOMAIN t.entries
      PROVE  /\ Stays(t.entries[i], m) /\ i \in Active(t.entries)
             /\ s.entries[i].name = t.entries[i].name
  <2>1. s.entries[i] = [name |-> t.entries[i].name, hash |-> t.entries[i].hash,
                        state |-> IF Stays(t.entries[i], m) THEN "active" ELSE "removed"]
    BY <1>0, <1>3 DEF KeptIn
  <2>2. s.entries[i].state = "active"
    BY DEF Active
  <2>3. Stays(t.entries[i], m)
    BY <2>1, <2>2
  <2>4. QED
    BY <1>3, <2>1, <2>3 DEF Active, Stays
<1>4. ASSUME NEW i \in Active(s.entries), i \notin DOMAIN t.entries
      PROVE  /\ i - n \in DOMAIN added /\ s.entries[i].name = NameOrder[added[i - n]]
             /\ added[i - n] \in Fresh(t, m)
  <2>1. i \in DOMAIN s.entries
    BY DEF Active
  <2>2. i \in Int /\ n \in Nat /\ i - n \in DOMAIN added
    BY <1>4, <2>1, SyncEntries
  <2>3. s.entries[n + (i - n)] = EntryOf(NameOrder[added[i - n]], b)
    BY <2>2, SyncEntries
  <2>4. n + (i - n) = i
    BY <2>2
  <2>5. QED
    BY <1>1, <2>2, <2>3, <2>4 DEF EntryOf
<1> SUFFICES ASSUME NEW i \in Active(s.entries), NEW j \in Active(s.entries),
                    s.entries[i].name = s.entries[j].name
             PROVE  i = j
  BY DEF UniqueActive
<1>5. ASSUME NEW p \in Active(s.entries), NEW q \in Active(s.entries),
             p \in DOMAIN t.entries, q \notin DOMAIN t.entries
      PROVE  s.entries[p].name # s.entries[q].name
  <2>1. Stays(t.entries[p], m) /\ s.entries[p].name = t.entries[p].name
    BY <1>3, <1>5
  <2>2. added[q - n] \in Fresh(t, m) /\ s.entries[q].name = NameOrder[added[q - n]]
    BY <1>4, <1>5
  <2>3. QED
    BY <1>5, <2>1, <2>2 DEF Fresh
<1>6. CASE i \in DOMAIN t.entries /\ j \in DOMAIN t.entries
  BY <1>3, <1>6 DEF UniqueActive
<1>7. CASE i \notin DOMAIN t.entries /\ j \notin DOMAIN t.entries
  <2>1. /\ i - n \in DOMAIN added /\ j - n \in DOMAIN added
        /\ added[i - n] \in DOMAIN NameOrder /\ added[j - n] \in DOMAIN NameOrder
        /\ NameOrder[added[i - n]] = NameOrder[added[j - n]]
    BY <1>2, <1>4, <1>7
  <2>2. added[i - n] = added[j - n]
    BY <2>1, CatalogAssumption
  <2>3. i \in Int /\ j \in Int /\ n \in Nat
    BY SyncEntries DEF Active
  <2>4. ~(i - n < j - n) /\ ~(j - n < i - n)
    <3>1. added[i - n] \in Nat
      BY <1>2, <2>1
    <3>2. QED
      BY <1>1, <2>1, <2>2, <3>1
  <2>5. QED
    BY <2>3, <2>4
<1>8. QED
  BY <1>5, <1>6, <1>7

(* A refresh that leaves the version leaves the entries, if there is room. *)
LEMMA SameVersionSameEntries ==
  ASSUME NEW t \in Table, NEW b \in Bindings, NEW max \in Nat,
         NEW added \in Additions(t, Methods(b), max), UniqueActive(t.entries),
         NEW s, s = Sync(t, Methods(b), added),
         Len(t.entries) + Cardinality(Fresh(t, Methods(b))) <= max,
         s.version = t.version
  PROVE  s.entries = t.entries
<1> DEFINE m == Methods(b)
           gone == {i \in Active(t.entries) : t.entries[i].name \notin DOMAIN m}
<1>1. t.entries \in Seq(Entry) /\ t.version \in Nat
  BY DEF Table, Entries
<1>2. IsFiniteSet(gone) /\ Cardinality(gone) \in Nat
  <2>1. DOMAIN t.entries = 1 .. Len(t.entries) /\ Len(t.entries) \in Nat
    BY <1>1, LenProperties
  <2>2. IsFiniteSet(1 .. Len(t.entries))
    BY <2>1, FS_Interval
  <2>3. gone \subseteq 1 .. Len(t.entries)
    BY <2>1 DEF Active
  <2>4. QED
    BY <2>2, <2>3, FS_Subset, FS_CardinalityType
<1>3. Len(added) = 0 /\ Cardinality(gone) = 0
  <2>1. s.version = t.version + (Len(added) + Cardinality(gone))
    BY DEF Sync, Bumps
  <2>2. Len(added) \in Nat
    BY SyncEntries
  <2> HIDE DEF gone
  <2>3. QED
    BY <1>1, <1>2, <2>1, <2>2
<1>4. gone = {}
  BY <1>2, <1>3, FS_EmptySet
<1>5. Fresh(t, m) = {}
  <2>1. Room(t, m, max) = Cardinality(Fresh(t, m))
    BY DEF Room
  <2>2. Cardinality(Fresh(t, m)) = 0
    BY <1>3, <2>1, SyncEntries
  <2>3. QED
    BY <2>2, FreshBound, FS_EmptySet
<1>6. ASSUME NEW i \in DOMAIN t.entries PROVE s.entries[i] = t.entries[i]
  <2>1. t.entries[i] \in Entry
    BY <1>1, ElementOfSeq, LenProperties
  <2>2. t.entries[i] = [name |-> t.entries[i].name, hash |-> t.entries[i].hash,
                        state |-> t.entries[i].state] /\ t.entries[i].state \in State
        /\ t.entries[i].name \in Name
    BY <2>1 DEF Entry
  <2>3. t.entries[i].state = IF Stays(t.entries[i], m) THEN "active" ELSE "removed"
    <3>1. CASE t.entries[i].state = "removed"
      BY <3>1 DEF Stays
    <3>2. CASE t.entries[i].state = "active"
      <4>1. i \in Active(t.entries) /\ t.entries[i].name \in DOMAIN m
        BY <1>4, <3>2 DEF Active
      <4>2. PICK p \in DOMAIN NameOrder : NameOrder[p] = t.entries[i].name
        BY <2>2, CatalogAssumption
      <4>3. p \notin Fresh(t, m)
        BY <1>5
      <4>4. PICK j \in DOMAIN t.entries :
              t.entries[j].name = NameOrder[p] /\ Stays(t.entries[j], m)
        BY <4>1, <4>2, <4>3 DEF Fresh
      <4>5. j = i
        BY <4>1, <4>2, <4>4 DEF UniqueActive, Active, Stays
      <4>6. QED
        BY <3>2, <4>4, <4>5
    <3>3. QED
      BY <2>2, <3>1, <3>2 DEF State
  <2>4. s.entries[i] = [name |-> t.entries[i].name, hash |-> t.entries[i].hash,
                        state |-> IF Stays(t.entries[i], m) THEN "active" ELSE "removed"]
    <3>1. KeptIn(s.entries, t, m)
      BY SyncEntries
    <3>2. QED
      BY <1>6, <3>1 DEF KeptIn
  <2>5. QED
    BY <2>2, <2>3, <2>4
<1>7. Len(s.entries) = Len(t.entries) /\ s.entries \in Seq(Entry)
  BY <1>3, SyncEntries
<1>8. QED
  BY <1>1, <1>6, <1>7, LenProperties, SyncEntries

(* There is room for the methods of one more change. *)
LEMMA OneMoreFits ==
  ASSUME TableHasRoom, changes < MaxChanges, changes \in Nat, NEW n \in Nat, NEW k \in Nat,
         n <= Len(NameOrder) * (changes + 1), k <= Len(NameOrder)
  PROVE  n + k <= Len(NameOrder) * ((changes + 1) + 1) /\ n + k <= MaxEntries
<1> DEFINE l == Len(NameOrder)
<1>1. l \in Nat /\ MaxChanges \in Nat /\ MaxEntries \in Nat
  BY CatalogAssumption, BoundsAssumption, LenProperties
<1>2. l * (MaxChanges + 1) <= MaxEntries /\ n <= l * (changes + 1) /\ k <= l
  BY DEF TableHasRoom
<1> HIDE DEF l
<1>3. l * ((changes + 1) + 1) = l * (changes + 1) + l /\ l * (changes + 1) \in Nat
  BY <1>1
<1>4. PICK d \in Nat : MaxChanges + 1 = ((changes + 1) + 1) + d
  <2>1. MaxChanges - changes - 1 \in Nat
    BY <1>1
  <2>2. MaxChanges + 1 = ((changes + 1) + 1) + (MaxChanges - changes - 1)
    BY <1>1
  <2>3. QED
    BY <2>1, <2>2
<1>5. l * (MaxChanges + 1) = l * ((changes + 1) + 1) + l * d /\ l * d \in Nat
  BY <1>1, <1>4
<1>6. n + k <= l * ((changes + 1) + 1) /\ n + k <= MaxEntries
  <2> DEFINE x == l * (changes + 1)
             y == l * d
             z == l * ((changes + 1) + 1)
             w == l * (MaxChanges + 1)
  <2>1. /\ x \in Nat /\ y \in Nat /\ z = x + l /\ w = z + y /\ w <= MaxEntries /\ n <= x /\ k <= l
    BY <1>2, <1>3, <1>5
  <2> HIDE DEF x, y, z, w
  <2>2. n + k <= z /\ n + k <= MaxEntries
    BY <1>1, <2>1
  <2>3. QED
    BY <2>2 DEF z
<1>7. QED
  BY <1>6 DEF l

LEMMA InitVersions == Init => VersionInv
<1> SUFFICES ASSUME Init PROVE VersionInv
  OBVIOUS
<1>1. remote.version = 0 /\ carried = None /\ replies = <<>> /\ changes = 0
  BY DEF Init, Empty
<1>2. Empty \in Table /\ Empty.entries = <<>> /\ Len(Empty.entries) = 0 /\ DOMAIN Empty.entries = {}
  BY EmptyIsTable DEF Empty
<1>3. bound \in Bindings /\ MaxEntries \in Nat /\ Len(NameOrder) \in Nat
  BY BoundsAssumption, CatalogAssumption, LenProperties DEF Init, Bindings
<1>4. UniqueActive(Empty.entries)
  BY <1>2 DEF UniqueActive, Active
<1>5. UniqueActive(table.entries) /\ Len(table.entries) <= Len(NameOrder)
  <2>1. CASE table = Empty
    BY <1>2, <1>3, <1>4, <2>1
  <2>2. ASSUME NEW added \in Additions(Empty, Methods(bound), MaxEntries),
               table = Installed(Sync(Empty, Methods(bound), added).entries, 1)
        PROVE  UniqueActive(table.entries) /\ Len(table.entries) <= Len(NameOrder)
    <3> DEFINE s == Sync(Empty, Methods(bound), added)
    <3>1. UniqueActive(s.entries)
      BY <1>2, <1>3, <1>4, SyncUnique
    <3>2. Len(s.entries) = 0 + Len(added) /\ Len(added) = Room(Empty, Methods(bound), MaxEntries)
      BY <1>2, <1>3, SyncEntries
    <3>3. Len(added) <= Cardinality(Fresh(Empty, Methods(bound))) /\ Len(added) \in Nat
      BY <1>2, <1>3, <3>2, RoomBound, RoomIsNat
    <3>4. /\ Cardinality(Fresh(Empty, Methods(bound))) \in Nat
          /\ Cardinality(Fresh(Empty, Methods(bound))) <= Len(NameOrder)
      BY <1>2, FreshBound
    <3>5. table.entries = s.entries
      BY <2>2 DEF Installed
    <3> HIDE DEF s
    <3>6. QED
      BY <1>3, <3>1, <3>2, <3>3, <3>4, <3>5
  <2>3. QED
    BY <2>1, <2>2 DEF Init, Initial
<1>6. Len(table.entries) <= Len(NameOrder) * (changes + 1)
  BY <1>1, <1>3, <1>5
<1>7. VersionsMean
  <2>1. table.version \in Nat
    BY InitCatalog, Bases
  <2>2. QED
    BY <1>1, <2>1 DEF VersionsMean, NotNewer
<1>8. QED
  BY <1>5, <1>6, <1>7 DEF VersionInv

(* A change of the table that keeps the version keeps the entries. *)
LEMMA CopiesAge ==
  ASSUME CatalogInv, VersionsMean, table'.version \in Nat, table'.version >= table.version,
         table'.version = table.version => table'.entries = table.entries,
         UNCHANGED <<remote, carried, replies>>
  PROVE  VersionsMean'
<1>1. ASSUME NEW t \in Table, NotNewer(t, table) PROVE NotNewer(t, table')
  <2>1. t.version \in Nat /\ table.version \in Nat
    BY Bases DEF Table
  <2>2. QED
    BY <1>1, <2>1 DEF NotNewer
<1>2. /\ remote \in Table
      /\ carried # None => carried \in Table
      /\ \A k \in DOMAIN replies : replies[k].ext # None => replies[k].ext \in Table
  BY DEF CatalogInv, CopiesInv, Copy
<1>3. QED
  BY <1>1, <1>2 DEF VersionsMean

LEMMA RefreshVersions ==
  ASSUME TableHasRoom, CatalogInv, VersionInv, NEW b \in Bindings, Refresh(b)
  PROVE  VersionInv'
<1>1. PICK added \in Additions(table, Methods(b), MaxEntries) :
        table' = Sync(table, Methods(b), added)
  BY DEF Refresh
<1>2. /\ changes < MaxChanges /\ changes' = changes + 1
      /\ UNCHANGED <<remote, carried, replies>>
  BY DEF Refresh, sessionVars
<1>3. table \in Table /\ MaxEntries \in Nat /\ changes \in Nat
  BY Bases, BoundsAssumption
<1>4. UniqueActive(table.entries) /\ VersionsMean /\ Len(table.entries) <= Len(NameOrder) * (changes + 1)
  BY DEF VersionInv
<1>5. /\ Len(table'.entries) = Len(table.entries) + Len(added)
      /\ Len(added) = Room(table, Methods(b), MaxEntries)
      /\ Len(table.entries) \in Nat /\ Len(added) \in Nat
  BY <1>1, <1>3, SyncEntries
<1> DEFINE f == Cardinality(Fresh(table, Methods(b)))
<1>6. f \in Nat /\ f <= Len(NameOrder) /\ Len(added) <= f /\ Len(NameOrder) \in Nat
  BY <1>3, <1>5, FreshBound, RoomBound
<1> HIDE DEF f
<1>7. Len(table.entries) + f <= MaxEntries
  BY <1>2, <1>3, <1>4, <1>5, <1>6, OneMoreFits
<1>8. Len(table'.entries) <= Len(NameOrder) * (changes' + 1)
  <2>1. Len(added) <= Len(NameOrder)
    BY <1>5, <1>6
  <2>2. Len(table.entries) + Len(added) <= Len(NameOrder) * ((changes + 1) + 1)
    BY <1>2, <1>3, <1>4, <1>5, <2>1, OneMoreFits
  <2>3. QED
    BY <1>2, <1>5, <2>2
<1>9. UniqueActive(table'.entries)
  BY <1>1, <1>3, <1>4, SyncUnique
<1>10. table' \in Table /\ table'.version >= table.version
  BY <1>1, <1>3, SyncKeepsIds
<1>11. table'.version = table.version => table'.entries = table.entries
  BY <1>1, <1>3, <1>4, <1>7, SameVersionSameEntries DEF f
<1>12. VersionsMean'
  <2>1. table'.version \in Nat
    BY <1>10 DEF Table
  <2>2. QED
    BY <1>2, <1>4, <1>10, <1>11, <2>1, CopiesAge
<1>13. QED
  BY <1>8, <1>9, <1>12 DEF VersionInv

LEMMA MinimumVersions ==
  ASSUME CatalogInv, VersionInv, NEW v \in 1 .. table.version, RaiseMinimum(v)
  PROVE  VersionInv'
<1>1. table' = SetMinimum(table, v) /\ changes' = changes + 1 /\ UNCHANGED <<remote, carried, replies>>
  BY DEF RaiseMinimum, sessionVars
<1>2. table'.version = table.version /\ table'.entries = table.entries
  BY <1>1, Bases DEF SetMinimum, Table
<1>3. VersionsMean'
  BY <1>1, <1>2, Bases, CopiesAge DEF VersionInv
<1>4. Len(table'.entries) <= Len(NameOrder) * (changes' + 1)
  <2> DEFINE l == Len(NameOrder)
             n == Len(table.entries)
  <2>1. l \in Nat /\ n \in Nat /\ changes \in Nat /\ n <= l * (changes + 1)
    BY Bases, CatalogAssumption, LenProperties DEF VersionInv, Table, Entries
  <2> HIDE DEF l, n
  <2>2. n <= l * ((changes + 1) + 1)
    <3>1. l * ((changes + 1) + 1) = l * (changes + 1) + l /\ l * (changes + 1) \in Nat
      BY <2>1
    <3>2. QED
      BY <2>1, <3>1
  <2>3. QED
    BY <1>1, <1>2, <2>2 DEF l, n
<1>5. QED
  BY <1>2, <1>3, <1>4 DEF VersionInv

(* Any other step leaves the catalog as it is. *)
LEMMA VersionStep == TableHasRoom /\ CatalogInv /\ VersionInv /\ [Next]_vars => VersionInv'
<1> SUFFICES ASSUME TableHasRoom, CatalogInv, VersionInv, [Next]_vars PROVE VersionInv'
  OBVIOUS
<1>1. ASSUME UNCHANGED <<table, changes>>, VersionsMean' PROVE VersionInv'
  BY <1>1 DEF VersionInv
<1>2. table \in Table /\ table.version \in Nat /\ NotNewer(table, table) /\ VersionsMean
  BY Bases DEF NotNewer, VersionInv
<1>3. /\ Extensions # None => Extensions = table
      /\ carried # None => carried \in Table
      /\ \A k \in DOMAIN replies : replies[k].ext # None => replies[k].ext \in Table
  BY DEF Extensions, CatalogInv, CopiesInv, Copy
<1>4. ASSUME NEW ext \in Table, NotNewer(ext, table), Applies(ext)
      PROVE  NotNewer(Applied(ext), table)
  <2>1. /\ Applied(ext).entries = ext.entries
        /\ Applied(ext).version = IF ext.entries = <<>> THEN 0 ELSE ext.version
    BY <1>4, AppliedIsIt
  <2>2. QED
    BY <1>2, <1>4, <2>1 DEF NotNewer
<1>5. ASSUME AskHello PROVE VersionInv'
  <2>1. UNCHANGED <<table, changes, remote, carried, replies>>
    BY <1>5 DEF AskHello, serverVars
  <2>2. QED
    BY <1>1, <1>2, <2>1 DEF VersionsMean
<1>6. ASSUME NEW allowed \in BOOLEAN, AnswerHello(allowed) PROVE VersionInv'
  <2>1. /\ UNCHANGED <<table, changes, remote, replies>>
        /\ carried' = Extensions \/ carried' = None
    BY <1>6 DEF AnswerHello
  <2>2. QED
    BY <1>1, <1>2, <1>3, <2>1 DEF VersionsMean
<1>7. ASSUME AcceptHello PROVE VersionInv'
  <2>1. /\ UNCHANGED <<table, changes, replies>> /\ carried' = None
        /\ remote' = IF Applies(carried) THEN Applied(carried) ELSE remote
    BY <1>7 DEF AcceptHello, serverVars
  <2>2. NotNewer(remote', table)
    BY <1>2, <1>3, <1>4, <2>1 DEF VersionsMean, Applies
  <2>3. QED
    BY <1>1, <1>2, <2>1, <2>2 DEF VersionsMean
<1>8. ASSUME DecodeResponse PROVE VersionInv'
  <2>1. /\ UNCHANGED <<table, changes, carried>> /\ replies' = Tail(replies) /\ replies # <<>>
        /\ remote' = IF Applies(Head(replies).ext) THEN Applied(Head(replies).ext) ELSE Empty
    BY <1>8 DEF DecodeResponse, serverVars
  <2>2. replies \in Seq(Reply)
    BY Bases
  <2>3. Head(replies) = replies[1] /\ 1 \in DOMAIN replies
    BY <2>1, <2>2, HeadTailProperties, LenProperties
  <2>4. NotNewer(remote', table)
    <3>1. NotNewer(Empty, table)
      BY <1>2 DEF NotNewer, Empty
    <3>2. QED
      BY <1>2, <1>3, <1>4, <2>1, <2>3, <3>1 DEF VersionsMean, Applies
  <2>5. \A k \in DOMAIN replies' : k + 1 \in DOMAIN replies /\ replies'[k] = replies[k + 1]
    BY <2>1, <2>2, HeadTailProperties, LenProperties
  <2>6. QED
    BY <1>1, <1>2, <2>1, <2>4, <2>5 DEF VersionsMean
<1>9. ASSUME NEW c \in Call, Reject(c) PROVE VersionInv'
  <2> DEFINE e == [call |-> c, ext |-> IF serverEnabled THEN Extensions ELSE None]
  <2>1. UNCHANGED <<table, changes, remote, carried>> /\ replies' = Append(replies, e)
    BY <1>9 DEF Reject, serverVars, sessionVars
  <2>2. e.ext # None => e.ext = table
    BY <1>3
  <2> HIDE DEF e
  <2>3. replies \in Seq(Reply)
    BY Bases
  <2>4. \A k \in DOMAIN replies' : (k \in DOMAIN replies /\ replies'[k] = replies[k]) \/ replies'[k] = e
    BY <2>1, <2>3, AppendProperties, LenProperties
  <2>5. QED
    BY <1>1, <1>2, <2>1, <2>2, <2>4 DEF VersionsMean
<1>10. ASSUME NEW c \in Call, EncodeRequest(c) \/ Dispatch(c) \/ Invoke(c) \/ Retry(c) \/ Fail(c) PROVE VersionInv'
  <2>1. UNCHANGED <<table, changes, remote, carried, replies>>
    BY <1>10 DEF EncodeRequest, Dispatch, Invoke, Retry, Fail, serverVars, sessionVars
  <2>2. QED
    BY <1>1, <1>2, <2>1 DEF VersionsMean
<1>11. CASE UNCHANGED vars
  <2>1. UNCHANGED <<table, changes, remote, carried, replies>>
    BY <1>11 DEF vars, serverVars, sessionVars
  <2>2. QED
    BY <1>1, <1>2, <2>1 DEF VersionsMean
<1>12. QED
  BY <1>5, <1>6, <1>7, <1>8, <1>9, <1>10, <1>11, RefreshVersions, MinimumVersions
     DEF Next, CallStep, Bindings

(* While the table has room for every change of the bindings, the version  *)
(* tells the catalog apart: a client whose copy has the server's version   *)
(* has the server's entries.                                               *)
THEOREM VersionsTellCatalogsApart ==
  ASSUME TableHasRoom
  PROVE  Spec => []SameVersionSameTable
<1>1. Init => CatalogInv /\ VersionInv
  BY InitCatalog, InitVersions
<1>2. CatalogInv /\ VersionInv /\ [Next]_vars => (CatalogInv /\ VersionInv)'
  BY StepKeepsCatalog, VersionStep
<1>3. CatalogInv /\ VersionInv => SameVersionSameTable
  BY DEF VersionInv, VersionsMean, NotNewer, SameVersionSameTable
<1>4. QED
  BY <1>1, <1>2, <1>3, PTL DEF Spec

-----------------------------------------------------------------------------
(* What the catalog has of the handlers. *)

(* The ids of what is bound, or a table that is full. *)
HasOrIsFull(t, methods, max) ==
  \A n \in DOMAIN methods : n \in DOMAIN t.index \/ Len(t.entries) = max

(* A refresh leaves out a method only when it fills the table. *)
LEMMA SyncCovers ==
  ASSUME NEW t \in Table, NEW b \in Bindings, NEW max \in Nat, Len(t.entries) <= max,
         NEW added \in Additions(t, Methods(b), max),
         NEW s, s = Sync(t, Methods(b), added)
  PROVE  Len(s.entries) <= max /\ s.index = Index(s.entries) /\ HasOrIsFull(s, Methods(b), max)
<1> DEFINE m == Methods(b)
           fresh == Fresh(t, m)
           room == Room(t, m, max)
<1>1. /\ Len(s.entries) = Len(t.entries) + Len(added) /\ Len(added) = room
      /\ Len(t.entries) \in Nat /\ DOMAIN added = 1 .. Len(added)
      /\ DOMAIN t.entries = 1 .. Len(t.entries) /\ DOMAIN s.entries = 1 .. Len(s.entries)
  BY SyncEntries
<1>2. Len(t.entries) + room <= max /\ room \in Nat
  BY RoomBound, RoomIsNat
<1>3. s.index = Index(s.entries)
  BY DEF Sync
<1>4. \A i \in Active(s.entries) : s.entries[i].name \in DOMAIN s.index
  BY <1>3 DEF Index
<1>5. CASE room = Cardinality(fresh)
  <2>1. IsFiniteSet(fresh) /\ fresh \subseteq Nat
    <3>1. DOMAIN NameOrder \subseteq Nat
      BY CatalogAssumption, LenProperties
    <3>2. QED
      BY <3>1, FreshBound, RoomIsNat
  <2>2. added \in [1 .. room -> fresh] /\ \A i, j \in 1 .. room : i < j => added[i] < added[j]
    BY DEF Additions
  <2>3. added \in Injection(1 .. room, fresh)
    <3>1. ASSUME NEW i \in 1 .. room, NEW j \in 1 .. room, added[i] = added[j] PROVE i = j
      <4>1. added[i] \in Nat /\ added[j] \in Nat /\ i \in Nat /\ j \in Nat
        BY <1>2, <2>1, <2>2
      <4>2. ~(i < j) /\ ~(j < i)
        BY <2>2, <3>1, <4>1
      <4>3. QED
        BY <4>1, <4>2
    <3>2. QED
      BY <2>2, <3>1 DEF Injection, IsInjective
  <2>4. Cardinality(1 .. room) = Cardinality(fresh)
    <3>1. room \in Int /\ 1 \in Int /\ room >= 0
      BY <1>2
    <3>2. Cardinality(1 .. room) = IF 1 > room THEN 0 ELSE room - 1 + 1
      BY <3>1, FS_Interval
    <3> HIDE DEF room
    <3>3. QED
      BY <1>2, <1>5, <3>2
  <2>5. \A p \in fresh : \E k \in 1 .. room : added[k] = p
    <3>1. Cardinality(1 .. room) = Cardinality(fresh) <=> added \in Surjection(1 .. room, fresh)
      BY <2>1, <2>3, FS_Injection
    <3>2. QED
      BY <2>4, <3>1 DEF Surjection
  <2>6. ASSUME NEW n \in DOMAIN m PROVE n \in DOMAIN s.index
    <3>1. n \in Name
      BY DEF Methods
    <3>2. PICK p \in DOMAIN NameOrder : NameOrder[p] = n
      BY <3>1, CatalogAssumption
    <3>3. CASE p \in fresh
      <4>1. PICK k \in 1 .. room : added[k] = p
        BY <2>5, <3>3
      <4>2. k \in DOMAIN added
        BY <1>1, <4>1
      <4>3. s.entries[Len(t.entries) + k] = EntryOf(n, b)
        BY <3>2, <4>1, <4>2, SyncEntries
      <4>4. Len(t.entries) + k \in DOMAIN s.entries
        <5>1. k \in Nat /\ 1 <= k /\ k <= Len(added)
          BY <1>1, <1>2, <4>2
        <5>2. Len(added) \in Nat
          BY <1>1, <1>2
        <5>3. Len(t.entries) + k \in 1 .. Len(s.entries)
          BY <1>1, <5>1, <5>2
        <5>4. QED
          BY <1>1, <5>3
      <4>5. Len(t.entries) + k \in Active(s.entries) /\ s.entries[Len(t.entries) + k].name = n
        BY <4>3, <4>4 DEF Active, EntryOf
      <4>6. QED
        BY <1>4, <4>5
    <3>4. CASE p \notin fresh
      <4>1. PICK i \in DOMAIN t.entries : t.entries[i].name = n /\ Stays(t.entries[i], m)
        BY <3>2, <3>4 DEF Fresh
      <4>2. KeptIn(s.entries, t, m)
        BY SyncEntries
      <4>3. s.entries[i].name = n /\ s.entries[i].state = "active"
        <5> HIDE DEF m
        <5>1. s.entries[i] = [name |-> t.entries[i].name, hash |-> t.entries[i].hash,
                              state |-> IF Stays(t.entries[i], m) THEN "active" ELSE "removed"]
          BY <4>1, <4>2 DEF KeptIn
        <5>2. QED
          BY <4>1, <5>1
      <4>4. i \in DOMAIN s.entries
        <5>1. Len(added) \in Nat /\ i \in 1 .. Len(t.entries)
          BY <1>1, <1>2, <4>1
        <5>2. i \in 1 .. Len(s.entries)
          BY <1>1, <5>1
        <5>3. QED
          BY <1>1, <5>2
      <4>5. i \in Active(s.entries)
        BY <4>3, <4>4 DEF Active
      <4>6. QED
        BY <1>4, <4>3, <4>5
    <3>5. QED
      BY <3>3, <3>4
  <2>7. QED
    BY <1>1, <1>2, <1>3, <2>6 DEF HasOrIsFull
<1>6. CASE room # Cardinality(fresh)
  <2> DEFINE f == Cardinality(fresh)
             n == Len(t.entries)
  <2>1. room = IF n + f <= max THEN f ELSE IF n <= max THEN max - n ELSE 0
    BY DEF Room
  <2>2. n \in Nat /\ room \in Nat /\ room # f /\ n <= max
    BY <1>1, <1>2, <1>6
  <2>3. n + room = max
    <3> HIDE DEF room, f, n
    <3>1. QED
      BY <2>1, <2>2
  <2>4. Len(s.entries) = max
    BY <1>1, <2>3
  <2>5. QED
    BY <1>3, <2>4 DEF HasOrIsFull
<1>7. QED
  BY <1>5, <1>6

(* The catalog starts with every method, or with none that fit. *)
LEMMA InitHandlers == Init => HandlersInv
<1> SUFFICES ASSUME Init PROVE HandlersInv
  OBVIOUS
<1> DEFINE m == Methods(bound)
<1>1. Empty \in Table /\ Empty.entries = <<>> /\ Len(Empty.entries) = 0 /\ DOMAIN Empty.entries = {}
  BY EmptyIsTable DEF Empty
<1>2. bound \in Bindings /\ MaxEntries \in Nat /\ PeerMaxEntries \in Nat
  BY BoundsAssumption DEF Init, Bindings
<1>3. /\ hello \in {"none", "asked", "answered", "done"}
      /\ {serverEnabled, enabled, agreed} \subseteq BOOLEAN
      /\ RepliesOfRejected /\ Len(remote.entries) <= PeerMaxEntries
  <2>1. hello \in {"none", "asked", "answered", "done"} /\ {serverEnabled, enabled, agreed} \subseteq BOOLEAN
    BY DEF Init
  <2>2. RepliesOfRejected
    BY DEF Init, RepliesOfRejected
  <2>3. remote = Empty
    BY DEF Init
  <2>4. QED
    BY <1>1, <1>2, <2>1, <2>2, <2>3
<1>4. ActiveAreBound
  BY InitCatalog DEF CatalogInv
<1>5. ASSUME NEW added \in Additions(Empty, m, MaxEntries),
             table = Installed(Sync(Empty, m, added).entries, 1)
      PROVE  HandlersInv
  <2> DEFINE s == Sync(Empty, m, added)
  <2>1. Len(s.entries) <= MaxEntries /\ s.index = Index(s.entries) /\ HasOrIsFull(s, m, MaxEntries)
    BY <1>1, <1>2, SyncCovers
  <2>2. table.entries = s.entries /\ table.index = Index(s.entries)
    BY <1>5 DEF Installed
  <2> HIDE DEF s
  <2>3. CatalogMatchesHandlers
    BY <1>4, <2>1, <2>2 DEF CatalogMatchesHandlers, ActiveAreBound, HasOrIsFull
  <2>4. QED
    BY <1>3, <2>1, <2>2, <2>3 DEF HandlersInv
<1>6. CASE table = Empty /\ Cardinality(Fresh(Empty, m)) > MaxEntries
  <2>1. Fresh(Empty, m) = {p \in DOMAIN NameOrder : NameOrder[p] \in DOMAIN m}
    BY <1>1 DEF Fresh
  <2> DEFINE f == [p \in Fresh(Empty, m) |-> NameOrder[p]]
  <2>2. f \in Injection(Fresh(Empty, m), DOMAIN m)
    BY <2>1, CatalogAssumption DEF Injection, IsInjective
  <2>3. IsFiniteSet(DOMAIN m)
    <3>1. f \in Surjection(Fresh(Empty, m), DOMAIN m)
      <4>1. ASSUME NEW n \in DOMAIN m PROVE \E p \in Fresh(Empty, m) : f[p] = n
        <5>1. n \in Name
          BY DEF Methods
        <5>2. PICK p \in DOMAIN NameOrder : NameOrder[p] = n
          BY <5>1, CatalogAssumption
        <5>3. QED
          BY <2>1, <5>2
      <4>2. QED
        BY <2>1, <4>1 DEF Surjection
    <3>2. IsFiniteSet(Fresh(Empty, m))
      BY <1>1, FreshBound
    <3>3. QED
      BY <3>1, <3>2, FS_Surjection
  <2>4. Cardinality(Fresh(Empty, m)) <= Cardinality(DOMAIN m)
    BY <2>2, <2>3, FS_Injection
  <2>5. Cardinality(Fresh(Empty, m)) \in Nat /\ Cardinality(DOMAIN m) \in Nat
    BY <1>1, <2>3, FreshBound, FS_CardinalityType
  <2>6. Cardinality(DOMAIN m) > MaxEntries
    BY <1>2, <1>6, <2>4, <2>5
  <2>7. table.entries = <<>> /\ table.index = Index(table.entries) /\ Len(table.entries) <= MaxEntries
    <3>1. Active(<<>>) = {}
      BY DEF Active
    <3>2. Index(<<>>) = <<>>
      BY <3>1 DEF Index
    <3>3. QED
      BY <1>1, <1>2, <1>6, <3>2 DEF Empty
  <2>8. CatalogMatchesHandlers
    BY <1>4, <2>6, <2>7 DEF CatalogMatchesHandlers, ActiveAreBound
  <2>9. QED
    BY <1>3, <2>7, <2>8 DEF HandlersInv
<1>7. QED
  <2>1. Cardinality(Fresh(Empty, m)) \in Nat
    BY <1>1, FreshBound
  <2>2. QED
    BY <1>2, <1>5, <1>6, <2>1 DEF Init, Initial

OfHandlers == Len(table.entries) <= MaxEntries /\ table.index = Index(table.entries) /\ CatalogMatchesHandlers
Sessions ==
  /\ hello \in {"none", "asked", "answered", "done"}
  /\ {serverEnabled, enabled, agreed} \subseteq BOOLEAN
  /\ Len(remote.entries) <= PeerMaxEntries

LEMMA CatalogStep == CatalogInv /\ OfHandlers /\ [Next]_vars => OfHandlers'
<1> SUFFICES ASSUME CatalogInv, OfHandlers, [Next]_vars PROVE OfHandlers'
  OBVIOUS
<1>1. ActiveAreBound'
  BY StepKeepsCatalog DEF CatalogInv
<1>2. table \in Table /\ MaxEntries \in Nat
  BY Bases, BoundsAssumption
<1>3. ASSUME NEW b \in Bindings, Refresh(b) PROVE OfHandlers'
  <2>1. PICK added \in Additions(table, Methods(b), MaxEntries) :
          table' = Sync(table, Methods(b), added)
    BY <1>3 DEF Refresh
  <2>2. /\ Len(table'.entries) <= MaxEntries /\ table'.index = Index(table'.entries)
        /\ HasOrIsFull(table', Methods(b), MaxEntries)
    BY <1>2, <2>1, SyncCovers DEF OfHandlers
  <2>3. bound' = b
    BY <1>3 DEF Refresh
  <2>4. Methods(bound)' = Methods(b)
    BY <2>3 DEF Methods
  <2>5. CatalogMatchesHandlers'
    BY <1>1, <2>2, <2>4 DEF CatalogMatchesHandlers, ActiveAreBound, HasOrIsFull
  <2>6. QED
    BY <2>2, <2>5 DEF OfHandlers
<1>4. ASSUME bound' = bound, table'.entries = table.entries, table'.index = table.index
      PROVE  OfHandlers'
  <2>1. Methods(bound)' = Methods(bound)
    BY <1>4 DEF Methods
  <2>2. CatalogMatchesHandlers'
    BY <1>1, <1>4, <2>1 DEF OfHandlers, CatalogMatchesHandlers, ActiveAreBound
  <2>3. QED
    BY <1>4, <2>2 DEF OfHandlers
<1>5. ASSUME NEW v \in 1 .. table.version, RaiseMinimum(v) PROVE OfHandlers'
  <2>1. table' = SetMinimum(table, v) /\ bound' = bound
    BY <1>5 DEF RaiseMinimum
  <2>2. table'.entries = table.entries /\ table'.index = table.index
    BY <1>2, <2>1 DEF SetMinimum, Table
  <2>3. QED
    BY <1>4, <2>1, <2>2
<1>6. ASSUME UNCHANGED <<bound, table>> PROVE OfHandlers'
  BY <1>4, <1>6
<1>7. CASE AskHello \/ AcceptHello \/ DecodeResponse \/ UNCHANGED vars
  BY <1>6, <1>7 DEF AskHello, AcceptHello, DecodeResponse, vars, serverVars
<1>8. ASSUME NEW allowed \in BOOLEAN, AnswerHello(allowed) PROVE OfHandlers'
  BY <1>6, <1>8 DEF AnswerHello
<1>9. ASSUME NEW c \in Call, CallStep(c) PROVE OfHandlers'
  BY <1>6, <1>9 DEF CallStep, EncodeRequest, Dispatch, Invoke, Reject, Retry, Fail, serverVars
<1>10. QED
  BY <1>3, <1>5, <1>7, <1>8, <1>9 DEF Next, Bindings

LEMMA SessionStep == CatalogInv /\ Sessions /\ [Next]_vars => Sessions'
<1> SUFFICES ASSUME CatalogInv, Sessions, [Next]_vars PROVE Sessions'
  OBVIOUS
<1> USE DEF Sessions
<1>1. \A ext : Applies(ext) \in BOOLEAN
  BY DEF Applies
<1>2. ASSUME NEW ext \in Table, Applies(ext) PROVE Len(Applied(ext).entries) <= PeerMaxEntries
  <2>1. Applied(ext).entries = ext.entries
    BY <1>2, AppliedIsIt
  <2>2. QED
    BY <1>2, <2>1 DEF Applies, Valid
<1>3. carried # None => carried \in Table
  BY DEF CatalogInv, CopiesInv, Copy
<1>4. ASSUME UNCHANGED <<hello, serverEnabled, enabled, agreed, remote>> PROVE Sessions'
  BY <1>4
<1>5. ASSUME AskHello PROVE Sessions'
  BY <1>5 DEF AskHello, serverVars
<1>6. ASSUME NEW allowed \in BOOLEAN, AnswerHello(allowed) PROVE Sessions'
  BY <1>6 DEF AnswerHello
<1>7. ASSUME AcceptHello PROVE Sessions'
  <2>1. /\ enabled' = Applies(carried) /\ agreed' = enabled' /\ hello' = "done"
        /\ remote' = IF Applies(carried) THEN Applied(carried) ELSE remote
        /\ serverEnabled' = serverEnabled
    BY <1>7 DEF AcceptHello, serverVars
  <2>2. Len(remote'.entries) <= PeerMaxEntries
    BY <1>2, <1>3, <2>1 DEF Applies
  <2>3. QED
    BY <1>1, <2>1, <2>2
<1>8. ASSUME DecodeResponse PROVE Sessions'
  <2> DEFINE ext == Head(replies).ext
  <2>1. /\ enabled' = Applies(ext) /\ UNCHANGED <<hello, agreed, serverEnabled>> /\ replies # <<>>
        /\ remote' = IF Applies(ext) THEN Applied(ext) ELSE Empty
    BY <1>8 DEF DecodeResponse, serverVars
  <2>2. ext # None => ext \in Table
    <3>1. replies \in Seq(Reply)
      BY Bases
    <3>2. Head(replies) = replies[1] /\ 1 \in DOMAIN replies
      BY <2>1, <3>1, LenProperties
    <3>3. QED
      BY <3>2 DEF CatalogInv, CopiesInv, Copy
  <2> HIDE DEF ext
  <2>3. Len(remote'.entries) <= PeerMaxEntries
    <3>1. CASE Applies(ext)
      BY <1>2, <2>1, <2>2, <3>1 DEF Applies
    <3>2. CASE ~Applies(ext)
      <4>1. remote'.entries = <<>>
        BY <2>1, <3>2 DEF Empty
      <4>2. QED
        BY <4>1, BoundsAssumption
    <3>3. QED
      BY <3>1, <3>2
  <2>4. QED
    BY <1>1, <2>1, <2>3
<1>9. ASSUME NEW c \in Call, Retry(c) PROVE Sessions'
  <2>1. /\ enabled' = (enabled /\ remote.entries # <<>>)
        /\ UNCHANGED <<hello, agreed, serverEnabled, remote>>
    BY <1>9 DEF Retry, serverVars
  <2>2. enabled' \in BOOLEAN
    BY <2>1
  <2>3. QED
    BY <2>1, <2>2
<1>10. ASSUME NEW c \in Call, EncodeRequest(c) \/ Dispatch(c) \/ Invoke(c) \/ Reject(c) \/ Fail(c) PROVE Sessions'
  BY <1>4, <1>10 DEF EncodeRequest, Dispatch, Invoke, Reject, Fail, serverVars, sessionVars
<1>11. ASSUME NEW b, Refresh(b) PROVE Sessions'
  BY <1>4, <1>11 DEF Refresh, sessionVars
<1>12. ASSUME NEW v, RaiseMinimum(v) PROVE Sessions'
  BY <1>4, <1>12 DEF RaiseMinimum, sessionVars
<1>13. CASE UNCHANGED vars
  BY <1>4, <1>13 DEF vars, serverVars, sessionVars
<1>14. QED
  BY <1>5, <1>6, <1>7, <1>8, <1>9, <1>10, <1>11, <1>12, <1>13 DEF Next, CallStep

(* The reply to a rejected call is still to come. *)
LEMMA RejectedStep == CatalogInv /\ RepliesOfRejected /\ [Next]_vars => RepliesOfRejected'
<1> SUFFICES ASSUME CatalogInv, RepliesOfRejected, [Next]_vars PROVE RepliesOfRejected'
  OBVIOUS
<1> USE DEF RepliesOfRejected
<1>1. replies \in Seq(Reply) /\ DOMAIN replies = 1 .. Len(replies) /\ Len(replies) \in Nat
  BY Bases, LenProperties
<1>2. DOMAIN phase = Call
  BY DEF CatalogInv, CallsInv
<1>3. ASSUME UNCHANGED <<phase, replies>> PROVE RepliesOfRejected'
  BY <1>3
<1>4. ASSUME NEW c \in Call, NEW p, p # "rejected", phase' = [phase EXCEPT ![c] = p], replies' = replies
      PROVE  RepliesOfRejected'
  BY <1>2, <1>4
<1>5. ASSUME DecodeResponse PROVE RepliesOfRejected'
  <2> DEFINE r == Head(replies)
  <2>1. phase' = [phase EXCEPT ![r.call] = "recovering"] /\ replies' = Tail(replies) /\ replies # <<>>
    BY <1>5 DEF DecodeResponse
  <2>2. r = replies[1] /\ 1 \in DOMAIN replies /\ r.call \in Call
    BY <1>1, <2>1, Bases
  <2>3. ASSUME NEW c \in Call, phase'[c] = "rejected" PROVE \E k \in DOMAIN replies' : replies'[k].call = c
    <3>1. c # r.call /\ phase[c] = "rejected"
      BY <1>2, <2>1, <2>2, <2>3
    <3>2. PICK k \in DOMAIN replies : replies[k].call = c
      BY <3>1
    <3>3. k # 1
      BY <2>2, <3>1, <3>2
    <3>4. k - 1 \in 1 .. Len(replies) - 1 /\ (k - 1) + 1 = k
      BY <1>1, <3>3
    <3>5. Len(Tail(replies)) = Len(replies) - 1 /\ Tail(replies)[k - 1] = replies[(k - 1) + 1]
      BY <1>1, <2>1, <3>4, HeadTailProperties
    <3>6. Tail(replies) \in Seq(Reply) /\ DOMAIN Tail(replies) = 1 .. Len(Tail(replies))
      BY <1>1, <2>1, HeadTailProperties, LenProperties
    <3>7. QED
      BY <2>1, <3>2, <3>4, <3>5, <3>6
  <2>4. QED
    BY <2>3
<1>6. ASSUME NEW c \in Call, Reject(c) PROVE RepliesOfRejected'
  <2> DEFINE e == [call |-> c, ext |-> IF serverEnabled THEN Extensions ELSE None]
  <2>1. phase' = [phase EXCEPT ![c] = "rejected"] /\ replies' = Append(replies, e)
    BY <1>6 DEF Reject
  <2>2. e.call = c
    OBVIOUS
  <2> HIDE DEF e
  <2>3. /\ \A k \in DOMAIN replies : k \in DOMAIN replies' /\ replies'[k] = replies[k]
        /\ Len(replies) + 1 \in DOMAIN replies' /\ replies'[Len(replies) + 1] = e
    BY <1>1, <2>1
  <2>4. QED
    BY <1>2, <2>1, <2>2, <2>3
<1>7. ASSUME NEW c \in Call, EncodeRequest(c) \/ Dispatch(c) \/ Invoke(c) \/ Retry(c) \/ Fail(c)
      PROVE  RepliesOfRejected'
  <2>1. \E p : p # "rejected" /\ phase' = [phase EXCEPT ![c] = p] /\ replies' = replies
    <3>1. "rejected" \notin {"sent", "dispatched", "done", "failed"}
      OBVIOUS
    <3>2. QED
      BY <1>7, <3>1 DEF EncodeRequest, Dispatch, Invoke, Retry, Fail
  <2>2. QED
    BY <1>4, <2>1
<1>8. CASE AskHello \/ AcceptHello \/ UNCHANGED vars
  BY <1>3, <1>8 DEF AskHello, AcceptHello, vars, callVars
<1>9. ASSUME NEW allowed, AnswerHello(allowed) PROVE RepliesOfRejected'
  BY <1>3, <1>9 DEF AnswerHello, callVars
<1>10. ASSUME NEW b, Refresh(b) PROVE RepliesOfRejected'
  BY <1>3, <1>10 DEF Refresh, callVars
<1>11. ASSUME NEW v, RaiseMinimum(v) PROVE RepliesOfRejected'
  BY <1>3, <1>11 DEF RaiseMinimum, callVars
<1>12. QED
  BY <1>5, <1>6, <1>7, <1>8, <1>9, <1>10, <1>11 DEF Next, CallStep

LEMMA ShapeOfTables ==
  ASSUME NEW t \in Table, Indexed(t), NEW max, Len(t.entries) <= max
  PROVE  IsTable(t, max)
<1>1. t.version \in Nat /\ t.minimum \in Nat /\ t.entries \in Seq(Entry)
  BY DEF Table, Entries
<1>2. \A i \in DOMAIN t.entries : t.entries[i] \in Entry
  BY <1>1, ElementOfSeq, LenProperties
<1>3. QED
  BY <1>1, <1>2 DEF IsTable, Indexed

LEMMA HandlersInvGivesTable == CatalogInv /\ HandlersInv => TableOfHandlers
<1> SUFFICES ASSUME CatalogInv, HandlersInv PROVE TableOfHandlers
  OBVIOUS
<1>1. IsTable(table, MaxEntries) /\ IsTable(remote, PeerMaxEntries)
  BY ShapeOfTables DEF CatalogInv, CopiesInv, Copy, HandlersInv
<1>2. ASSUME NEW c \in Call
      PROVE  (phase[c] = "rejected") = (\E i \in DOMAIN replies : replies[i].call = c)
  <2>1. phase[c] = "rejected" <=> \E i \in DOMAIN replies : replies[i].call = c
    BY Bases DEF HandlersInv, RepliesOfRejected
  <2>2. QED
    BY <2>1
<1>3. TypeOK
  BY <1>1, <1>2 DEF TypeOK, CatalogInv, CopiesInv, CallsInv, HandlersInv
<1>4. QED
  BY <1>3 DEF TableOfHandlers, HandlersInv

(* After every refreshMethodCatalog the active ids are those of the bound  *)
(* methods, except where the table is full or never held any, and no copy  *)
(* of the table outgrows the limits of its side.                           *)
THEOREM CatalogHoldsTheHandlers == Spec => []TableOfHandlers
<1>1. Init => CatalogInv /\ HandlersInv
  BY InitCatalog, InitHandlers
<1>2. CatalogInv /\ HandlersInv /\ [Next]_vars => (CatalogInv /\ HandlersInv)'
  <2>1. HandlersInv <=> OfHandlers /\ Sessions /\ RepliesOfRejected
    BY DEF HandlersInv, OfHandlers, Sessions
  <2>2. HandlersInv' <=> OfHandlers' /\ Sessions' /\ RepliesOfRejected'
    BY DEF HandlersInv, OfHandlers, Sessions
  <2>3. QED
    BY <2>1, <2>2, StepKeepsCatalog, CatalogStep, SessionStep, RejectedStep
<1>3. QED
  BY <1>1, <1>2, HandlersInvGivesTable, PTL DEF Spec

-----------------------------------------------------------------------------
(* Induction over the natural numbers, for a set.                          *)
LEMMA SetInduction ==
  ASSUME NEW S, 0 \in S, \A n \in Nat : n \in S => n + 1 \in S
  PROVE  \A n \in Nat : n \in S
<1> DEFINE T == {n \in Nat : n \notin S}
<1> SUFFICES ASSUME T # {} PROVE FALSE
  OBVIOUS
<1>1. PICK x \in T : \A y \in T : ~ <<y, x>> \in OpToRel(<, Nat)
  <2>1. T \subseteq Nat
    OBVIOUS
  <2> HIDE DEF T
  <2>2. QED
    BY <2>1, NatLessThanWellFounded, WFMin
<1>2. x \in Nat /\ x # 0 /\ x - 1 \in Nat
  OBVIOUS
<1>3. x - 1 \in S
  <2>1. x - 1 < x
    BY <1>2
  <2>2. ASSUME NEW a \in Nat, NEW b \in Nat, a < b PROVE <<a, b>> \in OpToRel(<, Nat)
    BY <2>2, Zenon DEF OpToRel
  <2>3. <<x - 1, x>> \in OpToRel(<, Nat)
    BY <2>1, <2>2, <1>2, Zenon
  <2>4. QED
    BY <1>1, <1>2, <2>3
<1>4. QED
  BY <1>2, <1>3

(* And over the passes of a loop. *)
LEMMA LoopInduction ==
  ASSUME NEW N \in Nat, NEW S, 0 \in S, \A n \in 0 .. (N - 1) : n \in S => n + 1 \in S
  PROVE  \A n \in 0 .. N : n \in S
<1> DEFINE T == {n \in Nat : n <= N => n \in S}
<1>1. 0 \in T
  OBVIOUS
<1>2. ASSUME NEW n \in Nat, n \in T PROVE n + 1 \in T
  <2> SUFFICES ASSUME n + 1 <= N PROVE n + 1 \in S
    OBVIOUS
  <2>1. n \in 0 .. (N - 1) /\ n \in S
    BY <1>2
  <2>2. QED
    BY <2>1
<1>3. \A n \in Nat : n \in T
  <2> HIDE DEF T
  <2>1. QED
    BY <1>1, <1>2, SetInduction
<1>4. QED
  BY <1>3

-----------------------------------------------------------------------------
(* The loops of a refresh. *)

UpsertLoop(f, t, methods, max, n) ==
  f = [k \in 0 .. n |-> IF k = 0 THEN [table |-> t, delta |-> <<>>]
                        ELSE UpsertStep(f[k - 1], NameOrder[k], methods, max)]

SweepLoop(f, added, methods, n) ==
  f = [k \in 0 .. n |-> IF k = 0 THEN added
                        ELSE RemoveStep(f[k - 1], added.table.entries[k], methods)]

(* A loop of n passes, with one more pass that leaves v. *)
Extended(f, n, v) == [k \in 0 .. (n + 1) |-> IF k = n + 1 THEN v ELSE f[k]]

(* It agrees with the loop on the passes there were. *)
LEMMA ExtendedIs ==
  ASSUME NEW f, NEW n \in Nat, NEW v
  PROVE  LET g == Extended(f, n, v)
         IN  /\ g = [k \in 0 .. (n + 1) |-> g[k]] /\ g[n + 1] = v
             /\ \A k \in 0 .. n : g[k] = f[k]
             /\ \A k \in 0 .. (n + 1) : k = n + 1 \/ k \in 0 .. n
             /\ \A k \in 0 .. (n + 1) : k # 0 => k - 1 \in 0 .. n
BY DEF Extended

(* Both loops can be unfolded for any number of passes. *)
LEMMA UpsertLoopRuns ==
  ASSUME NEW t, NEW methods, NEW max
  PROVE  \A n \in Nat : \E f : UpsertLoop(f, t, methods, max, n)
<1> DEFINE S == {n \in Nat : \E f : UpsertLoop(f, t, methods, max, n)}
<1>1. 0 \in S
  <2> DEFINE f == [k \in 0 .. 0 |-> [table |-> t, delta |-> <<>>]]
  <2>1. UpsertLoop(f, t, methods, max, 0)
    BY DEF UpsertLoop
  <2>2. QED
    BY <2>1
<1>2. ASSUME NEW n \in Nat, n \in S PROVE n + 1 \in S
  <2>1. PICK f : UpsertLoop(f, t, methods, max, n)
    BY <1>2
  <2> DEFINE v == UpsertStep(f[n], NameOrder[n + 1], methods, max)
             g == Extended(f, n, v)
  <2>2. \A k \in 0 .. n : f[k] = IF k = 0 THEN [table |-> t, delta |-> <<>>]
                                 ELSE UpsertStep(f[k - 1], NameOrder[k], methods, max)
    BY <2>1 DEF UpsertLoop
  <2> HIDE DEF g
  <2>3. /\ g = [k \in 0 .. (n + 1) |-> g[k]] /\ g[n + 1] = v
        /\ \A k \in 0 .. n : g[k] = f[k]
        /\ \A k \in 0 .. (n + 1) : k = n + 1 \/ k \in 0 .. n
        /\ \A k \in 0 .. (n + 1) : k # 0 => k - 1 \in 0 .. n
    BY ExtendedIs DEF g
  <2>4. \A k \in 0 .. (n + 1) : g[k] = IF k = 0 THEN [table |-> t, delta |-> <<>>]
                                       ELSE UpsertStep(g[k - 1], NameOrder[k], methods, max)
    <3> TAKE k \in 0 .. (n + 1)
    <3>1. CASE k = n + 1
      <4>1. k # 0 /\ k - 1 = n /\ n \in 0 .. n
        BY <3>1
      <4>2. QED
        BY <2>3, <3>1, <4>1
    <3>2. CASE k # n + 1
      BY <2>2, <2>3, <3>2
    <3>3. QED
      BY <3>1, <3>2
  <2>5. UpsertLoop(g, t, methods, max, n + 1)
    BY <2>3, <2>4 DEF UpsertLoop
  <2>6. QED
    BY <2>5
<1>3. \A n \in Nat : n \in S
  <2> HIDE DEF S
  <2>1. QED
    BY <1>1, <1>2, SetInduction
<1>4. QED
  BY <1>3

LEMMA SweepLoopRuns ==
  ASSUME NEW added, NEW methods
  PROVE  \A n \in Nat : \E f : SweepLoop(f, added, methods, n)
<1> DEFINE S == {n \in Nat : \E f : SweepLoop(f, added, methods, n)}
<1>1. 0 \in S
  <2> DEFINE f == [k \in 0 .. 0 |-> added]
  <2>1. SweepLoop(f, added, methods, 0)
    BY DEF SweepLoop
  <2>2. QED
    BY <2>1
<1>2. ASSUME NEW n \in Nat, n \in S PROVE n + 1 \in S
  <2>1. PICK f : SweepLoop(f, added, methods, n)
    BY <1>2
  <2> DEFINE v == RemoveStep(f[n], added.table.entries[n + 1], methods)
             g == Extended(f, n, v)
  <2>2. \A k \in 0 .. n : f[k] = IF k = 0 THEN added
                                 ELSE RemoveStep(f[k - 1], added.table.entries[k], methods)
    BY <2>1 DEF SweepLoop
  <2> HIDE DEF g
  <2>3. /\ g = [k \in 0 .. (n + 1) |-> g[k]] /\ g[n + 1] = v
        /\ \A k \in 0 .. n : g[k] = f[k]
        /\ \A k \in 0 .. (n + 1) : k = n + 1 \/ k \in 0 .. n
        /\ \A k \in 0 .. (n + 1) : k # 0 => k - 1 \in 0 .. n
    BY ExtendedIs DEF g
  <2>4. \A k \in 0 .. (n + 1) : g[k] = IF k = 0 THEN added
                                       ELSE RemoveStep(g[k - 1], added.table.entries[k], methods)
    <3> TAKE k \in 0 .. (n + 1)
    <3>1. CASE k = n + 1
      <4>1. k # 0 /\ k - 1 = n /\ n \in 0 .. n
        BY <3>1
      <4>2. QED
        BY <2>3, <3>1, <4>1
    <3>2. CASE k # n + 1
      BY <2>2, <2>3, <3>2
    <3>3. QED
      BY <3>1, <3>2
  <2>5. SweepLoop(g, added, methods, n + 1)
    BY <2>3, <2>4 DEF SweepLoop
  <2>6. QED
    BY <2>5
<1>3. \A n \in Nat : n \in S
  <2> HIDE DEF S
  <2>1. QED
    BY <1>1, <1>2, SetInduction
<1>4. QED
  BY <1>3

-----------------------------------------------------------------------------
(* One step on a table. *)

(* A name as the entries are when its entry is given up. *)
Without(entries, n) ==
  [i \in 1 .. Len(entries) |->
     [name |-> entries[i].name, hash |-> entries[i].hash,
      state |-> IF entries[i].name = n THEN "removed" ELSE entries[i].state]]

(* A table whose index is that of its entries, with one id for each name. *)
Sound(t) == t \in Table /\ t.index = Index(t.entries) /\ UniqueActive(t.entries)

(* What entries are made of. *)
LEMMA EntriesAre ==
  ASSUME NEW s \in Entries
  PROVE  /\ s \in Seq(Entry) /\ Len(s) \in Nat /\ DOMAIN s = 1 .. Len(s)
         /\ \A i \in 1 .. Len(s) :
              /\ s[i] = [name |-> s[i].name, hash |-> s[i].hash, state |-> s[i].state]
              /\ s[i].name \in Name /\ s[i].hash \in Hash /\ s[i].state \in State
<1>1. s \in Seq(Entry) /\ Len(s) \in Nat /\ DOMAIN s = 1 .. Len(s)
  BY LenProperties DEF Entries
<1>2. ASSUME NEW i \in 1 .. Len(s) PROVE s[i] \in Entry
  BY <1>1, ElementOfSeq
<1>3. QED
  BY <1>1, <1>2 DEF Entry

(* What an index is, element by element. *)
LEMMA IndexIs ==
  ASSUME NEW s \in Entries, UniqueActive(s)
  PROVE  /\ \A n : n \in DOMAIN Index(s) <=> \E i \in Active(s) : s[i].name = n
         /\ \A i \in Active(s) : Index(s)[s[i].name] = i
         /\ \A f : /\ f = [n \in DOMAIN f |-> f[n]]
                   /\ DOMAIN f = DOMAIN Index(s)
                   /\ \A n \in DOMAIN f : f[n] \in Active(s) /\ s[f[n]].name = n
                   => f = Index(s)
<1>1. \A n : n \in DOMAIN Index(s) <=> \E i \in Active(s) : s[i].name = n
  BY DEF Index
<1>2. \A n \in DOMAIN Index(s) : Index(s)[n] \in Active(s) /\ s[Index(s)[n]].name = n
  BY IndexLeadsToActive
<1>3. \A i \in Active(s) : Index(s)[s[i].name] = i
  BY <1>1, <1>2 DEF UniqueActive
<1>4. Index(s) = [n \in DOMAIN Index(s) |-> Index(s)[n]]
  BY DEF Index
<1>5. ASSUME NEW f, f = [n \in DOMAIN f |-> f[n]], DOMAIN f = DOMAIN Index(s),
             \A n \in DOMAIN f : f[n] \in Active(s) /\ s[f[n]].name = n
      PROVE  f = Index(s)
  <2>1. \A n \in DOMAIN f : f[n] = Index(s)[n]
    BY <1>2, <1>5 DEF UniqueActive
  <2>2. QED
    BY <1>4, <1>5, <2>1
<1>6. QED
  BY <1>1, <1>3, <1>5

(* Giving up a name leaves the other ids and names. *)
LEMMA WithoutIs ==
  ASSUME NEW s \in Entries, UniqueActive(s), NEW n
  PROVE  /\ Without(s, n) \in Entries /\ Len(Without(s, n)) = Len(s)
         /\ UniqueActive(Without(s, n))
         /\ Active(Without(s, n)) = {i \in Active(s) : s[i].name # n}
         /\ \A i \in 1 .. Len(s) :
              Without(s, n)[i] = [name |-> s[i].name, hash |-> s[i].hash,
                                  state |-> IF s[i].name = n THEN "removed" ELSE s[i].state]
<1> DEFINE w == Without(s, n)
<1>1. /\ s \in Seq(Entry) /\ Len(s) \in Nat /\ DOMAIN s = 1 .. Len(s)
      /\ \A i \in 1 .. Len(s) :
           /\ s[i] = [name |-> s[i].name, hash |-> s[i].hash, state |-> s[i].state]
           /\ s[i].name \in Name /\ s[i].hash \in Hash /\ s[i].state \in State
  BY EntriesAre
<1>2. \A i \in 1 .. Len(s) :
        w[i] = [name |-> s[i].name, hash |-> s[i].hash,
                state |-> IF s[i].name = n THEN "removed" ELSE s[i].state]
  BY DEF Without
<1> HIDE DEF w
<1>3. ASSUME NEW i \in 1 .. Len(s) PROVE w[i] \in Entry
  <2> DEFINE state == IF s[i].name = n THEN "removed" ELSE s[i].state
  <2>1. state \in State
    BY <1>1 DEF State
  <2> HIDE DEF state
  <2>2. w[i] = [name |-> s[i].name, hash |-> s[i].hash, state |-> state]
    BY <1>2 DEF state
  <2>3. QED
    BY <1>1, <2>1, <2>2 DEF Entry
<1>4. w = [i \in 1 .. Len(s) |-> w[i]] /\ DOMAIN w = 1 .. Len(s)
  BY DEF Without, w
<1>5. w \in [1 .. Len(s) -> Entry]
  BY <1>3, <1>4
<1>6. w \in Seq(Entry) /\ Len(w) = Len(s)
  BY <1>1, <1>5
<1>7. Active(w) = {i \in Active(s) : s[i].name # n}
  BY <1>1, <1>2, <1>4 DEF Active
<1>8. UniqueActive(w)
  BY <1>1, <1>2, <1>7 DEF UniqueActive, Active
<1>9. QED
  BY <1>2, <1>6, <1>7, <1>8 DEF w, Entries

(* And the index that Unindexed leaves is theirs. *)
LEMMA IndexWithout ==
  ASSUME NEW s \in Entries, UniqueActive(s), NEW n
  PROVE  [m \in DOMAIN Index(s) \ {n} |-> Index(s)[m]] = Index(Without(s, n))
<1> DEFINE w == Without(s, n)
           f == [m \in DOMAIN Index(s) \ {n} |-> Index(s)[m]]
<1>1. /\ w \in Entries /\ UniqueActive(w) /\ Active(w) = {i \in Active(s) : s[i].name # n}
      /\ \A i \in 1 .. Len(s) : w[i].name = s[i].name
      /\ Active(s) \subseteq 1 .. Len(s)
  <2>1. w \in Entries /\ UniqueActive(w) /\ Active(w) = {i \in Active(s) : s[i].name # n}
    BY WithoutIs
  <2>2. \A i \in 1 .. Len(s) : w[i].name = s[i].name
    BY DEF Without
  <2>3. Active(s) \subseteq 1 .. Len(s)
    BY EntriesAre DEF Active
  <2>4. QED
    BY <2>1, <2>2, <2>3
<1>2. \A m \in DOMAIN Index(s) : Index(s)[m] \in Active(s) /\ s[Index(s)[m]].name = m
  BY IndexLeadsToActive
<1> HIDE DEF w
<1>3. DOMAIN f = DOMAIN Index(w)
  <2>1. \A m : m \in DOMAIN Index(s) <=> \E i \in Active(s) : s[i].name = m
    BY IndexIs
  <2>2. \A m : m \in DOMAIN Index(w) <=> \E i \in Active(w) : w[i].name = m
    BY <1>1, IndexIs
  <2>3. \A m : m \in DOMAIN Index(w) <=> m \in DOMAIN Index(s) /\ m # n
    BY <1>1, <2>1, <2>2
  <2>4. QED
    BY <2>3
<1>4. \A m \in DOMAIN f : f[m] \in Active(w) /\ w[f[m]].name = m
  BY <1>1, <1>2
<1>5. f = [m \in DOMAIN f |-> f[m]]
  OBVIOUS
<1> HIDE DEF f
<1>6. f = Index(w)
  BY <1>1, <1>3, <1>4, <1>5, IndexIs
<1>7. QED
  BY <1>6 DEF f, w

TableOf(version, minimum, entries) ==
  [version |-> version, minimum |-> minimum, entries |-> entries, index |-> Index(entries)]

LEMMA SoundIs ==
  ASSUME NEW t, Sound(t)
  PROVE  /\ t = TableOf(t.version, t.minimum, t.entries)
         /\ t.version \in Nat /\ t.minimum \in Nat /\ t.entries \in Entries
         /\ UniqueActive(t.entries) /\ t.index = Index(t.entries)
BY DEF Sound, Table, TableOf

LEMMA SoundTable ==
  ASSUME NEW v \in Nat, NEW m \in Nat, NEW s \in Entries, UniqueActive(s)
  PROVE  Sound(TableOf(v, m, s))
BY IndexLeadsToActive DEF Sound, Table, TableOf

LEMMA BumpedIs ==
  ASSUME NEW v, NEW m, NEW s, NEW x
  PROVE  Bumped([version |-> v, minimum |-> m, entries |-> s, index |-> x])
           = [version |-> v + 1, minimum |-> IF v = 0 THEN 1 ELSE m, entries |-> s, index |-> x]
<1> DEFINE r == [version |-> v, minimum |-> m, entries |-> s, index |-> x]
           low == IF v = 0 THEN 1 ELSE m
           next == v + 1
<1>1. r.version = v /\ r.minimum = m
  OBVIOUS
<1>2. Bumped(r) = [r EXCEPT !.version = next, !.minimum = low]
  BY <1>1 DEF Bumped
<1> HIDE DEF low, next
<1>3. [r EXCEPT !.version = next, !.minimum = low]
        = [version |-> next, minimum |-> low, entries |-> s, index |-> x]
  <2> DEFINE q == [r EXCEPT !.version = next]
  <2>1. [r EXCEPT !.version = next, !.minimum = low] = [q EXCEPT !.minimum = low]
    OBVIOUS
  <2>2. q = [version |-> next, minimum |-> m, entries |-> s, index |-> x]
    OBVIOUS
  <2> HIDE DEF q
  <2>3. QED
    BY <2>1, <2>2
<1>4. QED
  BY <1>2, <1>3 DEF low, next

(* A name whose entry is given up. *)
LEMMA CutIs ==
  ASSUME NEW t, Sound(t), NEW n \in DOMAIN t.index
  PROVE  Unindexed(Tombstone(t, t.index[n]), n) = TableOf(t.version, t.minimum, Without(t.entries, n))
<1> DEFINE s == t.entries
           k == t.index[n]
           e == [s EXCEPT ![k] = [s[k] EXCEPT !.state = "removed"]]
<1>1. /\ t = TableOf(t.version, t.minimum, s) /\ s \in Entries
      /\ UniqueActive(s) /\ t.index = Index(s)
  BY SoundIs
<1>2. k \in Active(s) /\ s[k].name = n
  BY <1>1, IndexLeadsToActive
<1>3. /\ Len(s) \in Nat /\ DOMAIN s = 1 .. Len(s) /\ s \in Seq(Entry)
      /\ \A i \in 1 .. Len(s) :
           /\ s[i] = [name |-> s[i].name, hash |-> s[i].hash, state |-> s[i].state]
           /\ s[i].state \in State
  BY <1>1, EntriesAre
<1>4. e = Without(s, n)
  <2>1. ASSUME NEW i \in 1 .. Len(s)
        PROVE  e[i] = [name |-> s[i].name, hash |-> s[i].hash,
                       state |-> IF s[i].name = n THEN "removed" ELSE s[i].state]
    <3>1. CASE i = k
      <4>1. e[i] = [s[k] EXCEPT !.state = "removed"]
        BY <1>3, <3>1
      <4>2. s[k] = [name |-> s[k].name, hash |-> s[k].hash, state |-> s[k].state]
        BY <1>3, <3>1
      <4>3. QED
        BY <1>2, <3>1, <4>1, <4>2
    <3>2. CASE i # k
      <4>1. e[i] = s[i]
        BY <1>3, <3>2
      <4>2. s[i].name = n => s[i].state = "removed"
        BY <1>1, <1>2, <1>3, <3>2 DEF UniqueActive, Active, State
      <4>3. QED
        BY <1>3, <4>1, <4>2
    <3>3. QED
      BY <3>1, <3>2
  <2>2. DOMAIN e = 1 .. Len(s) /\ e = [i \in 1 .. Len(s) |-> e[i]]
    BY <1>3
  <2> HIDE DEF e
  <2>3. QED
    BY <2>1, <2>2 DEF Without
<1>5. Tombstone(t, k) = [version |-> t.version, minimum |-> t.minimum, entries |-> e, index |-> t.index]
  BY <1>1 DEF Tombstone, TableOf
<1>6. Unindexed(Tombstone(t, k), n)
        = [version |-> t.version, minimum |-> t.minimum, entries |-> e,
           index |-> [m \in DOMAIN t.index \ {n} |-> t.index[m]]]
  BY <1>5 DEF Unindexed
<1>7. [m \in DOMAIN t.index \ {n} |-> t.index[m]] = Index(Without(s, n))
  BY <1>1, IndexWithout
<1>8. QED
  BY <1>4, <1>6, <1>7 DEF TableOf

(* A name without an active entry has none to give up. *)
LEMMA WithoutNothing ==
  ASSUME NEW s \in Entries, NEW n, \A i \in Active(s) : s[i].name # n
  PROVE  Without(s, n) = s
<1>1. /\ Len(s) \in Nat /\ DOMAIN s = 1 .. Len(s) /\ s \in Seq(Entry)
      /\ \A i \in 1 .. Len(s) :
           /\ s[i] = [name |-> s[i].name, hash |-> s[i].hash, state |-> s[i].state]
           /\ s[i].state \in State
  BY EntriesAre
<1>2. \A i \in 1 .. Len(s) : s[i].name = n => s[i].state = "removed"
  BY <1>1 DEF Active, State
<1>3. \A i \in 1 .. Len(s) :
        s[i] = [name |-> s[i].name, hash |-> s[i].hash,
                state |-> IF s[i].name = n THEN "removed" ELSE s[i].state]
  BY <1>1, <1>2
<1>4. s = [i \in 1 .. Len(s) |-> s[i]]
  BY <1>1
<1>5. QED
  BY <1>3, <1>4 DEF Without

ActiveEntry(n, h) == [name |-> n, hash |-> h, state |-> "active"]

(* An upsert: a method that is known, one without room, one that gets the *)
(* next id.                                                                *)
LEMMA UpsertIs ==
  ASSUME NEW t, Sound(t), NEW n, NEW h, NEW max,
         NEW u, u = Upsert(t, n, h, max)
  PROVE  LET s == t.entries
             has == \E i \in Active(s) : s[i].name = n /\ s[i].hash = h
         IN  /\ has => u = [table |-> t, delta |-> <<>>]
             /\ ~has /\ Len(s) >= max =>
                  u = [table |-> TableOf(t.version, t.minimum, Without(s, n)), delta |-> <<>>]
             /\ ~has /\ ~(Len(s) >= max) =>
                  u = [table |-> TableOf(t.version + 1, IF t.version = 0 THEN 1 ELSE t.minimum,
                                         Append(Without(s, n), ActiveEntry(n, h))),
                       delta |-> <<[id |-> Len(s) + 1, entry |-> ActiveEntry(n, h)]>>]
<1> DEFINE s == t.entries
           known == n \in DOMAIN t.index
           old == t.index[n]
           cut == IF known THEN Unindexed(Tombstone(t, old), n) ELSE t
           put == [cut EXCEPT !.entries = Append(cut.entries, ActiveEntry(n, h))]
           has == \E i \in Active(s) : s[i].name = n /\ s[i].hash = h
<1>1. /\ t = TableOf(t.version, t.minimum, s) /\ s \in Entries
      /\ UniqueActive(s) /\ t.index = Index(s)
  BY SoundIs
<1>2. has <=> known /\ s[old].hash = h
  <2>1. \A m : m \in DOMAIN t.index <=> \E i \in Active(s) : s[i].name = m
    BY <1>1, IndexIs
  <2>2. \A i \in Active(s) : t.index[s[i].name] = i
    BY <1>1, IndexIs
  <2>3. known => old \in Active(s) /\ s[old].name = n
    BY <2>1, <2>2
  <2>4. QED
    BY <2>1, <2>2, <2>3
<1>3. cut = TableOf(t.version, t.minimum, Without(s, n))
  <2>1. CASE known
    BY <2>1, CutIs
  <2>2. CASE ~known
    <3>1. \A i \in Active(s) : s[i].name # n
      BY <1>1, <2>2, IndexIs
    <3>2. Without(s, n) = s
      BY <1>1, <3>1, WithoutNothing
    <3>3. QED
      BY <1>1, <2>2, <3>2
  <2>3. QED
    BY <2>1, <2>2
<1>4. u = IF known /\ s[old].hash = h THEN [table |-> t, delta |-> <<>>]
          ELSE IF Len(s) >= max THEN [table |-> cut, delta |-> <<>>]
          ELSE [table |-> [Bumped(put) EXCEPT !.index = Index(put.entries)],
                delta |-> <<[id |-> Len(s) + 1, entry |-> ActiveEntry(n, h)]>>]
  BY DEF Upsert, ActiveEntry
<1> DEFINE more == Append(Without(s, n), ActiveEntry(n, h))
<1>5. put = [version |-> t.version, minimum |-> t.minimum, entries |-> more,
             index |-> Index(Without(s, n))]
  BY <1>3 DEF TableOf
<1> HIDE DEF cut, put, more, known, old, has
<1>6. [Bumped(put) EXCEPT !.index = Index(put.entries)]
        = TableOf(t.version + 1, IF t.version = 0 THEN 1 ELSE t.minimum, more)
  <2> DEFINE low == IF t.version = 0 THEN 1 ELSE t.minimum
  <2>1. Bumped(put) = [version |-> t.version + 1, minimum |-> low, entries |-> more,
                       index |-> Index(Without(s, n))]
    BY <1>5, BumpedIs
  <2>2. put.entries = more
    BY <1>5
  <2> HIDE DEF low
  <2>3. [Bumped(put) EXCEPT !.index = Index(more)] = TableOf(t.version + 1, low, more)
    BY <2>1 DEF TableOf
  <2>4. QED
    BY <2>2, <2>3 DEF low
<1>7. QED
  BY <1>2, <1>3, <1>4, <1>6 DEF has, more

(* A removal. *)
LEMMA RemoveIs ==
  ASSUME NEW t, Sound(t), NEW i \in Active(t.entries)
  PROVE  LET w == Without(t.entries, t.entries[i].name)
         IN  RemoveName(t, t.entries[i].name)
               = [table |-> TableOf(t.version + 1, IF t.version = 0 THEN 1 ELSE t.minimum, w),
                  delta |-> <<[id |-> i, entry |-> w[i]]>>]
<1> DEFINE s == t.entries
           n == s[i].name
           cut == Unindexed(Tombstone(t, t.index[n]), n)
<1>1. s \in Entries /\ UniqueActive(s) /\ t.index = Index(s)
  BY SoundIs
<1>2. n \in DOMAIN t.index /\ t.index[n] = i
  BY <1>1, IndexIs
<1>3. cut = TableOf(t.version, t.minimum, Without(s, n))
  BY <1>2, CutIs
<1>4. RemoveName(t, n) = [table |-> Bumped(cut), delta |-> <<[id |-> i, entry |-> cut.entries[i]]>>]
  BY <1>2 DEF RemoveName
<1> HIDE DEF cut
<1>5. Bumped(cut) = TableOf(t.version + 1, IF t.version = 0 THEN 1 ELSE t.minimum, Without(s, n))
      /\ cut.entries = Without(s, n)
  BY <1>3, BumpedIs DEF TableOf
<1>6. QED
  BY <1>4, <1>5

-----------------------------------------------------------------------------
(* The first loop. *)

(* The first methods without an id, of those up to position k. *)
Chosen(w, k, t, b, max) ==
  LET fresh == Fresh(t, Methods(b))
  IN /\ Len(w) \in Nat /\ w = [j \in 1 .. Len(w) |-> w[j]]
     /\ \A j \in 1 .. Len(w) : w[j] \in fresh /\ w[j] <= k
     /\ \A i, j \in 1 .. Len(w) : i < j => w[i] < w[j]
     /\ Len(t.entries) + Len(w) <= max
     /\ \A p \in fresh : p <= k => (\E j \in 1 .. Len(w) : w[j] = p) \/ Len(t.entries) + Len(w) = max
     /\ \A p \in fresh : \A j \in 1 .. Len(w) : p <= w[j] => \E i \in 1 .. Len(w) : w[i] = p

(* The entry of a method that has another signature now. *)
CutBy(e, k, t, b) == \E p \in Fresh(t, Methods(b)) : p <= k /\ NameOrder[p] = e.name

UpsertedEntries(s, w, k, t, b) ==
  /\ s \in Entries /\ Len(s) = Len(t.entries) + Len(w)
  /\ \A i \in 1 .. Len(t.entries) :
       s[i] = [name |-> t.entries[i].name, hash |-> t.entries[i].hash,
               state |-> IF CutBy(t.entries[i], k, t, b) THEN "removed" ELSE t.entries[i].state]
  /\ \A j \in 1 .. Len(w) : s[Len(t.entries) + j] = EntryOf(NameOrder[w[j]], b)

UpsertedVersion(t, n) == t.version + n
UpsertedMinimum(t, n) == IF t.version = 0 /\ n > 0 THEN 1 ELSE t.minimum

AddedDelta(w, t, b) ==
  [j \in 1 .. Len(w) |-> [id |-> Len(t.entries) + j, entry |-> EntryOf(NameOrder[w[j]], b)]]

AfterUpserts(r, w, k, t, b, max) ==
  /\ Chosen(w, k, t, b, max)
  /\ UpsertedEntries(r.table.entries, w, k, t, b)
  /\ r.table = TableOf(UpsertedVersion(t, Len(w)), UpsertedMinimum(t, Len(w)), r.table.entries)
  /\ r.delta = AddedDelta(w, t, b)

(* Every name has one position. *)
LEMMA PositionsAre ==
  /\ Len(NameOrder) \in Nat /\ DOMAIN NameOrder = 1 .. Len(NameOrder)
  /\ \A p \in 1 .. Len(NameOrder) : NameOrder[p] \in Name
  /\ \A p, q \in 1 .. Len(NameOrder) : NameOrder[p] = NameOrder[q] => p = q
<1>1. NameOrder \in Seq(Name)
  BY CatalogAssumption
<1>2. Len(NameOrder) \in Nat /\ DOMAIN NameOrder = 1 .. Len(NameOrder)
  BY <1>1, LenProperties
<1>3. \A p \in 1 .. Len(NameOrder) : NameOrder[p] \in Name
  BY <1>1, ElementOfSeq
<1>4. QED
  BY <1>2, <1>3, CatalogAssumption

LEMMA FreshIs ==
  ASSUME NEW t \in Table, NEW b \in Bindings
  PROVE  /\ Fresh(t, Methods(b)) \subseteq 1 .. Len(NameOrder)
         /\ \A p \in 1 .. Len(NameOrder) :
              p \in Fresh(t, Methods(b)) <=>
                /\ NameOrder[p] \in DOMAIN Methods(b)
                /\ \A i \in 1 .. Len(t.entries) :
                     t.entries[i].name = NameOrder[p] => ~Stays(t.entries[i], Methods(b))
<1>1. DOMAIN t.entries = 1 .. Len(t.entries)
  BY LenProperties DEF Table, Entries
<1>2. QED
  BY <1>1, PositionsAre DEF Fresh

(* The first loop leaves one active id for each name. *)
LEMMA UpsertedUnique ==
  ASSUME NEW t, Sound(t), NEW b \in Bindings, NEW max \in Nat, NEW k, NEW w, NEW s,
         Chosen(w, k, t, b, max), UpsertedEntries(s, w, k, t, b)
  PROVE  UniqueActive(s)
<1> DEFINE n == Len(t.entries)
           fresh == Fresh(t, Methods(b))
<1>1. t \in Table /\ t.entries \in Entries /\ UniqueActive(t.entries)
  BY DEF Sound, Table
<1>2. s \in Entries /\ Len(s) = n + Len(w) /\ n \in Nat /\ Len(w) \in Nat
      /\ DOMAIN s = 1 .. Len(s) /\ DOMAIN t.entries = 1 .. n
  BY <1>1, EntriesAre DEF UpsertedEntries, Chosen
<1>3. ASSUME NEW i \in Active(s), i <= n
      PROVE  /\ i \in Active(t.entries) /\ s[i].name = t.entries[i].name
             /\ ~CutBy(t.entries[i], k, t, b)
  <2>1. i \in 1 .. n /\ s[i].state = "active"
    BY <1>2, <1>3 DEF Active
  <2>2. s[i] = [name |-> t.entries[i].name, hash |-> t.entries[i].hash,
                state |-> IF CutBy(t.entries[i], k, t, b) THEN "removed" ELSE t.entries[i].state]
    BY <2>1 DEF UpsertedEntries
  <2>3. QED
    BY <1>2, <2>1, <2>2 DEF Active
<1>4. ASSUME NEW i \in Active(s), ~(i <= n)
      PROVE  /\ i - n \in 1 .. Len(w) /\ s[i].name = NameOrder[w[i - n]]
             /\ w[i - n] \in fresh /\ w[i - n] <= k
  <2>1. i \in 1 .. (n + Len(w))
    BY <1>2 DEF Active
  <2>2. i - n \in 1 .. Len(w) /\ n + (i - n) = i
    BY <1>2, <1>4, <2>1
  <2>3. s[i] = EntryOf(NameOrder[w[i - n]], b)
    BY <2>2 DEF UpsertedEntries
  <2>4. QED
    BY <2>2, <2>3 DEF EntryOf, Chosen
<1>5. fresh \subseteq 1 .. Len(NameOrder) /\ \A p, q \in 1 .. Len(NameOrder) : NameOrder[p] = NameOrder[q] => p = q
  BY <1>1, FreshIs, PositionsAre
<1> SUFFICES ASSUME NEW i \in Active(s), NEW j \in Active(s), s[i].name = s[j].name PROVE i = j
  BY DEF UniqueActive
<1>6. i \in Nat /\ j \in Nat
  BY <1>2 DEF Active
<1>7. CASE i <= n /\ j <= n
  BY <1>1, <1>3, <1>7 DEF UniqueActive
<1>8. CASE i <= n /\ ~(j <= n)
  BY <1>3, <1>4, <1>8 DEF CutBy
<1>9. CASE ~(i <= n) /\ j <= n
  BY <1>3, <1>4, <1>9 DEF CutBy
<1>10. CASE ~(i <= n) /\ ~(j <= n)
  <2>1. /\ i - n \in 1 .. Len(w) /\ j - n \in 1 .. Len(w) /\ w[i - n] = w[j - n]
        /\ w[i - n] \in Nat
    BY <1>4, <1>5, <1>10, PositionsAre
  <2>2. ~(i - n < j - n) /\ ~(j - n < i - n)
    BY <2>1 DEF Chosen
  <2>3. QED
    BY <1>2, <1>6, <2>2
<1>11. QED
  BY <1>6, <1>7, <1>8, <1>9, <1>10

LEMMA UpsertedSound ==
  ASSUME NEW t, Sound(t), NEW b \in Bindings, NEW max \in Nat, NEW k, NEW w, NEW r,
         AfterUpserts(r, w, k, t, b, max)
  PROVE  Sound(r.table)
<1>1. UniqueActive(r.table.entries)
  BY UpsertedUnique DEF AfterUpserts
<1>2. t.version \in Nat /\ t.minimum \in Nat /\ Len(w) \in Nat
  BY SoundIs DEF AfterUpserts, Chosen
<1>3. UpsertedVersion(t, Len(w)) \in Nat /\ UpsertedMinimum(t, Len(w)) \in Nat
  BY <1>2 DEF UpsertedVersion, UpsertedMinimum
<1>4. QED
  BY <1>1, <1>3, SoundTable DEF AfterUpserts, UpsertedEntries

LEMMA AddedDeltaIs ==
  ASSUME NEW w, Len(w) \in Nat, NEW t, NEW b
  PROVE  /\ AddedDelta(w, t, b) \in Seq({AddedDelta(w, t, b)[j] : j \in 1 .. Len(w)})
         /\ Len(AddedDelta(w, t, b)) = Len(w)
         /\ AddedDelta(w, t, b) \o <<>> = AddedDelta(w, t, b)
<1> DEFINE d == AddedDelta(w, t, b)
           D == {d[j] : j \in 1 .. Len(w)}
<1>1. d = [j \in 1 .. Len(w) |-> d[j]]
  BY DEF AddedDelta
<1> HIDE DEF d
<1>2. d \in [1 .. Len(w) -> D]
  BY <1>1
<1> HIDE DEF D
<1>3. d \in Seq(D) /\ Len(d) = Len(w)
  BY <1>2
<1>4. d \o <<>> = d
  BY <1>3
<1>5. QED
  BY <1>3, <1>4 DEF d, D

(* A method that needs no id. *)
LEMMA KnownPass ==
  ASSUME NEW t, Sound(t), NEW b \in Bindings, NEW max \in Nat,
         NEW k \in Nat, k < Len(NameOrder), NEW w, NEW r, AfterUpserts(r, w, k, t, b, max),
         NEW q, q = UpsertStep(r, NameOrder[k + 1], Methods(b), max),
         k + 1 \notin Fresh(t, Methods(b))
  PROVE  AfterUpserts(q, w, k + 1, t, b, max)
<1> DEFINE m == Methods(b)
           fresh == Fresh(t, m)
           name == NameOrder[k + 1]
           hash == HashOf[<<name, m[name]>>]
           s == r.table.entries
           n == Len(t.entries)
<1>1. /\ Len(NameOrder) \in Nat /\ k + 1 \in 1 .. Len(NameOrder)
      /\ \A p, o \in 1 .. Len(NameOrder) : NameOrder[p] = NameOrder[o] => p = o
      /\ fresh \subseteq 1 .. Len(NameOrder) /\ t \in Table
  BY PositionsAre, FreshIs DEF Sound
<1>2. \A p \in fresh : p \in Nat /\ (p <= k + 1 <=> p <= k)
  BY <1>1
<1>3. Chosen(w, k + 1, t, b, max)
  <2>1. Chosen(w, k, t, b, max)
    BY DEF AfterUpserts
  <2>2. QED
    BY <1>2, <2>1 DEF Chosen
<1>4. \A e : CutBy(e, k + 1, t, b) <=> CutBy(e, k, t, b)
  BY <1>2 DEF CutBy
<1>5. UpsertedEntries(s, w, k + 1, t, b)
  BY <1>4 DEF AfterUpserts, UpsertedEntries
<1>6. q.table = r.table /\ q.delta = r.delta
  <2>1. CASE name \notin DOMAIN m
    BY <2>1 DEF UpsertStep
  <2>2. CASE name \in DOMAIN m
    <3>1. PICK i \in 1 .. n : t.entries[i].name = name /\ Stays(t.entries[i], m)
      BY <1>1, <2>2, FreshIs
    <3>2. ~CutBy(t.entries[i], k, t, b)
      BY <1>1, <3>1 DEF CutBy
    <3>3. s[i] = [name |-> t.entries[i].name, hash |-> t.entries[i].hash, state |-> t.entries[i].state]
      BY <3>2 DEF AfterUpserts, UpsertedEntries
    <3>4. s[i].name = name /\ s[i].hash = hash /\ s[i].state = "active"
      BY <3>1, <3>3 DEF Stays
    <3>5. i \in Active(s)
      <4>1. Len(s) = n + Len(w) /\ s \in Entries /\ Len(w) \in Nat /\ n \in Nat
        BY EntriesAre, SoundIs DEF AfterUpserts, UpsertedEntries, Chosen
      <4>2. DOMAIN s = 1 .. Len(s) /\ i \in 1 .. Len(s)
        BY <4>1, EntriesAre
      <4>3. QED
        BY <3>4, <4>2 DEF Active
    <3>6. Upsert(r.table, name, hash, max) = [table |-> r.table, delta |-> <<>>]
      <4>1. Sound(r.table)
        BY UpsertedSound
      <4>2. \E o \in Active(s) : s[o].name = name /\ s[o].hash = hash
        BY <3>4, <3>5
      <4>3. QED
        BY <4>1, <4>2, UpsertIs
    <3>7. q = [table |-> r.table, delta |-> r.delta \o <<>>]
      BY <2>2, <3>6 DEF UpsertStep
    <3>8. r.delta \o <<>> = r.delta
      BY AddedDeltaIs DEF AfterUpserts, Chosen
    <3>9. QED
      BY <3>7, <3>8
  <2>3. QED
    BY <2>1, <2>2
<1>7. QED
  BY <1>3, <1>5, <1>6 DEF AfterUpserts

(* A pass that gives a method an id, or finds no room for it. *)
FreshPass(u, r, k, t, b, max) ==
  LET s == r.table.entries
      e == EntryOf(NameOrder[k + 1], b)
      rest == Without(s, NameOrder[k + 1])
  IN IF Len(s) >= max
     THEN u.table = TableOf(r.table.version, r.table.minimum, rest) /\ u.delta = r.delta
     ELSE /\ u.table = TableOf(r.table.version + 1, IF r.table.version = 0 THEN 1 ELSE r.table.minimum,
                               Append(rest, e))
          /\ u.delta = r.delta \o <<[id |-> Len(s) + 1, entry |-> e]>>

LEMMA FreshIsUpserted ==
  ASSUME NEW t, Sound(t), NEW b \in Bindings, NEW max \in Nat,
         NEW k \in Nat, k < Len(NameOrder), NEW w, NEW r, AfterUpserts(r, w, k, t, b, max),
         k + 1 \in Fresh(t, Methods(b))
  PROVE  /\ FreshPass(UpsertStep(r, NameOrder[k + 1], Methods(b), max), r, k, t, b, max)
         /\ EntryOf(NameOrder[k + 1], b) \in Entry
<1> DEFINE m == Methods(b)
           name == NameOrder[k + 1]
           hash == HashOf[<<name, m[name]>>]
           s == r.table.entries
           n == Len(t.entries)
           e == EntryOf(name, b)
           u == UpsertStep(r, name, m, max)
<1>1. /\ Len(NameOrder) \in Nat /\ k + 1 \in 1 .. Len(NameOrder) /\ name \in Name
      /\ \A p, o \in 1 .. Len(NameOrder) : NameOrder[p] = NameOrder[o] => p = o
      /\ t \in Table
  BY PositionsAre DEF Sound
<1>2. name \in DOMAIN m /\ \A i \in 1 .. n : t.entries[i].name = name => ~Stays(t.entries[i], m)
  BY <1>1, FreshIs
<1>3. /\ s \in Entries /\ Len(s) = n + Len(w) /\ Len(w) \in Nat /\ n \in Nat
      /\ DOMAIN s = 1 .. Len(s)
  BY EntriesAre, SoundIs DEF AfterUpserts, UpsertedEntries, Chosen
<1>4. m[name] = b[name] /\ b[name] \in Signature
  BY <1>1, <1>2 DEF Methods, Bindings
<1>5. hash \in Hash
  BY <1>1, <1>4, CatalogAssumption
<1>6. e = ActiveEntry(name, hash) /\ e \in Entry /\ e.name = name
  BY <1>1, <1>4, <1>5 DEF EntryOf, ActiveEntry, Entry, State
<1>7. ~ \E i \in Active(s) : s[i].name = name /\ s[i].hash = hash
  <2> SUFFICES ASSUME NEW i \in Active(s), s[i].name = name, s[i].hash = hash PROVE FALSE
    OBVIOUS
  <2>1. i \in 1 .. Len(s) /\ s[i].state = "active"
    BY <1>3 DEF Active
  <2>2. CASE i <= n
    <3>1. i \in 1 .. n
      BY <2>1, <2>2
    <3>2. s[i] = [name |-> t.entries[i].name, hash |-> t.entries[i].hash,
                  state |-> IF CutBy(t.entries[i], k, t, b) THEN "removed" ELSE t.entries[i].state]
      BY <3>1 DEF AfterUpserts, UpsertedEntries
    <3>3. Stays(t.entries[i], m) /\ t.entries[i].name = name
      BY <1>2, <2>1, <3>2 DEF Stays
    <3>4. QED
      BY <1>2, <3>1, <3>3
  <2>3. CASE ~(i <= n)
    <3>1. i - n \in 1 .. Len(w) /\ n + (i - n) = i
      <4> HIDE DEF n, s
      <4>1. i \in 1 .. (n + Len(w)) /\ n \in Nat /\ Len(w) \in Nat /\ ~(i <= n)
        BY <1>3, <2>1, <2>3
      <4>2. QED
        BY <4>1
    <3>2. s[i] = EntryOf(NameOrder[w[i - n]], b) /\ w[i - n] \in Fresh(t, m) /\ w[i - n] <= k
      BY <3>1 DEF AfterUpserts, UpsertedEntries, Chosen
    <3>3. NameOrder[w[i - n]] = name /\ w[i - n] \in 1 .. Len(NameOrder)
      BY <1>1, <3>2, FreshIs DEF EntryOf
    <3>4. QED
      BY <1>1, <3>2, <3>3
  <2>4. QED
    BY <2>2, <2>3
<1>8. Sound(r.table)
  BY UpsertedSound
<1>9. u = [table |-> Upsert(r.table, name, hash, max).table,
           delta |-> r.delta \o Upsert(r.table, name, hash, max).delta]
  BY <1>2 DEF UpsertStep
<1>10. CASE Len(s) >= max
  <2>1. Upsert(r.table, name, hash, max)
          = [table |-> TableOf(r.table.version, r.table.minimum, Without(s, name)), delta |-> <<>>]
    BY <1>7, <1>8, <1>10, UpsertIs
  <2>2. r.delta \o <<>> = r.delta
    BY <1>3, AddedDeltaIs DEF AfterUpserts
  <2>3. u.table = TableOf(r.table.version, r.table.minimum, Without(s, name)) /\ u.delta = r.delta
    BY <1>9, <2>1, <2>2
  <2> HIDE DEF u
  <2>4. FreshPass(u, r, k, t, b, max)
    BY <1>10, <2>3 DEF FreshPass
  <2>5. QED
    BY <1>6, <2>4 DEF u
<1>11. CASE ~(Len(s) >= max)
  <2>1. Upsert(r.table, name, hash, max)
          = [table |-> TableOf(r.table.version + 1, IF r.table.version = 0 THEN 1 ELSE r.table.minimum,
                               Append(Without(s, name), e)),
             delta |-> <<[id |-> Len(s) + 1, entry |-> e]>>]
    <3>1. Upsert(r.table, name, hash, max)
            = [table |-> TableOf(r.table.version + 1, IF r.table.version = 0 THEN 1 ELSE r.table.minimum,
                                 Append(Without(s, name), ActiveEntry(name, hash))),
               delta |-> <<[id |-> Len(s) + 1, entry |-> ActiveEntry(name, hash)]>>]
      BY <1>7, <1>8, <1>11, UpsertIs
    <3>2. QED
      BY <1>6, <3>1, SMTT(30)
  <2>2. /\ u.table = TableOf(r.table.version + 1, IF r.table.version = 0 THEN 1 ELSE r.table.minimum,
                             Append(Without(s, name), e))
        /\ u.delta = r.delta \o <<[id |-> Len(s) + 1, entry |-> e]>>
    BY <1>9, <2>1
  <2> HIDE DEF u
  <2>3. FreshPass(u, r, k, t, b, max)
    BY <1>11, <2>2 DEF FreshPass
  <2>4. QED
    BY <1>6, <2>3 DEF u
<1>12. QED
  BY <1>10, <1>11

(* What a pass that gives up a name does to the entries there were. *)
LEMMA CutPass ==
  ASSUME NEW t, Sound(t), NEW b \in Bindings, NEW max \in Nat,
         NEW k \in Nat, k < Len(NameOrder), NEW w, NEW s, Len(w) \in Nat,
         UpsertedEntries(s, w, k, t, b), Chosen(w, k, t, b, max),
         k + 1 \in Fresh(t, Methods(b)), UniqueActive(s)
  PROVE  LET c == Without(s, NameOrder[k + 1])
         IN  c \in Entries /\ UpsertedEntries(c, w, k + 1, t, b)
<1> DEFINE fresh == Fresh(t, Methods(b))
           name == NameOrder[k + 1]
           n == Len(t.entries)
           c == Without(s, name)
<1>1. /\ Len(NameOrder) \in Nat /\ k + 1 \in 1 .. Len(NameOrder)
      /\ \A p, o \in 1 .. Len(NameOrder) : NameOrder[p] = NameOrder[o] => p = o
      /\ fresh \subseteq 1 .. Len(NameOrder) /\ t \in Table /\ n \in Nat
      /\ \A i \in 1 .. n : t.entries[i].state \in State
  BY PositionsAre, FreshIs, SoundIs, EntriesAre DEF Sound
<1>2. s \in Entries /\ Len(s) = n + Len(w)
  BY DEF UpsertedEntries
<1>3. /\ c \in Entries /\ Len(c) = Len(s)
      /\ \A i \in 1 .. Len(s) :
           c[i] = [name |-> s[i].name, hash |-> s[i].hash,
                   state |-> IF s[i].name = name THEN "removed" ELSE s[i].state]
  BY <1>2, WithoutIs
<1> HIDE DEF c
<1>4. \A p \in fresh : p \in Nat /\ (p <= k + 1 <=> p <= k \/ p = k + 1)
  BY <1>1
<1>5. \A e : CutBy(e, k + 1, t, b) <=> CutBy(e, k, t, b) \/ e.name = name
  BY <1>4 DEF CutBy
<1>6. ASSUME NEW i \in 1 .. n
      PROVE  c[i] = [name |-> t.entries[i].name, hash |-> t.entries[i].hash,
                     state |-> IF CutBy(t.entries[i], k + 1, t, b) THEN "removed" ELSE t.entries[i].state]
  <2>1. s[i] = [name |-> t.entries[i].name, hash |-> t.entries[i].hash,
                state |-> IF CutBy(t.entries[i], k, t, b) THEN "removed" ELSE t.entries[i].state]
    BY DEF UpsertedEntries
  <2>2. i \in 1 .. Len(s)
    BY <1>1, <1>2
  <2>3. c[i] = [name |-> s[i].name, hash |-> s[i].hash,
                state |-> IF s[i].name = name THEN "removed" ELSE s[i].state]
    BY <1>3, <2>2
  <2>4. CutBy(t.entries[i], k + 1, t, b) <=> CutBy(t.entries[i], k, t, b) \/ t.entries[i].name = name
    BY <1>5
  <2>5. QED
    BY <2>1, <2>3, <2>4
<1>7. ASSUME NEW j \in 1 .. Len(w) PROVE c[n + j] = EntryOf(NameOrder[w[j]], b)
  <2>1. s[n + j] = EntryOf(NameOrder[w[j]], b)
    BY DEF UpsertedEntries
  <2>2. n + j \in 1 .. Len(s)
    BY <1>1, <1>2
  <2>3. w[j] \in fresh /\ w[j] <= k
    BY DEF Chosen
  <2>4. NameOrder[w[j]] # name
    <3>1. w[j] \in 1 .. Len(NameOrder) /\ w[j] # k + 1
      BY <1>1, <2>3
    <3>2. QED
      BY <1>1, <3>1
  <2>5. c[n + j] = [name |-> s[n + j].name, hash |-> s[n + j].hash, state |-> s[n + j].state]
    <3>1. s[n + j].name # name
      BY <2>1, <2>4 DEF EntryOf
    <3>2. QED
      BY <1>3, <2>2, <3>1
  <2>6. QED
    BY <2>1, <2>5 DEF EntryOf
<1>8. QED
  BY <1>2, <1>3, <1>6, <1>7 DEF UpsertedEntries, c

(* A method that gets no id since the table is full. *)
LEMMA FullPass ==
  ASSUME NEW t, Sound(t), NEW b \in Bindings, NEW max \in Nat,
         NEW k \in Nat, k < Len(NameOrder), NEW w, NEW r, AfterUpserts(r, w, k, t, b, max),
         NEW q, q = UpsertStep(r, NameOrder[k + 1], Methods(b), max),
         k + 1 \in Fresh(t, Methods(b)), Len(r.table.entries) >= max
  PROVE  AfterUpserts(q, w, k + 1, t, b, max)
<1> DEFINE s == r.table.entries
           c == Without(s, NameOrder[k + 1])
<1>1. q.table = TableOf(r.table.version, r.table.minimum, c) /\ q.delta = r.delta
      /\ Len(s) = Len(t.entries) + Len(w)
  <2>1. FreshPass(q, r, k, t, b, max)
    BY FreshIsUpserted
  <2>2. UpsertedEntries(s, w, k, t, b)
    BY DEF AfterUpserts
  <2>3. QED
    BY <2>1, <2>2 DEF FreshPass, UpsertedEntries
<1>2. Chosen(w, k, t, b, max) /\ Len(w) \in Nat /\ UpsertedEntries(s, w, k, t, b) /\ UniqueActive(s)
  <2>1. Sound(r.table)
    BY UpsertedSound
  <2>2. UniqueActive(s)
    BY <2>1, SoundIs
  <2>3. Chosen(w, k, t, b, max) /\ UpsertedEntries(s, w, k, t, b)
    BY DEF AfterUpserts
  <2>4. QED
    BY <2>2, <2>3 DEF Chosen
<1>3. UpsertedEntries(c, w, k + 1, t, b)
  BY <1>2, CutPass
<1>4. Len(t.entries) \in Nat /\ Len(t.entries) + Len(w) = max
  BY <1>1, <1>2, SoundIs, EntriesAre DEF Chosen
<1>5. \A p \in Fresh(t, Methods(b)) : p \in Nat /\ (p <= k => p <= k + 1)
  BY FreshIs, PositionsAre DEF Sound
<1>6. Chosen(w, k + 1, t, b, max)
  BY <1>2, <1>4, <1>5 DEF Chosen
<1>7. /\ q.table.entries = c
      /\ q.table = TableOf(UpsertedVersion(t, Len(w)), UpsertedMinimum(t, Len(w)), c)
  BY <1>1 DEF AfterUpserts, TableOf
<1>8. QED
  BY <1>1, <1>3, <1>6, <1>7 DEF AfterUpserts

(* One more of the methods without an id. *)
LEMMA ChosenMore ==
  ASSUME NEW t, Sound(t), NEW b \in Bindings, NEW max \in Nat,
         NEW k \in Nat, k < Len(NameOrder), NEW w, Chosen(w, k, t, b, max),
         k + 1 \in Fresh(t, Methods(b)), Len(t.entries) + Len(w) < max
  PROVE  LET v == Append(w, k + 1)
         IN  /\ Len(v) = Len(w) + 1 /\ v[Len(w) + 1] = k + 1
             /\ \A j \in 1 .. Len(w) : v[j] = w[j]
             /\ Chosen(v, k + 1, t, b, max)
<1> DEFINE v == Append(w, k + 1)
           fresh == Fresh(t, Methods(b))
           n == Len(t.entries)
<1>1. /\ fresh \subseteq 1 .. Len(NameOrder) /\ Len(NameOrder) \in Nat /\ n \in Nat
  BY PositionsAre, FreshIs, SoundIs, EntriesAre DEF Sound
<1>2. Len(w) \in Nat /\ w = [j \in 1 .. Len(w) |-> w[j]]
      /\ \A j \in 1 .. Len(w) : w[j] \in fresh /\ w[j] <= k
  BY DEF Chosen
<1>3. w \in Seq(fresh)
  BY <1>2
<1> HIDE DEF fresh
<1>4. /\ v \in Seq(fresh) /\ Len(v) = Len(w) + 1 /\ v[Len(w) + 1] = k + 1
      /\ \A j \in 1 .. Len(w) : v[j] = w[j]
  BY <1>3, AppendProperties DEF fresh
<1> HIDE DEF v
<1>5. Len(v) \in Nat /\ v = [j \in 1 .. Len(v) |-> v[j]]
  BY <1>4, LenProperties
<1>6. \A j \in 1 .. Len(v) : j \in 1 .. Len(w) \/ j = Len(w) + 1
  BY <1>2, <1>4
<1>7. \A j \in 1 .. Len(w) : j \in 1 .. Len(v) /\ v[j] \in Nat /\ v[j] <= k
  BY <1>1, <1>2, <1>4
<1>7b. Len(w) + 1 \in 1 .. Len(v)
  BY <1>2, <1>4
<1>8. \A j \in 1 .. Len(v) : v[j] \in fresh /\ v[j] <= k + 1
  BY <1>2, <1>4, <1>6, <1>7 DEF fresh
<1>9. \A i, j \in 1 .. Len(v) : i < j => v[i] < v[j]
  <2> SUFFICES ASSUME NEW i \in 1 .. Len(v), NEW j \in 1 .. Len(v), i < j PROVE v[i] < v[j]
    OBVIOUS
  <2>1. i \in 1 .. Len(w)
    BY <1>2, <1>4, <1>6
  <2>2. CASE j \in 1 .. Len(w)
    BY <1>4, <2>1, <2>2 DEF Chosen
  <2>3. CASE j = Len(w) + 1
    BY <1>4, <1>7, <2>1, <2>3
  <2>4. QED
    BY <1>6, <2>2, <2>3
<1>10. n + Len(v) <= max
  <2>1. n + Len(w) < max /\ n \in Nat /\ Len(w) \in Nat /\ Len(v) = Len(w) + 1
    BY <1>1, <1>2, <1>4
  <2> HIDE DEF n
  <2>2. QED
    BY <2>1
<1>11. ASSUME NEW p \in fresh, p <= k + 1 PROVE \E j \in 1 .. Len(v) : v[j] = p
  <2>1. CASE p = k + 1
    BY <1>4, <1>7b, <2>1
  <2>2. CASE p # k + 1
    <3>1. p <= k /\ p \in fresh
      BY <1>1, <1>11, <2>2
    <3>2. n + Len(w) # max
      BY <1>1, <1>2
    <3>3. PICK j \in 1 .. Len(w) : w[j] = p
      BY <3>1, <3>2 DEF Chosen, fresh
    <3>4. QED
      BY <1>4, <1>7, <3>3
  <2>3. QED
    BY <2>1, <2>2
<1>12. ASSUME NEW p \in fresh, NEW j \in 1 .. Len(v), p <= v[j] PROVE \E i \in 1 .. Len(v) : v[i] = p
  <2>1. p <= k + 1
    <3>1. p \in Nat /\ v[j] \in Nat /\ v[j] <= k + 1
      BY <1>1, <1>8, <1>12 DEF fresh
    <3>2. QED
      BY <1>12, <3>1
  <2>2. QED
    BY <1>11, <2>1
<1>13. Chosen(v, k + 1, t, b, max)
  BY <1>5, <1>8, <1>9, <1>10, <1>11, <1>12 DEF Chosen, fresh
<1>14. QED
  BY <1>4, <1>13 DEF v

(* One more entry, and one more of the delta. *)
LEMMA EntriesMore ==
  ASSUME NEW t, Sound(t), NEW b \in Bindings, NEW k, NEW w, NEW v, NEW s,
         Len(w) \in Nat, Len(v) = Len(w) + 1, \A j \in 1 .. Len(w) : v[j] = w[j],
         UpsertedEntries(s, w, k, t, b), EntryOf(NameOrder[v[Len(w) + 1]], b) \in Entry
  PROVE  UpsertedEntries(Append(s, EntryOf(NameOrder[v[Len(w) + 1]], b)), v, k, t, b)
<1> DEFINE n == Len(t.entries)
           e == EntryOf(NameOrder[v[Len(w) + 1]], b)
           x == Append(s, e)
<1>1. n \in Nat
  BY SoundIs, EntriesAre
<1>2. s \in Seq(Entry) /\ Len(s) = n + Len(w)
  BY DEF UpsertedEntries, Entries
<1> HIDE DEF e, n
<1>3. /\ x \in Seq(Entry) /\ Len(x) = Len(s) + 1 /\ x[Len(s) + 1] = e
      /\ \A i \in 1 .. Len(s) : x[i] = s[i]
  BY <1>2, AppendProperties DEF e
<1> HIDE DEF x
<1>4. Len(x) = n + Len(v)
  BY <1>1, <1>2, <1>3
<1>5. ASSUME NEW i \in 1 .. n
      PROVE  x[i] = [name |-> t.entries[i].name, hash |-> t.entries[i].hash,
                     state |-> IF CutBy(t.entries[i], k, t, b) THEN "removed" ELSE t.entries[i].state]
  <2>1. i \in 1 .. Len(s)
    BY <1>1, <1>2
  <2>2. QED
    BY <1>3, <2>1 DEF UpsertedEntries, n
<1>6. ASSUME NEW j \in 1 .. Len(v) PROVE x[n + j] = EntryOf(NameOrder[v[j]], b)
  <2>1. CASE j \in 1 .. Len(w)
    <3>1. n + j \in 1 .. Len(s)
      BY <1>1, <1>2, <2>1
    <3>2. x[n + j] = s[n + j]
      BY <1>3, <3>1
    <3>3. s[n + j] = EntryOf(NameOrder[w[j]], b)
      BY <2>1 DEF UpsertedEntries, n
    <3>4. QED
      BY <2>1, <3>2, <3>3
  <2>2. CASE j = Len(w) + 1
    <3>1. n + j = Len(s) + 1
      BY <1>1, <1>2, <2>2
    <3>2. QED
      BY <1>3, <2>2, <3>1 DEF e
  <2>3. QED
    BY <2>1, <2>2
<1>7. QED
  BY <1>3, <1>4, <1>5, <1>6 DEF UpsertedEntries, Entries, n, x, e

LEMMA DeltaMore ==
  ASSUME NEW t, NEW b, NEW w, NEW v,
         Len(w) \in Nat, Len(v) = Len(w) + 1, \A j \in 1 .. Len(w) : v[j] = w[j]
  PROVE  AddedDelta(w, t, b)
           \o <<[id |-> Len(t.entries) + (Len(w) + 1), entry |-> EntryOf(NameOrder[v[Len(w) + 1]], b)]>>
         = AddedDelta(v, t, b)
<1> DEFINE d(j) == [id |-> Len(t.entries) + j, entry |-> EntryOf(NameOrder[v[j]], b)]
           n == Len(w)
           x == [j \in 1 .. n |-> d(j)]
<1>1. AddedDelta(w, t, b) = x
  BY DEF AddedDelta
<1>2. AddedDelta(v, t, b) = [j \in 1 .. (n + 1) |-> d(j)]
  BY DEF AddedDelta
<1> HIDE DEF n, d
<1>3. n \in Nat
  BY DEF n
<1>4. x \o <<d(n + 1)>> = [j \in 1 .. (n + 1) |-> d(j)]
  BY <1>3
<1>5. QED
  BY <1>1, <1>2, <1>4 DEF n, d

(* A method that gets the next id. *)
LEMMA AppendPass ==
  ASSUME NEW t, Sound(t), NEW b \in Bindings, NEW max \in Nat,
         NEW k \in Nat, k < Len(NameOrder), NEW w, NEW r, AfterUpserts(r, w, k, t, b, max),
         NEW q, q = UpsertStep(r, NameOrder[k + 1], Methods(b), max),
         k + 1 \in Fresh(t, Methods(b)), ~(Len(r.table.entries) >= max)
  PROVE  AfterUpserts(q, Append(w, k + 1), k + 1, t, b, max)
<1> DEFINE s == r.table.entries
           c == Without(s, NameOrder[k + 1])
           e == EntryOf(NameOrder[k + 1], b)
           v == Append(w, k + 1)
           n == Len(t.entries)
           low == IF r.table.version = 0 THEN 1 ELSE r.table.minimum
<1>1. /\ q.table = TableOf(r.table.version + 1, low, Append(c, e))
      /\ q.delta = r.delta \o <<[id |-> Len(s) + 1, entry |-> e]>>
      /\ e \in Entry
  <2>1. FreshPass(q, r, k, t, b, max) /\ e \in Entry
    BY FreshIsUpserted, Zenon
  <2>2. ~(Len(r.table.entries) >= max)
    OBVIOUS
  <2> DEFINE u == q
  <2> HIDE DEF u
  <2>3. /\ u.table = TableOf(r.table.version + 1, low, Append(c, e))
        /\ u.delta = r.delta \o <<[id |-> Len(s) + 1, entry |-> e]>>
    <3>1. FreshPass(u, r, k, t, b, max)
      BY <2>1 DEF u
    <3>2. QED
      BY ONLY <2>2, <3>1 DEF FreshPass
  <2>4. QED
    BY <2>1, <2>3 DEF u
<1>2. Chosen(w, k, t, b, max) /\ Len(w) \in Nat /\ UpsertedEntries(s, w, k, t, b) /\ UniqueActive(s)
  <2>1. Sound(r.table)
    BY UpsertedSound
  <2>2. UniqueActive(s)
    BY <2>1, SoundIs
  <2>3. Chosen(w, k, t, b, max) /\ UpsertedEntries(s, w, k, t, b)
    BY DEF AfterUpserts
  <2>4. QED
    BY <2>2, <2>3 DEF Chosen
<1>3. UpsertedEntries(c, w, k + 1, t, b)
  BY <1>2, CutPass
<1>4. Len(s) = n + Len(w) /\ n \in Nat /\ t.version \in Nat
  BY <1>2, SoundIs, EntriesAre DEF UpsertedEntries
<1>5. /\ Len(v) = Len(w) + 1 /\ v[Len(w) + 1] = k + 1 /\ \A j \in 1 .. Len(w) : v[j] = w[j]
      /\ Chosen(v, k + 1, t, b, max)
  <2>1. n + Len(w) < max
    BY <1>2, <1>4
  <2>2. QED
    BY <1>2, <2>1, ChosenMore
<1> HIDE DEF v, c, n
<1>6. UpsertedEntries(Append(c, e), v, k + 1, t, b)
  <2>1. e = EntryOf(NameOrder[v[Len(w) + 1]], b)
    BY <1>5
  <2> HIDE DEF s, e
  <2>2. QED
    BY <1>1, <1>2, <1>3, <1>5, <2>1, EntriesMore
<1>7. q.delta = AddedDelta(v, t, b)
  <2>1. r.delta = AddedDelta(w, t, b)
    BY DEF AfterUpserts
  <2>2. Len(s) + 1 = n + (Len(w) + 1)
    BY <1>2, <1>4
  <2>3. AddedDelta(w, t, b) \o <<[id |-> n + (Len(w) + 1), entry |-> e]>> = AddedDelta(v, t, b)
    BY <1>2, <1>5, DeltaMore DEF n
  <2>4. QED
    BY <1>1, <2>1, <2>2, <2>3
<1>8. r.table.version + 1 = UpsertedVersion(t, Len(v)) /\ low = UpsertedMinimum(t, Len(v))
  <2>1. r.table.version = UpsertedVersion(t, Len(w)) /\ r.table.minimum = UpsertedMinimum(t, Len(w))
    BY DEF AfterUpserts, TableOf
  <2> DEFINE l == Len(w)
  <2>2. l \in Nat /\ Len(v) = l + 1 /\ t.version \in Nat
    BY <1>2, <1>4, <1>5
  <2>3. r.table.version = t.version + l /\ r.table.minimum = IF t.version = 0 /\ l > 0 THEN 1 ELSE t.minimum
    BY <2>1 DEF UpsertedVersion, UpsertedMinimum
  <2> HIDE DEF l
  <2>4. r.table.version = 0 <=> t.version = 0 /\ ~(l > 0)
    BY <2>2, <2>3
  <2>5. l + 1 > 0 /\ (t.version + l) + 1 = t.version + (l + 1)
    BY <2>2
  <2>6. low = IF t.version = 0 /\ l + 1 > 0 THEN 1 ELSE t.minimum
    BY <2>3, <2>4, <2>5
  <2>7. QED
    BY <2>2, <2>3, <2>5, <2>6 DEF UpsertedVersion, UpsertedMinimum
<1>9. q.table.entries = Append(c, e)
  BY <1>1 DEF TableOf
<1> HIDE DEF low
<1>10. QED
  BY <1>1, <1>5, <1>6, <1>7, <1>8, <1>9 DEF AfterUpserts, v

(* Every pass of the first loop. *)
LEMMA UpsertPass ==
  ASSUME NEW t, Sound(t), NEW b \in Bindings, NEW max \in Nat,
         NEW k \in Nat, k < Len(NameOrder), NEW r, \E w : AfterUpserts(r, w, k, t, b, max)
  PROVE  \E w : AfterUpserts(UpsertStep(r, NameOrder[k + 1], Methods(b), max), w, k + 1, t, b, max)
<1>1. PICK w : AfterUpserts(r, w, k, t, b, max)
  OBVIOUS
<1>2. CASE k + 1 \notin Fresh(t, Methods(b))
  BY <1>1, <1>2, KnownPass
<1>3. CASE k + 1 \in Fresh(t, Methods(b)) /\ Len(r.table.entries) >= max
  BY <1>1, <1>3, FullPass
<1>4. CASE k + 1 \in Fresh(t, Methods(b)) /\ ~(Len(r.table.entries) >= max)
  BY <1>1, <1>4, AppendPass
<1>5. QED
  BY <1>2, <1>3, <1>4

(* Before the first pass. *)
LEMMA BeforeUpserts ==
  ASSUME NEW t, Sound(t), NEW b \in Bindings, NEW max \in Nat, Len(t.entries) <= max
  PROVE  AfterUpserts([table |-> t, delta |-> <<>>], <<>>, 0, t, b, max)
<1>1. /\ t = TableOf(t.version, t.minimum, t.entries) /\ t.entries \in Entries /\ t.version \in Nat
  BY SoundIs
<1>2. /\ Len(t.entries) \in Nat
      /\ \A i \in 1 .. Len(t.entries) :
           t.entries[i] = [name |-> t.entries[i].name, hash |-> t.entries[i].hash, state |-> t.entries[i].state]
  BY <1>1, EntriesAre
<1>3. \A p \in Fresh(t, Methods(b)) : p \in Nat /\ ~(p <= 0)
  BY FreshIs, PositionsAre DEF Sound
<1>4. Len(<<>>) = 0
  OBVIOUS
<1>5. Chosen(<<>>, 0, t, b, max)
  BY <1>2, <1>3, <1>4 DEF Chosen
<1>6. \A e : ~CutBy(e, 0, t, b)
  BY <1>3 DEF CutBy
<1>7. UpsertedEntries(t.entries, <<>>, 0, t, b)
  BY <1>1, <1>2, <1>4, <1>6 DEF UpsertedEntries
<1>8. UpsertedVersion(t, 0) = t.version /\ UpsertedMinimum(t, 0) = t.minimum
  BY <1>1 DEF UpsertedVersion, UpsertedMinimum
<1>9. AddedDelta(<<>>, t, b) = <<>>
  BY <1>4 DEF AddedDelta
<1>10. QED
  BY <1>1, <1>4, <1>5, <1>7, <1>8, <1>9 DEF AfterUpserts

(* What the first loop leaves. *)
LEMMA UpsertedIs ==
  ASSUME NEW t, Sound(t), NEW b \in Bindings, NEW max \in Nat, Len(t.entries) <= max
  PROVE  \E w : AfterUpserts(Upserted(t, Methods(b), max), w, Len(NameOrder), t, b, max)
<1> DEFINE N == Len(NameOrder)
           m == Methods(b)
           F == [k \in 0 .. N |-> k]
           Loop(f) == UpsertLoop(f, t, m, max, N)
           f == CHOOSE g : Loop(g)
<1>1. N \in Nat
  BY PositionsAre
<1>2. Loop(f)
  <2>1. \E g : Loop(g)
    BY <1>1, UpsertLoopRuns
  <2>2. QED
    BY <2>1
<1>3. Upserted(t, m, max) = f[N]
  BY DEF Upserted, UpsertLoop
<1> HIDE DEF f
<1>4. /\ f[0] = [table |-> t, delta |-> <<>>]
      /\ \A k \in 0 .. (N - 1) : f[k + 1] = UpsertStep(f[k], NameOrder[k + 1], m, max)
  <2>1. \A k \in 0 .. N : f[k] = IF k = 0 THEN [table |-> t, delta |-> <<>>]
                                 ELSE UpsertStep(f[k - 1], NameOrder[k], m, max)
    BY <1>2 DEF UpsertLoop
  <2>2. \A k \in 0 .. (N - 1) : k + 1 \in 0 .. N /\ k + 1 # 0 /\ (k + 1) - 1 = k
    BY <1>1
  <2>3. 0 \in 0 .. N
    BY <1>1
  <2>4. f[0] = [table |-> t, delta |-> <<>>]
    BY <2>1, <2>3
  <2>5. ASSUME NEW k \in 0 .. (N - 1) PROVE f[k + 1] = UpsertStep(f[k], NameOrder[k + 1], m, max)
    BY <2>1, <2>2
  <2>6. QED
    BY <2>4, <2>5
<1> DEFINE S == {k \in 0 .. N : \E w : AfterUpserts(f[k], w, k, t, b, max)}
<1>5. 0 \in S
  BY <1>1, <1>4, BeforeUpserts
<1>6. ASSUME NEW k \in 0 .. (N - 1), k \in S PROVE k + 1 \in S
  <2>1. \E w : AfterUpserts(f[k], w, k, t, b, max)
    BY <1>6
  <2>2. k \in Nat /\ k < N /\ k + 1 \in 0 .. N
    BY <1>1
  <2>3. \E w : AfterUpserts(UpsertStep(f[k], NameOrder[k + 1], m, max), w, k + 1, t, b, max)
    BY <2>1, <2>2, UpsertPass
  <2>4. QED
    BY <1>4, <2>2, <2>3
<1>7. \A k \in 0 .. N : k \in S
  <2> HIDE DEF S, N
  <2>1. QED
    BY <1>1, <1>5, <1>6, LoopInduction
<1>8. N \in S
  BY <1>1, <1>7
<1>9. QED
  BY <1>3, <1>8

(* What the first loop appends are the additions of the closed form. *)
LEMMA ChosenAreAdditions ==
  ASSUME NEW t, Sound(t), NEW b \in Bindings, NEW max \in Nat, NEW w,
         Chosen(w, Len(NameOrder), t, b, max)
  PROVE  w \in Additions(t, Methods(b), max)
<1> DEFINE fresh == Fresh(t, Methods(b))
           n == Len(t.entries)
           l == Len(w)
           image == {w[j] : j \in 1 .. l}
           f == [j \in 1 .. l |-> w[j]]
<1>1. /\ Len(NameOrder) \in Nat /\ fresh \subseteq 1 .. Len(NameOrder) /\ n \in Nat
  BY PositionsAre, FreshIs, SoundIs, EntriesAre DEF Sound
<1>2. /\ l \in Nat /\ w = f /\ n + l <= max
      /\ \A j \in 1 .. l : w[j] \in fresh
      /\ \A i, j \in 1 .. l : i < j => w[i] < w[j]
      /\ \A p \in fresh : p \in image \/ n + l = max
      /\ \A p \in fresh : \A j \in 1 .. l : p <= w[j] => \E i \in 1 .. l : w[i] = p
  BY <1>1 DEF Chosen
<1>3. IsFiniteSet(fresh) /\ Cardinality(fresh) \in Nat
  <2>1. IsFiniteSet(1 .. Len(NameOrder))
    BY <1>1, FS_Interval
  <2>2. QED
    BY <1>1, <2>1, FS_Subset, FS_CardinalityType
<1>4. image \subseteq fresh
  BY <1>2
<1>5. IsFiniteSet(1 .. l) /\ Cardinality(1 .. l) = l
  BY <1>2, FS_Interval
<1>6. \A i, j \in 1 .. l : w[i] = w[j] => i = j
  <2> SUFFICES ASSUME NEW i \in 1 .. l, NEW j \in 1 .. l, w[i] = w[j] PROVE i = j
    OBVIOUS
  <2>1. w[i] \in Nat /\ w[j] \in Nat
    BY <1>1, <1>2
  <2> HIDE DEF l, fresh
  <2>2. QED
    BY <1>2, <2>1
<1>7. f \in Bijection(1 .. l, image)
  <2>1. \A j \in 1 .. l : f[j] = w[j]
    OBVIOUS
  <2>2. f \in [1 .. l -> image]
    BY <2>1
  <2> HIDE DEF f, image, l
  <2>3. \A i, j \in 1 .. l : f[i] = f[j] => i = j
    BY <1>6, <2>1
  <2>4. f \in Injection(1 .. l, image)
    BY <2>2, <2>3 DEF Injection, IsInjective
  <2>5. f \in Surjection(1 .. l, image)
    BY <2>1, <2>2 DEF Surjection, image
  <2>6. QED
    BY <2>4, <2>5 DEF Bijection
<1> HIDE DEF f, image, fresh
<1>8. IsFiniteSet(image) /\ Cardinality(image) = l
  <2>1. ExistsBijection(1 .. l, image)
    BY <1>7 DEF ExistsBijection
  <2>2. QED
    BY <1>5, <2>1, FS_Bijection
<1>9. Cardinality(image) <= Cardinality(fresh) /\ (Cardinality(image) = Cardinality(fresh) => image = fresh)
  BY <1>3, <1>4, FS_Subset
<1>10. Room(t, Methods(b), max) = l
  <2> DEFINE c == Cardinality(fresh)
  <2>1. Room(t, Methods(b), max) = IF n + c <= max THEN c ELSE IF n <= max THEN max - n ELSE 0
    BY DEF Room, fresh
  <2>2. l <= c /\ c \in Nat /\ l \in Nat /\ n \in Nat /\ n + l <= max /\ (l = c => image = fresh)
    BY <1>1, <1>2, <1>3, <1>8, <1>9
  <2> HIDE DEF c, n, l
  <2>3. CASE n + l = max
    BY <2>1, <2>2, <2>3
  <2>4. CASE n + l # max
    <3>1. image = fresh
      BY <1>2, <1>4, <2>4
    <3>2. l = c
      BY <1>8, <3>1 DEF c
    <3>3. QED
      BY <2>1, <2>2, <3>2
  <2>5. QED
    BY <2>3, <2>4
<1>11. w \in [1 .. l -> fresh] /\ DOMAIN w = 1 .. l
  BY <1>2 DEF f
<1>12. ASSUME NEW p \in fresh, \E j \in DOMAIN w : p <= w[j]
       PROVE  \E i \in DOMAIN w : p = w[i]
  <2>1. PICK j \in 1 .. l : p <= w[j]
    BY <1>11, <1>12
  <2>2. \E i \in 1 .. l : w[i] = p
    BY <1>2, <2>1
  <2>3. QED
    BY <1>11, <2>2
<1> HIDE DEF l
<1>13. QED
  BY <1>2, <1>10, <1>11, <1>12 DEF Additions, fresh

(* There is one way to add the first methods without an id. *)
LEMMA OneAddition ==
  ASSUME NEW t \in Table, NEW b \in Bindings, NEW max \in Nat,
         NEW s \in Additions(t, Methods(b), max), NEW w \in Additions(t, Methods(b), max)
  PROVE  s = w
<1> DEFINE fresh == Fresh(t, Methods(b))
           l == Room(t, Methods(b), max)
           First(x) == /\ x \in [1 .. l -> fresh]
                       /\ \A i, j \in 1 .. l : i < j => x[i] < x[j]
                       /\ \A p \in fresh : \A j \in 1 .. l : p <= x[j] => \E i \in 1 .. l : p = x[i]
<1>1. l \in Nat /\ fresh \subseteq Nat
  BY RoomIsNat, FreshIs, PositionsAre
<1>2. First(s) /\ First(w)
  BY DEF Additions
<1> HIDE DEF fresh, l
<1>3. ASSUME NEW x, NEW y, First(x), First(y), NEW j \in 1 .. l,
             \A i \in 1 .. l : i < j => x[i] = y[i]
      PROVE  ~(x[j] < y[j])
  <2> SUFFICES ASSUME x[j] < y[j] PROVE FALSE
    OBVIOUS
  <2>1. x[j] \in fresh /\ x[j] \in Nat /\ \A i \in 1 .. l : y[i] \in Nat
    BY <1>1, <1>3
  <2>2. PICK i \in 1 .. l : x[j] = y[i]
    BY <1>3, <2>1
  <2>3. i \in Nat /\ j \in Nat /\ y[i] \in Nat
    BY <1>1, <2>1
  <2>4. i < j
    <3>1. ~(j < i)
      BY <1>3, <2>1, <2>2, <2>3
    <3>2. i # j
      BY <2>2, <2>3
    <3>3. QED
      BY <2>3, <3>1, <3>2
  <2>5. x[i] = x[j] /\ x[i] < x[j]
    BY <1>3, <2>2, <2>4
  <2>6. QED
    BY <2>1, <2>5
<1> HIDE DEF First
<1> DEFINE S == {k \in 0 .. l : \A i \in 1 .. k : s[i] = w[i]}
<1>4. 0 \in S
  BY <1>1
<1>5. ASSUME NEW k \in 0 .. (l - 1), k \in S PROVE k + 1 \in S
  <2>1. k + 1 \in 1 .. l /\ k + 1 \in 0 .. l
    BY <1>1
  <2>2. \A i \in 1 .. l : i < k + 1 => s[i] = w[i] /\ w[i] = s[i]
    BY <1>1, <1>5
  <2>3. ~(s[k + 1] < w[k + 1]) /\ ~(w[k + 1] < s[k + 1])
    BY <1>2, <1>3, <2>1, <2>2
  <2>4. s[k + 1] \in Nat /\ w[k + 1] \in Nat
    BY <1>1, <1>2, <2>1 DEF First
  <2>5. s[k + 1] = w[k + 1]
    BY <2>3, <2>4
  <2>6. \A i \in 1 .. (k + 1) : i = k + 1 \/ (i \in 1 .. l /\ i < k + 1)
    BY <1>1
  <2>7. QED
    BY <2>1, <2>2, <2>5, <2>6
<1>6. \A k \in 0 .. l : k \in S
  <2> HIDE DEF S
  <2>1. QED
    BY <1>1, <1>4, <1>5, LoopInduction
<1>7. \A i \in 1 .. l : s[i] = w[i]
  BY <1>1, <1>6
<1>8. s = [i \in 1 .. l |-> s[i]] /\ w = [i \in 1 .. l |-> w[i]]
  <2>1. s \in [1 .. l -> fresh] /\ w \in [1 .. l -> fresh]
    BY <1>2 DEF First
  <2>2. QED
    BY <2>1
<1>9. QED
  BY <1>7, <1>8

(* A delta that has the entries of the ids in S, each once. *)
Carries(d, S, entries) ==
  /\ Len(d) \in Nat /\ d = [j \in 1 .. Len(d) |-> d[j]]
  /\ \A j \in 1 .. Len(d) : d[j].id \in S /\ d[j].entry = entries[d[j].id]
  /\ \A i \in S : \E j \in 1 .. Len(d) : d[j].id = i
  /\ \A i, j \in 1 .. Len(d) : d[i].id = d[j].id => i = j

LEMMA CarriesMore ==
  ASSUME NEW d, NEW S, NEW e, Carries(d, S, e), NEW p, p \notin S,
         NEW c, \A i \in S : c[i] = e[i]
  PROVE  Carries(d \o <<[id |-> p, entry |-> c[p]]>>, S \cup {p}, c)
<1> DEFINE l == Len(d)
           x == [id |-> p, entry |-> c[p]]
           D == {d[j] : j \in 1 .. l} \cup {x}
           f == d \o <<x>>
<1>1. /\ l \in Nat /\ d = [j \in 1 .. l |-> d[j]]
      /\ \A j \in 1 .. l : d[j].id \in S /\ d[j].entry = e[d[j].id]
      /\ \A i \in S : \E j \in 1 .. l : d[j].id = i
      /\ \A i, j \in 1 .. l : d[i].id = d[j].id => i = j
  BY DEF Carries
<1>2. x.id = p /\ x.entry = c[p]
  OBVIOUS
<1> HIDE DEF x, l
<1>3. d \in Seq(D) /\ Len(d) = l /\ <<x>> \in Seq(D) /\ Len(<<x>>) = 1 /\ <<x>>[1] = x
  <2>1. d \in [1 .. l -> D]
    BY <1>1
  <2>2. x \in D
    OBVIOUS
  <2> HIDE DEF D
  <2>3. QED
    BY <1>1, <2>1, <2>2
<1> HIDE DEF D
<1>4. /\ f \in Seq(D) /\ Len(f) = l + 1 /\ f[l + 1] = x
      /\ \A j \in 1 .. l : f[j] = d[j]
  <2>1. /\ f \in Seq(D) /\ Len(f) = Len(d) + Len(<<x>>)
        /\ \A i \in 1 .. Len(d) + Len(<<x>>) :
             f[i] = IF i <= Len(d) THEN d[i] ELSE <<x>>[i - Len(d)]
    BY <1>3, ConcatProperties
  <2>2. Len(f) = l + 1
    BY <1>3, <2>1
  <2>3. ASSUME NEW j \in 1 .. l PROVE f[j] = d[j]
    BY <1>1, <1>3, <2>1
  <2>4. f[l + 1] = x
    <3>1. l + 1 \in 1 .. Len(d) + Len(<<x>>) /\ ~(l + 1 <= Len(d)) /\ (l + 1) - Len(d) = 1
      BY <1>1, <1>3
    <3>2. QED
      BY <1>3, <2>1, <3>1
  <2>5. QED
    BY <2>1, <2>2, <2>3, <2>4
<1>5. Len(f) \in Nat /\ f = [j \in 1 .. Len(f) |-> f[j]]
  BY <1>4, LenProperties
<1> HIDE DEF f
<1>6. /\ \A j \in 1 .. Len(f) : j \in 1 .. l \/ j = l + 1
      /\ \A j \in 1 .. l : j \in 1 .. Len(f)
      /\ l + 1 \in 1 .. Len(f) /\ l + 1 \notin 1 .. l
  BY <1>1, <1>4
<1>7. \A j \in 1 .. Len(f) : f[j].id \in S \cup {p} /\ f[j].entry = c[f[j].id]
  BY <1>1, <1>2, <1>4, <1>6
<1>8. \A i \in S \cup {p} : \E j \in 1 .. Len(f) : f[j].id = i
  BY <1>1, <1>2, <1>4, <1>6
<1>9. \A i, j \in 1 .. Len(f) : f[i].id = f[j].id => i = j
  <2> SUFFICES ASSUME NEW i \in 1 .. Len(f), NEW j \in 1 .. Len(f), f[i].id = f[j].id PROVE i = j
    OBVIOUS
  <2>1. CASE i \in 1 .. l /\ j \in 1 .. l
    BY <1>1, <1>4, <2>1
  <2>2. CASE i \in 1 .. l /\ j = l + 1
    BY <1>1, <1>2, <1>4, <2>2
  <2>3. CASE i = l + 1 /\ j \in 1 .. l
    BY <1>1, <1>2, <1>4, <2>3
  <2>4. QED
    BY <1>6, <2>1, <2>2, <2>3
<1>10. QED
  BY <1>5, <1>7, <1>8, <1>9 DEF Carries, f, x

-----------------------------------------------------------------------------
(* The second loop. *)

(* The ids whose methods are gone, and the entries without the first of them. *)
Gone(entries, methods) == {i \in Active(entries) : entries[i].name \notin DOMAIN methods}
GoneUpto(entries, methods, k) == {i \in Gone(entries, methods) : i <= k}

SweptTo(entries, methods, k) ==
  [i \in 1 .. Len(entries) |->
     [name |-> entries[i].name, hash |-> entries[i].hash,
      state |-> IF i \in GoneUpto(entries, methods, k) THEN "removed" ELSE entries[i].state]]

AfterSweep(r, k, a, S, methods) ==
  LET gone == GoneUpto(a.table.entries, methods, k)
      swept == SweptTo(a.table.entries, methods, k)
  IN /\ r.table = TableOf(a.table.version + Cardinality(gone),
                          IF a.table.version = 0 /\ gone # {} THEN 1 ELSE a.table.minimum, swept)
     /\ Carries(r.delta, S \cup gone, swept)

LEMMA SweptToIs ==
  ASSUME NEW s \in Entries, UniqueActive(s), NEW m, NEW k
  PROVE  /\ SweptTo(s, m, k) \in Entries /\ Len(SweptTo(s, m, k)) = Len(s)
         /\ UniqueActive(SweptTo(s, m, k))
         /\ Active(SweptTo(s, m, k)) = Active(s) \ GoneUpto(s, m, k)
         /\ \A i \in 1 .. Len(s) :
              SweptTo(s, m, k)[i] = [name |-> s[i].name, hash |-> s[i].hash,
                                     state |-> IF i \in GoneUpto(s, m, k) THEN "removed" ELSE s[i].state]
<1> DEFINE w == SweptTo(s, m, k)
           G == GoneUpto(s, m, k)
<1>1. /\ s \in Seq(Entry) /\ Len(s) \in Nat /\ DOMAIN s = 1 .. Len(s)
      /\ \A i \in 1 .. Len(s) :
           /\ s[i] = [name |-> s[i].name, hash |-> s[i].hash, state |-> s[i].state]
           /\ s[i].name \in Name /\ s[i].hash \in Hash /\ s[i].state \in State
  BY EntriesAre
<1>2. \A i \in 1 .. Len(s) :
        w[i] = [name |-> s[i].name, hash |-> s[i].hash,
                state |-> IF i \in G THEN "removed" ELSE s[i].state]
  BY DEF SweptTo
<1>3. w = [i \in 1 .. Len(s) |-> w[i]] /\ DOMAIN w = 1 .. Len(s)
  BY DEF SweptTo
<1> HIDE DEF w, G
<1>4. ASSUME NEW i \in 1 .. Len(s) PROVE w[i] \in Entry
  <2> DEFINE state == IF i \in G THEN "removed" ELSE s[i].state
  <2>1. state \in State
    BY <1>1 DEF State
  <2> HIDE DEF state
  <2>2. w[i] = [name |-> s[i].name, hash |-> s[i].hash, state |-> state]
    BY <1>2 DEF state
  <2>3. QED
    BY <1>1, <2>1, <2>2 DEF Entry
<1>5. w \in [1 .. Len(s) -> Entry]
  BY <1>3, <1>4
<1>6. w \in Seq(Entry) /\ Len(w) = Len(s)
  BY <1>1, <1>5
<1>7. Active(w) = Active(s) \ G
  <2>1. ASSUME NEW i \in 1 .. Len(s)
        PROVE  w[i].state = "active" <=> s[i].state = "active" /\ i \notin G
    <3> DEFINE state == IF i \in G THEN "removed" ELSE s[i].state
    <3>1. w[i] = [name |-> s[i].name, hash |-> s[i].hash, state |-> state]
      BY <1>2
    <3> HIDE DEF state
    <3>2. w[i].state = state
      BY <3>1
    <3>3. QED
      BY <3>2 DEF state
  <2>2. QED
    BY <1>1, <1>3, <2>1 DEF Active
<1>8. UniqueActive(w)
  BY <1>1, <1>2, <1>7 DEF UniqueActive, Active
<1>9. QED
  BY <1>2, <1>6, <1>7, <1>8 DEF w, G, Entries

(* A pass over an entry that stays. *)
LEMMA StayingPass ==
  ASSUME NEW a, Sound(a.table), NEW S, NEW m, NEW k \in Nat, k < Len(a.table.entries),
         NEW r, AfterSweep(r, k, a, S, m), k + 1 \notin Gone(a.table.entries, m),
         NEW q, q = RemoveStep(r, a.table.entries[k + 1], m)
  PROVE  AfterSweep(q, k + 1, a, S, m)
<1> DEFINE s == a.table.entries
<1>1. s \in Entries /\ Len(s) \in Nat /\ DOMAIN s = 1 .. Len(s) /\ k + 1 \in 1 .. Len(s)
  BY SoundIs, EntriesAre
<1>2. q = r
  BY <1>1 DEF RemoveStep, Gone, Active
<1>3. GoneUpto(s, m, k + 1) = GoneUpto(s, m, k)
  <2>1. \A i \in Gone(s, m) : i \in Nat /\ i # k + 1
    BY <1>1 DEF Gone, Active
  <2>2. \A i \in Gone(s, m) : i <= k + 1 <=> i <= k
    BY <2>1
  <2>3. QED
    BY <2>2 DEF GoneUpto
<1>4. SweptTo(s, m, k + 1) = SweptTo(s, m, k)
  BY <1>3 DEF SweptTo
<1>5. QED
  BY <1>2, <1>3, <1>4 DEF AfterSweep

(* A pass over one that goes. *)
LEMMA GoingPass ==
  ASSUME NEW a, Sound(a.table), NEW S, NEW m, NEW k \in Nat, k < Len(a.table.entries),
         NEW r, AfterSweep(r, k, a, S, m), k + 1 \in Gone(a.table.entries, m),
         S \cap Gone(a.table.entries, m) = {}, S \subseteq 1 .. Len(a.table.entries),
         NEW q, q = RemoveStep(r, a.table.entries[k + 1], m)
  PROVE  AfterSweep(q, k + 1, a, S, m)
<1> DEFINE s == a.table.entries
           G == GoneUpto(s, m, k)
           H == GoneUpto(s, m, k + 1)
           x == SweptTo(s, m, k)
           y == SweptTo(s, m, k + 1)
           n == s[k + 1].name
           low == IF a.table.version = 0 /\ G # {} THEN 1 ELSE a.table.minimum
<1>1. /\ s \in Entries /\ Len(s) \in Nat /\ DOMAIN s = 1 .. Len(s) /\ k + 1 \in 1 .. Len(s)
      /\ UniqueActive(s) /\ a.table.version \in Nat /\ a.table.minimum \in Nat
      /\ \A i \in 1 .. Len(s) : s[i].state \in State
  <2>1. s \in Entries /\ UniqueActive(s) /\ a.table.version \in Nat /\ a.table.minimum \in Nat
    BY SoundIs
  <2> HIDE DEF s
  <2>2. Len(s) \in Nat /\ DOMAIN s = 1 .. Len(s) /\ \A i \in 1 .. Len(s) : s[i].state \in State
    BY <2>1, EntriesAre
  <2>3. k + 1 \in 1 .. Len(s)
    BY <2>2 DEF s
  <2>4. QED
    BY <2>1, <2>2, <2>3
<1>2. k + 1 \in Active(s) /\ n \notin DOMAIN m /\ s[k + 1].state = "active"
  BY DEF Gone, Active
<1>3. H = G \cup {k + 1} /\ k + 1 \notin G /\ G \subseteq 1 .. Len(s)
  <2>1. \A i \in Gone(s, m) : i \in Nat /\ i \in 1 .. Len(s)
    BY <1>1 DEF Gone, Active
  <2>2. \A i \in Gone(s, m) : i <= k + 1 <=> (i <= k \/ i = k + 1)
    BY <2>1
  <2>3. ~(k + 1 <= k)
    OBVIOUS
  <2>4. QED
    BY <2>1, <2>2, <2>3 DEF GoneUpto
<1>4. IsFiniteSet(G) /\ Cardinality(G) \in Nat /\ Cardinality(H) = Cardinality(G) + 1
  <2>1. IsFiniteSet(1 .. Len(s))
    <3>1. 1 \in Int /\ Len(s) \in Int
      BY <1>1
    <3>2. QED
      BY <3>1, FS_Interval
  <2>2. IsFiniteSet(G) /\ Cardinality(G) \in Nat
    BY <1>3, <2>1, FS_Subset, FS_CardinalityType
  <2>3. QED
    BY <1>3, <2>2, FS_AddElement
<1>5. /\ x \in Entries /\ Len(x) = Len(s) /\ UniqueActive(x) /\ Active(x) = Active(s) \ G
      /\ \A i \in 1 .. Len(s) :
           x[i] = [name |-> s[i].name, hash |-> s[i].hash,
                   state |-> IF i \in G THEN "removed" ELSE s[i].state]
      /\ \A i \in 1 .. Len(s) :
           y[i] = [name |-> s[i].name, hash |-> s[i].hash,
                   state |-> IF i \in H THEN "removed" ELSE s[i].state]
  BY <1>1, SweptToIs
<1>6. /\ r.table = TableOf(a.table.version + Cardinality(G), low, x)
      /\ Carries(r.delta, S \cup G, x)
  BY DEF AfterSweep
<1>7. r.table.entries = x /\ r.table.version = a.table.version + Cardinality(G) /\ r.table.minimum = low
  BY <1>6 DEF TableOf
<1>8. y = [i \in 1 .. Len(s) |-> y[i]]
  BY DEF SweptTo
<1> HIDE DEF G, H, x, y
<1>9. k + 1 \in Active(x) /\ x[k + 1].name = n
  <2>1. k + 1 \in Active(s) \ G
    BY <1>2, <1>3
  <2>2. x[k + 1].name = s[k + 1].name
    <3> DEFINE i == k + 1
               state == IF i \in G THEN "removed" ELSE s[i].state
    <3>1. i \in 1 .. Len(s)
      BY <1>1
    <3>2. x[i] = [name |-> s[i].name, hash |-> s[i].hash, state |-> state]
      BY <1>5, <3>1
    <3> HIDE DEF state, i
    <3>3. x[i].name = s[i].name
      BY <3>2
    <3>4. QED
      BY <3>3 DEF i
  <2>3. QED
    BY <1>5, <2>1, <2>2
<1>10. Without(x, n) = y
  <2>1. ASSUME NEW i \in 1 .. Len(s)
        PROVE  [name |-> x[i].name, hash |-> x[i].hash,
                state |-> IF x[i].name = n THEN "removed" ELSE x[i].state] = y[i]
    <3>1. x[i] = [name |-> s[i].name, hash |-> s[i].hash,
                  state |-> IF i \in G THEN "removed" ELSE s[i].state]
      BY <1>5
    <3>2. y[i] = [name |-> s[i].name, hash |-> s[i].hash,
                  state |-> IF i \in H THEN "removed" ELSE s[i].state]
      BY <1>5
    <3>3. s[i].name = n => (i = k + 1 \/ s[i].state = "removed")
      BY <1>1, <1>2 DEF UniqueActive, Active, State
    <3>4. CASE i = k + 1
      BY <1>3, <3>1, <3>2, <3>4
    <3>5. CASE i # k + 1 /\ s[i].name = n
      BY <1>3, <3>1, <3>2, <3>3, <3>5
    <3>6. CASE i # k + 1 /\ s[i].name # n
      BY <1>3, <3>1, <3>2, <3>6
    <3>7. QED
      BY <3>4, <3>5, <3>6
  <2>2. QED
    BY <1>5, <1>8, <2>1 DEF Without
<1>11. /\ q.table = TableOf(r.table.version + 1, IF r.table.version = 0 THEN 1 ELSE r.table.minimum, y)
       /\ q.delta = r.delta \o <<[id |-> k + 1, entry |-> y[k + 1]]>>
  <2>1. Sound(r.table)
    <3>1. low \in Nat /\ a.table.version + Cardinality(G) \in Nat
      BY <1>1, <1>4
    <3> HIDE DEF low
    <3>2. QED
      BY <1>5, <1>6, <3>1, SoundTable
  <2>2. RemoveName(r.table, n)
          = [table |-> TableOf(r.table.version + 1, IF r.table.version = 0 THEN 1 ELSE r.table.minimum, y),
             delta |-> <<[id |-> k + 1, entry |-> y[k + 1]]>>]
    BY <1>7, <1>9, <1>10, <2>1, RemoveIs
  <2>3. q = [table |-> RemoveName(r.table, n).table, delta |-> r.delta \o RemoveName(r.table, n).delta]
    BY <1>2 DEF RemoveStep
  <2>4. QED
    BY <2>2, <2>3
<1>12. (IF r.table.version = 0 THEN 1 ELSE r.table.minimum)
         = IF a.table.version = 0 /\ H # {} THEN 1 ELSE a.table.minimum
  <2>1. H # {}
    BY <1>3
  <2>2. G = {} => Cardinality(G) = 0
    BY FS_EmptySet
  <2>3. Cardinality(G) = 0 => G = {}
    BY <1>4, FS_EmptySet
  <2>4. QED
    BY <1>1, <1>4, <1>7, <2>1, <2>2, <2>3
<1>13. r.table.version + 1 = a.table.version + Cardinality(H)
  <2> DEFINE c == Cardinality(G)
             v == a.table.version
  <2>1. c \in Nat /\ v \in Nat /\ Cardinality(H) = c + 1 /\ r.table.version = v + c
    BY <1>1, <1>4, <1>7
  <2> HIDE DEF c, v
  <2>2. r.table.version + 1 = v + Cardinality(H)
    BY <2>1
  <2>3. QED
    BY <2>2 DEF v
<1>14. Carries(q.delta, S \cup H, y)
  <2>1. k + 1 \notin S \cup G
    BY <1>3
  <2>2. \A i \in S \cup G : y[i] = x[i]
    <3> SUFFICES ASSUME NEW i \in S \cup G PROVE y[i] = x[i]
      OBVIOUS
    <3>1. i \in 1 .. Len(s) /\ i # k + 1
      BY <1>3, <2>1
    <3>2. QED
      BY <1>3, <1>5, <3>1
  <2>3. (S \cup G) \cup {k + 1} = S \cup H
    BY <1>3
  <2>4. Carries(q.delta, (S \cup G) \cup {k + 1}, y)
    <3> DEFINE T == S \cup G
               d == r.delta \o <<[id |-> k + 1, entry |-> y[k + 1]]>>
    <3>1. Carries(r.delta, T, x) /\ k + 1 \notin T /\ \A i \in T : y[i] = x[i]
      BY <1>6, <2>1, <2>2
    <3> HIDE DEF T
    <3>2. Carries(d, T \cup {k + 1}, y)
      BY <3>1, CarriesMore
    <3>3. QED
      BY <1>11, <3>2 DEF T
  <2>5. QED
    BY <2>3, <2>4
<1> HIDE DEF low
<1>15. QED
  BY <1>11, <1>12, <1>13, <1>14 DEF AfterSweep, H, y

LEMMA BeforeSweep ==
  ASSUME NEW a, Sound(a.table), NEW S, NEW m, Carries(a.delta, S, a.table.entries)
  PROVE  AfterSweep(a, 0, a, S, m)
<1> DEFINE s == a.table.entries
<1>1. /\ a.table = TableOf(a.table.version, a.table.minimum, s) /\ a.table.version \in Nat
      /\ s \in Entries
  BY SoundIs
<1>2. /\ Len(s) \in Nat /\ DOMAIN s = 1 .. Len(s) /\ s = [i \in 1 .. Len(s) |-> s[i]]
      /\ \A i \in 1 .. Len(s) : s[i] = [name |-> s[i].name, hash |-> s[i].hash, state |-> s[i].state]
  <2> HIDE DEF s
  <2>1. /\ Len(s) \in Nat /\ DOMAIN s = 1 .. Len(s) /\ s \in Seq(Entry)
        /\ \A i \in 1 .. Len(s) : s[i] = [name |-> s[i].name, hash |-> s[i].hash, state |-> s[i].state]
    BY <1>1, EntriesAre
  <2>2. QED
    BY <2>1
<1>3. GoneUpto(s, m, 0) = {}
  <2>1. \A i \in Gone(s, m) : ~(i <= 0)
    BY <1>2 DEF Gone, Active
  <2>2. QED
    BY <2>1 DEF GoneUpto
<1>4. SweptTo(s, m, 0) = s
  BY <1>2, <1>3 DEF SweptTo
<1>5. Cardinality(GoneUpto(s, m, 0)) = 0 /\ a.table.version + 0 = a.table.version
  BY <1>1, <1>3, FS_EmptySet
<1>6. S \cup {} = S
  OBVIOUS
<1>7. QED
  BY <1>1, <1>3, <1>4, <1>5, <1>6 DEF AfterSweep

(* What the second loop leaves. *)
LEMMA SweptIs ==
  ASSUME NEW a, Sound(a.table), NEW S, NEW m, Carries(a.delta, S, a.table.entries),
         S \cap Gone(a.table.entries, m) = {}, S \subseteq 1 .. Len(a.table.entries)
  PROVE  AfterSweep(Swept(a, m), Len(a.table.entries), a, S, m)
<1> DEFINE s == a.table.entries
           N == Len(s)
           Loop(f) == SweepLoop(f, a, m, N)
           f == CHOOSE g : Loop(g)
<1>1. N \in Nat
  BY SoundIs, EntriesAre
<1>2. Loop(f)
  <2>1. \E g : Loop(g)
    BY <1>1, SweepLoopRuns
  <2>2. QED
    BY <2>1
<1>3. Swept(a, m) = f[N]
  BY DEF Swept, SweepLoop
<1> HIDE DEF f
<1>4. /\ f[0] = a
      /\ \A k \in 0 .. (N - 1) : f[k + 1] = RemoveStep(f[k], s[k + 1], m)
  <2>1. \A k \in 0 .. N : f[k] = IF k = 0 THEN a ELSE RemoveStep(f[k - 1], s[k], m)
    BY <1>2 DEF SweepLoop
  <2>2. \A k \in 0 .. (N - 1) : k + 1 \in 0 .. N /\ k + 1 # 0 /\ (k + 1) - 1 = k
    BY <1>1
  <2>3. 0 \in 0 .. N
    BY <1>1
  <2>4. f[0] = a
    BY <2>1, <2>3
  <2>5. ASSUME NEW k \in 0 .. (N - 1) PROVE f[k + 1] = RemoveStep(f[k], s[k + 1], m)
    BY <2>1, <2>2
  <2>6. QED
    BY <2>4, <2>5
<1> DEFINE T == {k \in 0 .. N : AfterSweep(f[k], k, a, S, m)}
<1>5. 0 \in T
  BY <1>1, <1>4, BeforeSweep
<1>6. ASSUME NEW k \in 0 .. (N - 1), k \in T PROVE k + 1 \in T
  <2>1. AfterSweep(f[k], k, a, S, m) /\ f[k + 1] = RemoveStep(f[k], s[k + 1], m)
    BY <1>4, <1>6
  <2>2. k \in Nat /\ k < N /\ k + 1 \in 0 .. N
    BY <1>1
  <2>3. AfterSweep(f[k + 1], k + 1, a, S, m)
    <3>1. CASE k + 1 \in Gone(s, m)
      BY <2>1, <2>2, <3>1, GoingPass
    <3>2. CASE k + 1 \notin Gone(s, m)
      BY <2>1, <2>2, <3>2, StayingPass
    <3>3. QED
      BY <3>1, <3>2
  <2>4. QED
    BY <2>2, <2>3
<1>7. \A k \in 0 .. N : k \in T
  <2> HIDE DEF T, N
  <2>1. QED
    BY <1>1, <1>5, <1>6, LoopInduction
<1>8. N \in T
  BY <1>1, <1>7
<1>9. QED
  BY <1>3, <1>8

(* The delta of the first loop has what it appended. *)
LEMMA AddedIsCarried ==
  ASSUME NEW t, Sound(t), NEW b \in Bindings, NEW max \in Nat, NEW k, NEW w, NEW a,
         AfterUpserts(a, w, k, t, b, max)
  PROVE  Carries(a.delta, (Len(t.entries) + 1) .. (Len(t.entries) + Len(w)), a.table.entries)
<1> DEFINE n == Len(t.entries)
           l == Len(w)
           s == a.table.entries
           d == AddedDelta(w, t, b)
           S == (n + 1) .. (n + l)
<1>1. n \in Nat /\ l \in Nat /\ UpsertedEntries(s, w, k, t, b) /\ a.delta = d
  BY SoundIs, EntriesAre DEF AfterUpserts, Chosen
<1>2. \A j \in 1 .. l : s[n + j] = EntryOf(NameOrder[w[j]], b)
  BY <1>1 DEF UpsertedEntries
<1>3. Len(d) = l /\ d = [j \in 1 .. l |-> d[j]]
  <2>1. Len(d) = l
    BY <1>1, AddedDeltaIs
  <2>2. QED
    BY <2>1 DEF AddedDelta
<1>4. \A j \in 1 .. l : d[j].id = n + j /\ d[j].entry = EntryOf(NameOrder[w[j]], b)
  BY DEF AddedDelta
<1> HIDE DEF d, n, l, s
<1>5. \A j \in 1 .. l : d[j].id \in S /\ d[j].entry = s[d[j].id]
  BY <1>1, <1>2, <1>4
<1>6. \A i \in S : \E j \in 1 .. l : d[j].id = i
  <2> SUFFICES ASSUME NEW i \in S PROVE \E j \in 1 .. l : d[j].id = i
    OBVIOUS
  <2>1. i - n \in 1 .. l /\ n + (i - n) = i
    BY <1>1
  <2>2. QED
    BY <1>4, <2>1
<1>7. \A i, j \in 1 .. l : d[i].id = d[j].id => i = j
  BY <1>1, <1>4
<1>8. QED
  BY <1>1, <1>3, <1>5, <1>6, <1>7 DEF Carries, n, l, s

(* What the first loop leaves of an entry there was. *)
LEMMA UpsertedState ==
  ASSUME NEW t, Sound(t), NEW b \in Bindings, NEW i \in 1 .. Len(t.entries)
  PROVE  LET e == t.entries[i]
             m == Methods(b)
         IN  /\ e.name \in Name /\ e.state \in State
             /\ e.state = "active" => (CutBy(e, Len(NameOrder), t, b) <=> e.name \in DOMAIN m /\ ~Stays(e, m))
<1> DEFINE e == t.entries[i]
           m == Methods(b)
           N == Len(NameOrder)
           fresh == Fresh(t, m)
<1>1. /\ t \in Table /\ t.entries \in Entries /\ UniqueActive(t.entries)
      /\ DOMAIN t.entries = 1 .. Len(t.entries)
  BY SoundIs, EntriesAre DEF Sound
<1>2. e.name \in Name /\ e.state \in State
  BY <1>1, EntriesAre
<1>3. /\ N \in Nat /\ fresh \subseteq 1 .. N
      /\ \A p \in 1 .. N : p \in fresh <=>
           /\ NameOrder[p] \in DOMAIN m
           /\ \A j \in 1 .. Len(t.entries) : t.entries[j].name = NameOrder[p] => ~Stays(t.entries[j], m)
  BY <1>1, FreshIs, PositionsAre
<1>4. PICK p \in 1 .. N : NameOrder[p] = e.name
  BY <1>2, CatalogAssumption, PositionsAre
<1>5. ASSUME e.state = "active", CutBy(e, N, t, b) PROVE e.name \in DOMAIN m /\ ~Stays(e, m)
  BY <1>3, <1>5 DEF CutBy
<1>6. ASSUME e.state = "active", e.name \in DOMAIN m, ~Stays(e, m) PROVE CutBy(e, N, t, b)
  <2>1. \A j \in 1 .. Len(t.entries) : t.entries[j].name = e.name => ~Stays(t.entries[j], m)
    BY <1>1, <1>6 DEF Stays, UniqueActive, Active
  <2>2. p \in fresh /\ p <= N
    BY <1>3, <1>4, <1>6, <2>1
  <2>3. QED
    BY <1>4, <2>2 DEF CutBy
<1>7. QED
  BY <1>2, <1>5, <1>6

(* The ids the first loop leaves and the list has no method for. *)
LEMMA GoneIs ==
  ASSUME NEW t, Sound(t), NEW b \in Bindings, NEW w, NEW s,
         NEW max, Chosen(w, Len(NameOrder), t, b, max),
         UpsertedEntries(s, w, Len(NameOrder), t, b)
  PROVE  /\ Gone(s, Methods(b)) = Gone(t.entries, Methods(b))
         /\ Gone(s, Methods(b)) \subseteq 1 .. Len(t.entries)
<1> DEFINE m == Methods(b)
           n == Len(t.entries)
           N == Len(NameOrder)
<1>1. /\ t \in Table /\ t.entries \in Entries /\ n \in Nat /\ DOMAIN t.entries = 1 .. n
      /\ s \in Entries /\ Len(s) = n + Len(w) /\ DOMAIN s = 1 .. Len(s) /\ Len(w) \in Nat
  BY SoundIs, EntriesAre DEF Sound, UpsertedEntries, Chosen
<1>2. ASSUME NEW i \in 1 .. n PROVE i \in Gone(s, m) <=> i \in Gone(t.entries, m)
  <2> DEFINE e == t.entries[i]
             state == IF CutBy(e, N, t, b) THEN "removed" ELSE e.state
  <2>1. s[i] = [name |-> e.name, hash |-> e.hash, state |-> state]
    BY DEF UpsertedEntries
  <2>2. e.state = "active" => (CutBy(e, N, t, b) <=> e.name \in DOMAIN m /\ ~Stays(e, m))
    BY UpsertedState
  <2>3. i \in Active(s) <=> state = "active"
    <3> HIDE DEF state, e
    <3>1. i \in DOMAIN s
      BY <1>1
    <3>2. s[i].state = state
      BY <2>1
    <3>3. QED
      BY <3>1, <3>2 DEF Active
  <2>4. i \in Active(t.entries) <=> e.state = "active"
    BY <1>1 DEF Active
  <2>5. s[i].name = e.name
    <3> HIDE DEF state, e
    <3>1. QED
      BY <2>1
  <2>6. CASE e.name \in DOMAIN m
    BY <2>5, <2>6 DEF Gone
  <2>7. CASE e.name \notin DOMAIN m
    <3>1. state = "active" <=> e.state = "active"
      BY <2>2, <2>7
    <3> HIDE DEF state
    <3>2. QED
      BY <2>3, <2>4, <2>5, <2>7, <3>1 DEF Gone
  <2>8. QED
    BY <2>6, <2>7
<1>3. ASSUME NEW i \in Gone(s, m) PROVE i \in 1 .. n
  <2> SUFFICES ASSUME i \notin 1 .. n PROVE FALSE
    OBVIOUS
  <2>1. i \in 1 .. Len(s) /\ s[i].name \notin DOMAIN m
    BY <1>1 DEF Gone, Active
  <2>2. i - n \in 1 .. Len(w) /\ n + (i - n) = i
    <3> HIDE DEF n
    <3>1. QED
      BY <1>1, <2>1
  <2>3. s[i] = EntryOf(NameOrder[w[i - n]], b) /\ w[i - n] \in Fresh(t, m)
    BY <2>2 DEF UpsertedEntries, Chosen
  <2>4. NameOrder[w[i - n]] \in DOMAIN m
    BY <2>3 DEF Fresh
  <2>5. QED
    BY <2>1, <2>3, <2>4 DEF EntryOf
<1>4. \A i \in Gone(t.entries, m) : i \in 1 .. n
  BY <1>1 DEF Gone, Active
<1>5. QED
  BY <1>2, <1>3, <1>4

(* The entries the two loops leave are those of the closed form. *)
LEMMA StepsEntries ==
  ASSUME NEW t, Sound(t), NEW b \in Bindings, NEW max \in Nat, NEW w, NEW s,
         Chosen(w, Len(NameOrder), t, b, max), w \in Additions(t, Methods(b), max),
         UpsertedEntries(s, w, Len(NameOrder), t, b), UniqueActive(s)
  PROVE  SweptTo(s, Methods(b), Len(s)) = Sync(t, Methods(b), w).entries
<1> DEFINE m == Methods(b)
           n == Len(t.entries)
           N == Len(NameOrder)
           x == SweptTo(s, m, Len(s))
           z == Sync(t, m, w).entries
<1>1. /\ t \in Table /\ t.entries \in Entries /\ n \in Nat /\ DOMAIN t.entries = 1 .. n
      /\ s \in Entries /\ Len(s) = n + Len(w) /\ DOMAIN s = 1 .. Len(s) /\ Len(w) \in Nat
  BY SoundIs, EntriesAre DEF Sound, UpsertedEntries, Chosen
<1>2. GoneUpto(s, m, Len(s)) = Gone(t.entries, m) /\ Gone(t.entries, m) \subseteq 1 .. n
  <2>1. Gone(s, m) = Gone(t.entries, m) /\ Gone(s, m) \subseteq 1 .. n
    BY GoneIs
  <2>2. \A i \in Gone(s, m) : i <= Len(s)
    BY <1>1, <2>1
  <2>3. QED
    BY <2>1, <2>2 DEF GoneUpto
<1>3. /\ Len(x) = Len(s) /\ x \in Entries
      /\ \A i \in 1 .. Len(s) :
           x[i] = [name |-> s[i].name, hash |-> s[i].hash,
                   state |-> IF i \in Gone(t.entries, m) THEN "removed" ELSE s[i].state]
  BY <1>1, <1>2, SweptToIs
<1>4. /\ z \in Seq(Entry) /\ Len(z) = n + Len(w)
      /\ KeptIn(z, t, m) /\ DOMAIN w = 1 .. Len(w)
      /\ \A k \in DOMAIN w : z[n + k] = EntryOf(NameOrder[w[k]], b)
  BY <1>1, SyncEntries
<1> HIDE DEF x, z
<1>5. ASSUME NEW i \in 1 .. n PROVE x[i] = z[i]
  <2> DEFINE e == t.entries[i]
             cut == CutBy(e, N, t, b)
             up == IF cut THEN "removed" ELSE e.state
             end == IF i \in Gone(t.entries, m) THEN "removed" ELSE up
             stay == IF Stays(e, m) THEN "active" ELSE "removed"
  <2>1. s[i] = [name |-> e.name, hash |-> e.hash, state |-> up] /\ i \in 1 .. Len(s)
    <3>1. s[i] = [name |-> e.name, hash |-> e.hash, state |-> up]
      BY DEF UpsertedEntries
    <3>2. i \in 1 .. Len(s)
      BY <1>1
    <3>3. QED
      BY <3>1, <3>2
  <2>2. x[i] = [name |-> e.name, hash |-> e.hash, state |-> end]
    <3> DEFINE last == IF i \in Gone(t.entries, m) THEN "removed" ELSE s[i].state
    <3> HIDE DEF up, e
    <3>1. s[i].name = e.name /\ s[i].hash = e.hash /\ s[i].state = up
      BY <2>1
    <3>2. x[i] = [name |-> s[i].name, hash |-> s[i].hash, state |-> last]
      BY <1>3, <2>1
    <3>3. last = end
      BY <3>1
    <3> HIDE DEF last, end
    <3>4. QED
      BY <3>1, <3>2, <3>3
  <2>3. z[i] = [name |-> e.name, hash |-> e.hash, state |-> stay]
    BY <1>1, <1>4 DEF KeptIn
  <2>4. e.state \in State /\ (e.state = "active" => (cut <=> e.name \in DOMAIN m /\ ~Stays(e, m)))
    BY UpsertedState
  <2>5. i \in Gone(t.entries, m) <=> e.state = "active" /\ e.name \notin DOMAIN m
    BY <1>1 DEF Gone, Active
  <2>6. Stays(e, m) => e.state = "active" /\ e.name \in DOMAIN m
    BY DEF Stays
  <2> HIDE DEF cut, e
  <2>7. end = stay
    BY <2>4, <2>5, <2>6 DEF State
  <2>8. QED
    BY <2>2, <2>3, <2>7
<1>6. ASSUME NEW j \in 1 .. Len(w) PROVE x[n + j] = z[n + j]
  <2>1. n + j \in 1 .. Len(s) /\ n + j \notin Gone(t.entries, m)
    BY <1>1, <1>2
  <2>2. s[n + j] = EntryOf(NameOrder[w[j]], b)
    BY DEF UpsertedEntries
  <2>3. x[n + j] = [name |-> s[n + j].name, hash |-> s[n + j].hash, state |-> s[n + j].state]
    BY <1>3, <2>1
  <2>4. x[n + j] = EntryOf(NameOrder[w[j]], b)
    BY <2>2, <2>3 DEF EntryOf
  <2>5. QED
    BY <1>4, <2>4
<1>7. \A i \in 1 .. Len(s) : x[i] = z[i]
  <2> SUFFICES ASSUME NEW i \in 1 .. Len(s) PROVE x[i] = z[i]
    OBVIOUS
  <2>1. CASE i \in 1 .. n
    BY <1>5, <2>1
  <2>2. CASE i \notin 1 .. n
    <3> HIDE DEF n
    <3>1. i - n \in 1 .. Len(w) /\ n + (i - n) = i
      BY <1>1, <2>2
    <3>2. QED
      BY <1>6, <3>1
  <2>3. QED
    BY <2>1, <2>2
<1>8. x = [i \in 1 .. Len(s) |-> x[i]] /\ z = [i \in 1 .. Len(s) |-> z[i]]
  <2>1. x \in Seq(Entry) /\ Len(x) = Len(s) /\ z \in Seq(Entry) /\ Len(z) = Len(s)
    BY <1>1, <1>3, <1>4 DEF Entries
  <2>2. QED
    BY <2>1
<1>9. x = z
  BY <1>7, <1>8
<1>10. QED
  BY <1>9 DEF x, z

(* The refresh, step by step and at once. *)
LEMMA StepsAreSync ==
  ASSUME NEW t, Sound(t), NEW b \in Bindings, NEW max \in Nat, Len(t.entries) <= max,
         NEW r, r = SyncSteps(t, Methods(b), max)
  PROVE  \E w \in Additions(t, Methods(b), max) :
           /\ r.table = Sync(t, Methods(b), w)
           /\ Len(w) \in Nat /\ Gone(t.entries, Methods(b)) \subseteq 1 .. Len(t.entries)
           /\ Carries(r.delta,
                      ((Len(t.entries) + 1) .. (Len(t.entries) + Len(w))) \cup Gone(t.entries, Methods(b)),
                      r.table.entries)
<1> DEFINE m == Methods(b)
           n == Len(t.entries)
           N == Len(NameOrder)
           a == Upserted(t, m, max)
           s == a.table.entries
<1>1. PICK w : AfterUpserts(a, w, N, t, b, max)
  BY UpsertedIs
<1>2. /\ Chosen(w, N, t, b, max) /\ UpsertedEntries(s, w, N, t, b) /\ Len(w) \in Nat
      /\ a.table = TableOf(UpsertedVersion(t, Len(w)), UpsertedMinimum(t, Len(w)), s)
  BY <1>1 DEF AfterUpserts, Chosen
<1>3. w \in Additions(t, m, max)
  BY <1>2, ChosenAreAdditions
<1>4. Sound(a.table) /\ UniqueActive(s)
  <2>1. Sound(a.table)
    BY <1>1, UpsertedSound
  <2>2. QED
    BY <2>1, SoundIs
<1> DEFINE S == (n + 1) .. (n + Len(w))
           G == Gone(t.entries, m)
<1>5. Carries(a.delta, S, s)
  BY <1>1, AddedIsCarried
<1>6. Gone(s, m) = G /\ G \subseteq 1 .. n
  BY <1>2, GoneIs
<1>7. n \in Nat /\ Len(s) = n + Len(w) /\ t.version \in Nat /\ t.minimum \in Nat
      /\ t.entries \in Entries /\ DOMAIN t.entries = 1 .. n
  BY <1>2, SoundIs, EntriesAre DEF UpsertedEntries
<1>8. S \cap G = {} /\ S \subseteq 1 .. Len(s)
  BY <1>2, <1>6, <1>7
<1> HIDE DEF S, G, a
<1>9. AfterSweep(r, Len(s), a, S, m)
  <2>1. r = Swept(a, m)
    BY DEF SyncSteps, a
  <2>2. QED
    BY <1>4, <1>5, <1>6, <1>8, <2>1, SweptIs
<1>10. GoneUpto(s, m, Len(s)) = G
  <2>1. \A i \in G : i <= Len(s)
    BY <1>2, <1>6, <1>7
  <2>2. QED
    BY <1>6, <2>1 DEF GoneUpto
<1> DEFINE x == SweptTo(s, m, Len(s))
           v == t.version
           g == Cardinality(G)
           l == Len(w)
<1>11. /\ r.table = TableOf(a.table.version + g, IF a.table.version = 0 /\ G # {} THEN 1 ELSE a.table.minimum, x)
       /\ Carries(r.delta, S \cup G, x)
  BY <1>9, <1>10 DEF AfterSweep
<1>12. a.table.version = v + l /\ a.table.minimum = IF v = 0 /\ l > 0 THEN 1 ELSE t.minimum
  BY <1>2 DEF TableOf, UpsertedVersion, UpsertedMinimum
<1>13. g \in Nat /\ (G # {} <=> g > 0)
  <2>1. 1 \in Int /\ n \in Int
    BY <1>7
  <2>2. IsFiniteSet(G)
    BY <1>6, <2>1, FS_Interval, FS_Subset
  <2>3. g \in Nat /\ (g = 0 <=> G = {})
    BY <2>2, FS_CardinalityType, FS_EmptySet
  <2>4. QED
    BY <2>3
<1>14. Sync(t, m, w) = TableOf(v + (l + g), IF v = 0 /\ l + g > 0 THEN 1 ELSE t.minimum, Sync(t, m, w).entries)
  <2>1. Bumps(t, m, w) = l + g
    BY DEF Bumps, Gone, G
  <2>2. QED
    BY <2>1 DEF Sync, TableOf
<1>15. x = Sync(t, m, w).entries
  BY <1>2, <1>3, <1>4, StepsEntries
<1>16. r.table = Sync(t, m, w)
  <2> DEFINE low == IF a.table.version = 0 /\ G # {} THEN 1 ELSE a.table.minimum
  <2> HIDE DEF l, g, v, x
  <2>1. l \in Nat /\ v \in Nat
    BY <1>2, <1>7 DEF l, v
  <2>2. a.table.version + g = v + (l + g)
    BY <1>12, <1>13, <2>1
  <2>3. a.table.version = 0 <=> v = 0 /\ l = 0
    BY <1>12, <2>1
  <2>4. l + g > 0 <=> l > 0 \/ G # {}
    BY <1>13, <2>1
  <2>5. low = IF v = 0 /\ l + g > 0 THEN 1 ELSE t.minimum
    BY <1>12, <2>1, <2>3, <2>4
  <2>6. QED
    BY <1>11, <1>14, <1>15, <2>2, <2>5
<1>17. r.table.entries = x
  BY <1>11 DEF TableOf
<1>18. QED
  BY <1>2, <1>3, <1>6, <1>11, <1>16, <1>17 DEF S, G

(* A delta has as many entries as ids. *)
LEMMA CarriedIds ==
  ASSUME NEW d, NEW S, NEW c, Carries(d, S, c)
  PROVE  /\ {d[k].id : k \in DOMAIN d} = S
         /\ DOMAIN d = 1 .. Len(d) /\ Len(d) \in Nat
         /\ IsFiniteSet(S) /\ Cardinality(S) = Len(d)
<1> DEFINE l == Len(d)
           f == [k \in 1 .. l |-> d[k].id]
<1>1. /\ l \in Nat /\ d = [j \in 1 .. l |-> d[j]]
      /\ \A j \in 1 .. l : d[j].id \in S
      /\ \A i \in S : \E j \in 1 .. l : d[j].id = i
      /\ \A i, j \in 1 .. l : d[i].id = d[j].id => i = j
  BY DEF Carries
<1>2. DOMAIN d = 1 .. l
  BY <1>1
<1> HIDE DEF l
<1>3. \A k \in 1 .. l : f[k] = d[k].id
  OBVIOUS
<1>4. f \in [1 .. l -> S]
  BY <1>1
<1> HIDE DEF f
<1>5. f \in Bijection(1 .. l, S)
  <2>1. f \in Injection(1 .. l, S)
    BY <1>1, <1>3, <1>4 DEF Injection, IsInjective
  <2>2. f \in Surjection(1 .. l, S)
    BY <1>1, <1>3, <1>4 DEF Surjection
  <2>3. QED
    BY <2>1, <2>2 DEF Bijection
<1>6. IsFiniteSet(1 .. l) /\ Cardinality(1 .. l) = l
  BY <1>1, FS_Interval
<1>7. ExistsBijection(1 .. l, S)
  BY <1>5 DEF ExistsBijection
<1>8. IsFiniteSet(S) /\ Cardinality(S) = l
  BY <1>6, <1>7, FS_Bijection
<1>9. {d[k].id : k \in DOMAIN d} = S
  BY <1>1, <1>2
<1>10. QED
  BY <1>1, <1>2, <1>8, <1>9 DEF l

(* The entries c differ from those of a table in the ids of G, and are l    *)
(* longer, and a delta to a version has all that.                          *)
CarriesOver(t, l, G, c, d, v, max) ==
  /\ t \in Table /\ l \in Nat /\ G \subseteq 1 .. Len(t.entries)
  /\ c \in Entries /\ Len(c) = Len(t.entries) + l /\ UniqueActive(c)
  /\ \A i \in 1 .. Len(t.entries) : i \notin G => c[i] = t.entries[i]
  /\ Carries(d, ((Len(t.entries) + 1) .. (Len(t.entries) + l)) \cup G, c)
  /\ v \in Nat /\ v # 0 /\ v >= t.version /\ max \in Nat /\ Len(c) <= max

(* Such a delta makes one table of the other. *)
LEMMA DeltaApplies ==
  ASSUME NEW t, NEW l, NEW G, NEW c, NEW d, NEW v, NEW max, CarriesOver(t, l, G, c, d, v, max)
  PROVE  ApplyRemoteDelta(t, d, v, max).entries = c
<1> DEFINE n == Len(t.entries)
           S == ((n + 1) .. (n + l)) \cup G
           ids == {d[k].id : k \in DOMAIN d}
           all == ids \cup {n}
           size == CHOOSE x \in all : \A i \in all : i <= x
           Put(i) == IF i \in ids THEN (CHOOSE e \in {d[k] : k \in DOMAIN d} : e.id = i).entry
                     ELSE t.entries[i]
           dense == \A i \in 1 .. size : i \in ids \/ i \in DOMAIN t.entries
           entries == [i \in 1 .. size |-> Put(i)]
<1>0. /\ t \in Table /\ l \in Nat /\ G \subseteq 1 .. n
      /\ c \in Entries /\ Len(c) = n + l /\ UniqueActive(c)
      /\ \A i \in 1 .. n : i \notin G => c[i] = t.entries[i]
      /\ Carries(d, S, c)
      /\ v \in Nat /\ v # 0 /\ v >= t.version /\ max \in Nat /\ Len(c) <= max
  BY DEF CarriesOver
<1>1. /\ n \in Nat /\ DOMAIN t.entries = 1 .. n /\ t.version \in Nat
      /\ c \in Seq(Entry) /\ DOMAIN c = 1 .. Len(c) /\ Len(c) \in Nat
  BY <1>0, LenProperties DEF Table, Entries
<1>2. /\ ids = S /\ DOMAIN d = 1 .. Len(d) /\ Len(d) \in Nat
      /\ IsFiniteSet(S) /\ Cardinality(S) = Len(d)
  BY <1>0, CarriedIds
<1>3. /\ \A j \in 1 .. Len(d) : d[j].entry = c[d[j].id]
  BY <1>0 DEF Carries
<1> HIDE DEF ids, n
<1>4. size = n + l
  <2>1. n + l \in all
    <3>1. CASE l = 0
      BY <1>1, <3>1
    <3>2. CASE l # 0
      BY <1>0, <1>1, <1>2, <3>2
    <3>3. QED
      BY <3>1, <3>2
  <2>2. \A i \in all : i \in Nat /\ i <= n + l
    BY <1>0, <1>1, <1>2 DEF n
  <2> HIDE DEF all
  <2>3. size \in all /\ \A i \in all : i <= size
    BY <2>1, <2>2
  <2> HIDE DEF size
  <2>4. size \in Nat /\ size <= n + l /\ n + l <= size
    BY <2>1, <2>2, <2>3
  <2>5. QED
    BY <1>0, <1>1, <2>4
<1> HIDE DEF size
<1>5. ASSUME NEW i \in 1 .. (n + l) PROVE Put(i) = c[i] /\ (i \in ids \/ i \in DOMAIN t.entries)
  <2>1. CASE i \in ids
    <3> DEFINE e == CHOOSE e \in {d[k] : k \in DOMAIN d} : e.id = i
    <3>1. e \in {d[k] : k \in DOMAIN d} /\ e.id = i
      BY <2>1 DEF ids
    <3> HIDE DEF e
    <3>2. PICK k \in 1 .. Len(d) : e = d[k]
      BY <1>2, <3>1
    <3>3. e.entry = c[i]
      BY <1>3, <3>1, <3>2
    <3>4. QED
      BY <2>1, <3>3 DEF e
  <2>2. CASE i \notin ids
    <3>1. i \notin G /\ i \in 1 .. n
      BY <1>1, <1>2, <2>2
    <3>2. c[i] = t.entries[i]
      BY <1>0, <3>1
    <3>3. QED
      BY <1>1, <2>2, <3>1, <3>2
  <2>3. QED
    BY <2>1, <2>2
<1> HIDE DEF Put
<1>6. dense
  BY <1>4, <1>5
<1>7. entries = c
  <2>1. c = [i \in 1 .. (n + l) |-> c[i]]
    BY <1>0, <1>1
  <2>2. QED
    BY <1>4, <1>5, <2>1
<1>8. Len(d) <= max /\ Cardinality(ids) = Len(d)
  <2>1. S \subseteq 1 .. (n + l)
    <3>1. G \subseteq 1 .. n
      BY <1>0 DEF n
    <3>2. n \in Nat /\ l \in Nat
      BY <1>0, <1>1
    <3>3. (n + 1) .. (n + l) \subseteq 1 .. (n + l) /\ 1 .. n \subseteq 1 .. (n + l)
      BY <3>2
    <3>4. QED
      BY <3>1, <3>3
  <2>2. IsFiniteSet(1 .. (n + l)) /\ Cardinality(1 .. (n + l)) = n + l
    <3>1. n + l \in Nat
      BY <1>0, <1>1
    <3> DEFINE k == n + l
    <3> HIDE DEF k
    <3>2. k \in Nat
      BY <3>1 DEF k
    <3>3. IsFiniteSet(1 .. k) /\ Cardinality(1 .. k) = k
      <4>1. 1 \in Int /\ k \in Int
        BY <3>2
      <4>2. IsFiniteSet(1 .. k) /\ Cardinality(1 .. k) = IF 1 > k THEN 0 ELSE k - 1 + 1
        BY <4>1, FS_Interval
      <4>3. QED
        BY <3>2, <4>2
    <3>4. QED
      BY <3>3 DEF k
  <2>3. Cardinality(S) <= n + l
    BY <2>1, <2>2, FS_Subset
  <2>4. n + l <= max
    BY <1>0
  <2> HIDE DEF S
  <2>5. QED
    BY <1>0, <1>1, <1>2, <2>3, <2>4
<1>9. Valid(c, v, max)
  <2>1. \A i, j \in Active(c) : c[i].name = c[j].name => i = j
    BY <1>0 DEF UniqueActive
  <2>2. QED
    BY <1>0, <2>1 DEF Valid
<1>10. v # 0 /\ (t.version # 0 => v >= t.version)
  BY <1>0
<1> HIDE DEF entries, dense
<1>11. ApplyRemoteDelta(t, d, v, max)
         = [version |-> v, minimum |-> IF t.minimum = 0 THEN v ELSE t.minimum,
            entries |-> entries, index |-> Index(entries)]
  <2>1. /\ v # 0 /\ (t.version # 0 => v >= t.version) /\ Len(d) <= max /\ Cardinality(ids) = Len(d)
        /\ dense /\ Valid(entries, v, max)
    BY <1>6, <1>7, <1>8, <1>9, <1>10
  <2>2. QED
    BY <2>1 DEF ApplyRemoteDelta, entries, dense, Put, size, ids, n
<1>12. QED
  <2> DEFINE low == IF t.minimum = 0 THEN v ELSE t.minimum
  <2> HIDE DEF low
  <2>1. ApplyRemoteDelta(t, d, v, max).entries = entries
    BY <1>11 DEF low
  <2>2. QED
    BY <1>7, <2>1

LEMMA EntriesFunction ==
  ASSUME NEW s \in Entries
  PROVE  s = [i \in 1 .. Len(s) |-> s[i]]
<1>1. s \in Seq(Entry)
  BY DEF Entries
<1>2. QED
  BY <1>1

(* The delta of a refresh carries it when methods only come and go. *)
LEMMA DeltaCarries ==
  ASSUME Sound(table), Len(table.entries) <= MaxEntries, ActiveAreBound, MaxEntries <= PeerMaxEntries,
         NEW b \in Bindings, \A n \in Name : NoMethod \in {b[n], bound[n]} \/ b[n] = bound[n]
  PROVE  UpToDate(b)
<1> DEFINE m == Methods(b)
           n == Len(table.entries)
           r == SyncSteps(table, m, MaxEntries)
           G == Gone(table.entries, m)
           c == r.table.entries
<1>1. /\ table \in Table /\ MaxEntries \in Nat /\ PeerMaxEntries \in Nat /\ UniqueActive(table.entries)
      /\ table.entries \in Entries /\ n \in Nat /\ DOMAIN table.entries = 1 .. n /\ table.version \in Nat
  BY SoundIs, EntriesAre, BoundsAssumption DEF Sound
<1>2. PICK w \in Additions(table, m, MaxEntries) :
        /\ r.table = Sync(table, m, w) /\ Len(w) \in Nat /\ G \subseteq 1 .. n
        /\ Carries(r.delta, ((n + 1) .. (n + Len(w))) \cup G, c)
  BY <1>1, StepsAreSync
<1> DEFINE l == Len(w)
<1> HIDE DEF r
<1>3. /\ Len(w) = Room(table, m, MaxEntries)
      /\ c \in Entries /\ Len(c) = n + l /\ KeptIn(c, table, m)
  BY <1>1, <1>2, SyncEntries DEF Entries
<1>4. UniqueActive(c)
  BY <1>1, <1>2, SyncUnique
<1>5. Len(c) <= PeerMaxEntries
  <2>1. n + Room(table, m, MaxEntries) <= MaxEntries
    BY <1>1, RoomBound
  <2> HIDE DEF n
  <2>2. QED
    BY <1>1, <1>2, <1>3, <2>1
<1>6. ASSUME NEW i \in 1 .. n, i \notin G PROVE c[i] = table.entries[i]
  <2> DEFINE e == table.entries[i]
             state == IF Stays(e, m) THEN "active" ELSE "removed"
  <2>1. /\ e = [name |-> e.name, hash |-> e.hash, state |-> e.state]
        /\ e.name \in Name /\ e.state \in State
    BY <1>1, EntriesAre
  <2>2. c[i] = [name |-> e.name, hash |-> e.hash, state |-> state]
    BY <1>1, <1>3 DEF KeptIn
  <2>3. state = e.state
    <3>1. CASE e.state = "removed"
      BY <3>1 DEF Stays
    <3>2. CASE e.state = "active"
      <4>1. i \in Active(table.entries)
        BY <1>1, <3>2 DEF Active
      <4>2. bound[e.name] # NoMethod /\ HashOf[<<e.name, bound[e.name]>>] = e.hash
        BY <4>1 DEF ActiveAreBound
      <4>3. e.name \in DOMAIN m
        BY <1>6, <4>1 DEF Gone
      <4>4. b[e.name] # NoMethod /\ m[e.name] = b[e.name]
        BY <4>3 DEF Methods
      <4>5. b[e.name] = bound[e.name]
        BY <2>1, <4>2, <4>4
      <4>6. Stays(e, m)
        BY <3>2, <4>2, <4>3, <4>4, <4>5 DEF Stays
      <4>7. QED
        BY <3>2, <4>6
    <3>3. QED
      BY <2>1, <3>1, <3>2 DEF State
  <2> HIDE DEF state, e
  <2>4. QED
    BY <2>1, <2>2, <2>3 DEF e
<1>7. r.table.version = table.version + (l + Cardinality(G))
  BY <1>2 DEF Sync, Bumps, Gone
<1>8. Cardinality(G) \in Nat /\ (Cardinality(G) = 0 => G = {})
  <2>1. 1 \in Int /\ n \in Int
    BY <1>1
  <2>2. IsFiniteSet(G)
    BY <1>2, <2>1, FS_Interval, FS_Subset
  <2>3. QED
    BY <2>2, FS_CardinalityType, FS_EmptySet
<1> DEFINE v == r.table.version
<1> HIDE DEF G, l, c
<1>9. v \in Nat /\ v >= table.version
  BY <1>1, <1>2, <1>7, <1>8 DEF l
<1>10. ApplyRemoteDelta(table, r.delta, v, PeerMaxEntries).entries = c
  <2>1. CASE v = 0
    <3>1. l = 0 /\ G = {}
      BY <1>1, <1>2, <1>7, <1>8, <2>1 DEF l
    <3>2. Len(c) = n /\ \A i \in 1 .. n : c[i] = table.entries[i]
      BY <1>1, <1>3, <1>6, <3>1
    <3>3. c = [i \in 1 .. n |-> c[i]] /\ table.entries = [i \in 1 .. n |-> table.entries[i]]
      BY <1>1, <1>3, <3>2, EntriesFunction, Zenon
    <3>4. c = table.entries
      BY <3>2, <3>3
    <3>5. ApplyRemoteDelta(table, r.delta, v, PeerMaxEntries) = table
      BY <2>1 DEF ApplyRemoteDelta
    <3>6. QED
      BY <3>4, <3>5
  <2>2. CASE v # 0
    <3>1. G \in SUBSET (1 .. n) /\ l \in Nat
      BY <1>2 DEF G, l
    <3>2. Carries(r.delta, ((n + 1) .. (n + l)) \cup G, c)
      BY <1>2 DEF G, l, c
    <3>3. CarriesOver(table, l, G, c, r.delta, v, PeerMaxEntries)
      BY <1>1, <1>3, <1>4, <1>5, <1>6, <1>9, <2>2, <3>1, <3>2 DEF CarriesOver
    <3>4. QED
      BY <3>3, DeltaApplies
  <2>3. QED
    BY <2>1, <2>2
<1>11. QED
  BY <1>10 DEF UpToDate, r, v, c

(* No two active ids of the catalog have one name. *)
OneId == UniqueActive(table.entries)

LEMMA OneIdStep == CatalogInv /\ OneId /\ [Next]_vars => OneId'
<1> SUFFICES ASSUME CatalogInv, OneId, [Next]_vars PROVE OneId'
  OBVIOUS
<1>1. table \in Table /\ MaxEntries \in Nat
  BY Bases, BoundsAssumption
<1>2. ASSUME NEW b \in Bindings, Refresh(b) PROVE OneId'
  <2>1. PICK added \in Additions(table, Methods(b), MaxEntries) : table' = Sync(table, Methods(b), added)
    BY <1>2 DEF Refresh
  <2>2. UniqueActive(table'.entries)
    BY <1>1, <2>1, SyncUnique DEF OneId
  <2>3. QED
    BY <2>2 DEF OneId, UniqueActive, Active
<1>3. ASSUME table'.entries = table.entries PROVE OneId'
  BY <1>3 DEF OneId, UniqueActive, Active
<1>4. ASSUME NEW v \in 1 .. table.version, RaiseMinimum(v) PROVE OneId'
  BY <1>1, <1>3, <1>4 DEF RaiseMinimum, SetMinimum, Table
<1>5. ASSUME UNCHANGED table PROVE OneId'
  BY <1>3, <1>5
<1>6. CASE AskHello \/ AcceptHello \/ DecodeResponse \/ UNCHANGED vars
  BY <1>5, <1>6 DEF AskHello, AcceptHello, DecodeResponse, vars, serverVars
<1>7. ASSUME NEW allowed \in BOOLEAN, AnswerHello(allowed) PROVE OneId'
  BY <1>5, <1>7 DEF AnswerHello
<1>8. ASSUME NEW c \in Call, CallStep(c) PROVE OneId'
  BY <1>5, <1>8 DEF CallStep, EncodeRequest, Dispatch, Invoke, Reject, Retry, Fail, serverVars
<1>9. QED
  BY <1>2, <1>4, <1>6, <1>7, <1>8 DEF Next, Bindings

RefreshInv == CatalogInv /\ HandlersInv /\ OneId

LEMMA RefreshInvariant == Spec => []RefreshInv
<1>1. Init => RefreshInv
  BY InitCatalog, InitHandlers, InitVersions DEF RefreshInv, VersionInv, OneId
<1>2. RefreshInv /\ [Next]_vars => RefreshInv'
  <2>1. HandlersInv <=> OfHandlers /\ Sessions /\ RepliesOfRejected
    BY DEF HandlersInv, OfHandlers, Sessions
  <2>2. HandlersInv' <=> OfHandlers' /\ Sessions' /\ RepliesOfRejected'
    BY DEF HandlersInv, OfHandlers, Sessions
  <2>3. QED
    BY <2>1, <2>2, StepKeepsCatalog, CatalogStep, SessionStep, RejectedStep, OneIdStep DEF RefreshInv
<1>3. QED
  BY <1>1, <1>2, PTL DEF Spec

LEMMA CatalogIsSound == RefreshInv => Sound(table) /\ Len(table.entries) <= MaxEntries /\ ActiveAreBound
BY Bases DEF RefreshInv, HandlersInv, OneId, Sound, CatalogInv

LEMMA SyncIs == RefreshInv => SyncIsSteps
<1> SUFFICES ASSUME RefreshInv, NEW b \in Bindings
             PROVE  {Sync(table, Methods(b), added) : added \in Additions(table, Methods(b), MaxEntries)}
                      = {SyncSteps(table, Methods(b), MaxEntries).table}
  BY DEF SyncIsSteps, Bindings
<1>1. Sound(table) /\ Len(table.entries) <= MaxEntries /\ MaxEntries \in Nat /\ table \in Table
  BY CatalogIsSound, BoundsAssumption DEF Sound
<1>2. PICK w \in Additions(table, Methods(b), MaxEntries) :
        SyncSteps(table, Methods(b), MaxEntries).table = Sync(table, Methods(b), w)
  <2>1. PICK r : r = SyncSteps(table, Methods(b), MaxEntries)
    OBVIOUS
  <2>2. \E w \in Additions(table, Methods(b), MaxEntries) :
           /\ r.table = Sync(table, Methods(b), w)
           /\ Len(w) \in Nat /\ Gone(table.entries, Methods(b)) \subseteq 1 .. Len(table.entries)
           /\ Carries(r.delta,
                      ((Len(table.entries) + 1) .. (Len(table.entries) + Len(w)))
                        \cup Gone(table.entries, Methods(b)),
                      r.table.entries)
    BY <1>1, <2>1, StepsAreSync
  <2>3. QED
    BY <2>1, <2>2
<1>3. \A added \in Additions(table, Methods(b), MaxEntries) : added = w
  BY <1>1, OneAddition
<1>4. QED
  BY <1>2, <1>3

(* refreshMethodCatalog, one upsert or removal after the other, leaves the *)
(* table that the closed form of the model gives, whatever the catalog     *)
(* went through before and whatever the new list of methods is.            *)
THEOREM RefreshStepByStep == Spec => []SyncIsSteps
BY RefreshInvariant, SyncIs, PTL

(* And a copy that applies the delta of a refresh has the new catalog when *)
(* methods only came or went, if the peer takes tables as large as ours.   *)
THEOREM RefreshDeltaSuffices ==
  ASSUME MaxEntries <= PeerMaxEntries
  PROVE  Spec => []RefreshIsSteps
<1>1. RefreshInv => DeltaCarriesBindings
  BY CatalogIsSound, DeltaCarries DEF DeltaCarriesBindings, Bindings
<1>2. RefreshInv => RefreshIsSteps
  BY <1>1, SyncIs DEF RefreshIsSteps
<1>3. QED
  BY <1>2, RefreshInvariant, PTL
============================================================================
