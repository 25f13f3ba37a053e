-------------------------- MODULE LocalCorpusProofs ---------------------------
(***************************************************************************)
(* The laptop stores, for any documents, tenants, built-in corpus, number  *)
(* of requests, failures and restarts.                                     *)
(*                                                                         *)
(* None of the properties is inductive as it stands: each of them must be  *)
(* said of the change left open on a connection as well, because a later   *)
(* write commits it, and of what the requests in flight may still do.      *)
(***************************************************************************)
EXTENDS LocalCorpus, TLAPS

\* What a request in flight can be: who asks for what, and where each kind of
\* request can have got to.
Shaped ==
    \A r \in Requests : InFlight(r) =>
        /\ req[r].op # "none"
        /\ Served(r) => req[r].key[2] \in Tenants
        /\ ~Served(r) => req[r].key[2] = Shared
        /\ pc[r] \in {"hide", "recordFailure"} => req[r].op = "refresh"
        /\ pc[r] \in {"hide", "screen", "add", "put", "record"} => ~req[r].deletes
        /\ pc[r] \in {"dropBlocks", "dropLedger"} => req[r].deletes
        /\ pc[r] \in Seedings => ~Served(r)
        /\ req[r].op = "cli" => ~req[r].deletes

\* A change the API has open differs from the file only in rows of the owners
\* it names; a refresh run's is of all owners.
OpenChangeIsTheirs ==
    txn.conn # "none" /\ txn.by = 0 =>
        \A row \in Rows : row.owner \notin txn.owners =>
            /\ row \in txn.db.index <=> row \in db.index
            /\ row \in txn.db.blocks <=> row \in db.blocks

\* A request counted as alone shares its document with no other in flight.
AloneIsAlone ==
    \A r, s \in Requests :
        (InFlight(r) /\ alone[r] /\ InFlight(s) /\ s # r) => req[s].key[1] # req[r].key[1]

\* While somebody fills a table, no request but the filling one is counted as
\* alone, and no built-in key as erased.
FillingIsAlone ==
    /\ api \in Seedings => \A r \in Requests : InFlight(r) => ~alone[r]
    /\ \A r, s \in Requests : pc[r] \in Seedings /\ InFlight(s) /\ s # r => ~alone[s]
    /\ Filling => erased \cap Seeds = {}

\* What the tables d hold for request r once it has come to this label.
Wanted(r) == IF req[r].deletes THEN {} ELSE {Row(req[r].key, r)}
Reached(label, r, d) ==
    /\ label = "add" => Of(d.index, req[r].key) = {}
    /\ label \in {"put", "record", "dropBlocks", "dropLedger", "audit"}
         => Of(d.index, req[r].key) = Wanted(r)
    /\ label \in {"record", "dropLedger", "audit"} => Of(d.blocks, req[r].key) = Wanted(r)
OnLedger(r) ==
    IF req[r].deletes
    THEN ledger[req[r].key] = NoRow
    ELSE ledger[req[r].key].rev = r /\ ledger[req[r].key].state \in {"fresh", "expired"}

\* A request counted as alone finds its own work as it left it, in the file
\* and in whatever change is open.
WorkIsKept ==
    \A r \in Requests : InFlight(r) /\ alone[r] =>
        /\ Reached(pc[r], r, db)
        /\ txn.conn # "none" => Reached(pc[r], r, txn.db)
        /\ pc[r] = "audit" => OnLedger(r)

\* What is erased is in no table, open or committed, and no request in flight
\* can bring it back.
Clean(d, k) == Of(d.index, k) = {} /\ Of(d.blocks, k) = {}
ErasedIsGone ==
    \A k \in erased :
        /\ Clean(db, k)
        /\ txn.conn # "none" => Clean(txn.db, k)
        /\ ledger[k] = NoRow
        /\ \A r \in Requests : InFlight(r) /\ req[r].key = k
              => req[r].deletes /\ req[r].op # "refresh"
-----------------------------------------------------------------------------
(***************************************************************************)
(* The operators.                                                          *)
(***************************************************************************)
RequestKind == [op : {"none", "ingest", "delete", "cli", "refresh"}, key : Keys, deletes : BOOLEAN]
LedgerRow == [state : {"absent", "fresh", "failed", "expired"}, rev : 0..MaxRequests,
              authority : {"direct", "registry"}]
OpenChange == [conn : {"none", "index", "blocks"}, by : 0..MaxRequests, owners : SUBSET Owners,
               db : Tables]

ControlOK ==
    /\ req \in [Requests -> RequestKind]
    /\ pc \in [Requests -> Busy \cup Over \cup {"idle"}]
    /\ alone \in [Requests -> BOOLEAN]
StoresOK ==
    /\ db \in Tables
    /\ txn \in OpenChange
    /\ ledger \in [Keys -> LedgerRow]

\* The built-in rows are rows, and a key is its document and its owner.
LEMMA RowsAreTyped ==
    /\ SeedRows \subseteq Rows
    /\ \A k \in Keys : k[1] \in Docs /\ k[2] \in Owners /\ k = <<k[1], k[2]>>
    /\ \A k \in Keys, n \in 0..MaxRequests :
          Row(k, n) \in Rows /\ KeyOf(Row(k, n)) = k /\ Row(k, n).owner = k[2] /\ Row(k, n).doc = k[1]
    /\ \A row \in Rows : KeyOf(row) \in Keys /\ row.doc \in Docs /\ row.owner \in Owners
<1>1. \A k \in Keys : k[1] \in Docs /\ k[2] \in Owners /\ k = <<k[1], k[2]>>
      BY DEF Keys
<1>2. ASSUME NEW k \in Keys, NEW n \in 0..MaxRequests
      PROVE  Row(k, n) \in Rows /\ KeyOf(Row(k, n)) = k /\ Row(k, n).owner = k[2] /\ Row(k, n).doc = k[1]
      BY <1>1 DEF Row, Rows, KeyOf
<1>3. 0 \in 0..MaxRequests
      BY LocalAssumption
<1>4. SeedRows \subseteq Rows
      BY <1>2, <1>3, LocalAssumption DEF SeedRows
<1>5. \A row \in Rows : KeyOf(row) \in Keys /\ row.doc \in Docs /\ row.owner \in Owners
      BY DEF Rows, KeyOf, Keys
<1>6. QED
      BY <1>1, <1>2, <1>4, <1>5

\* Seeding a pair of tables gives a pair of tables.
LEMMA SeedingIsTyped ==
    \A d \in Tables : SeedIndex(d) \in Tables /\ SeedBlocks(d) \in Tables
<1>1. SeedRows \subseteq Rows
      BY RowsAreTyped
<1>2. QED
      BY <1>1 DEF SeedIndex, SeedBlocks, Tables

\* Seeding brings in rows of the built-in keys only.
LEMMA SeedsAreReseeded ==
    ASSUME NEW d \in Tables, NEW k \in Keys, k \notin Seeds, Clean(d, k)
    PROVE  Clean(SeedIndex(d), k) /\ Clean(SeedBlocks(d), k)
<1>1. 0 \in 0..MaxRequests /\ Seeds \subseteq Keys
      BY LocalAssumption
<1>2. \A row \in SeedRows : KeyOf(row) \in Seeds
      BY <1>1, RowsAreTyped DEF SeedRows
<1>3. Of(SeedRows, k) = {}
      BY <1>2 DEF Of
<1>4. SeedIndex(d).index = SeedRows /\ SeedIndex(d).blocks = d.blocks
      BY DEF SeedIndex, Tables
<1>5. /\ SeedBlocks(d).index = d.index
      /\ SeedBlocks(d).blocks = {row \in d.blocks : KeyOf(row) \notin Seeds} \cup SeedRows
      BY DEF SeedBlocks, Tables
<1>6. QED
      BY <1>3, <1>4, <1>5 DEF Clean, Of

\* The idle values are values of their kind.
LEMMA IdleIsTyped ==
    /\ NoRequest \in RequestKind
    /\ NoTxn \in OpenChange /\ NoTxn.conn = "none" /\ NoTxn.by = 0
    /\ NoRow \in LedgerRow /\ FailedRow \in LedgerRow
    /\ \A r \in Requests, a \in {"direct", "registry"} :
          Fresh(r, a) \in LedgerRow /\ Fresh(r, a).rev = r /\ Fresh(r, a).state = "fresh"
    /\ EmptyDb \in Tables
<1>1. EmptyDb \in Tables
      BY DEF EmptyDb, Tables
<1>2. NoTxn \in OpenChange /\ NoTxn.conn = "none" /\ NoTxn.by = 0
      BY <1>1, LocalAssumption DEF NoTxn, OpenChange
<1>3. 0 \in 0..MaxRequests /\ Requests \subseteq 0..MaxRequests
      BY LocalAssumption DEF Requests
<1>4. NoRow \in LedgerRow /\ FailedRow \in LedgerRow
      BY <1>3 DEF NoRow, FailedRow, LedgerRow
<1>5. \A r \in Requests, a \in {"direct", "registry"} :
          Fresh(r, a) \in LedgerRow /\ Fresh(r, a).rev = r /\ Fresh(r, a).state = "fresh"
      BY <1>3 DEF Fresh, LedgerRow
<1>6. (CHOOSE d \in Docs : TRUE) \in Docs
      BY LocalAssumption
<1>7. <<CHOOSE d \in Docs : TRUE, Shared>> \in Keys
      BY <1>6 DEF Keys, Owners
<1>8. NoRequest \in RequestKind
      BY <1>7 DEF NoRequest, RequestKind
<1>9. QED
      BY <1>1, <1>2, <1>4, <1>5, <1>8

-----------------------------------------------------------------------------
(***************************************************************************)
(* The control of a request: what every step leaves to the others.         *)
(***************************************************************************)
\* No request starts; those in flight keep what they ask for, and those
\* outside R keep their place.
Onward(R) ==
    \A s \in Requests :
        /\ s \notin R => pc'[s] = pc[s]
        /\ InFlight(s)' => InFlight(s) /\ req'[s] = req[s] /\ (alone'[s] => alone[s])

\* A request that moves on.
LEMMA Moved ==
    ASSUME ControlOK, NEW r \in Requests, InFlight(r), NEW label \in Busy,
           Goto(r, label), UNCHANGED <<req, alone>>
    PROVE  ControlOK' /\ Onward({r}) /\ pc'[r] = label
BY DEF ControlOK, Goto, Onward, InFlight

\* A request that is over.
LEMMA Ended ==
    ASSUME ControlOK, NEW r \in Requests, NEW what \in Over, Replies(r, what)
    PROVE  ControlOK' /\ Onward({r}) /\ pc'[r] = what /\ ~InFlight(r)'
<1>1. /\ pc' = [pc EXCEPT ![r] = what]
      /\ req' = [req EXCEPT ![r] = NoRequest]
      /\ alone' = [alone EXCEPT ![r] = TRUE]
      BY DEF Replies, Goto
<1>2. what \notin Busy
      BY DEF Over, Busy, Seedings
<1>3. NoRequest \in RequestKind
      BY IdleIsTyped
<1>4. pc'[r] = what /\ ~InFlight(r)'
      BY <1>1, <1>2 DEF ControlOK, InFlight
<1>5. Onward({r})
      BY <1>1, <1>4 DEF ControlOK, Onward, InFlight
<1>6. req' \in [Requests -> RequestKind]
      BY <1>1, <1>3 DEF ControlOK
<1>7. alone' \in [Requests -> BOOLEAN]
      BY <1>1 DEF ControlOK
<1>8. pc' \in [Requests -> Busy \cup Over \cup {"idle"}]
      BY <1>1 DEF ControlOK
<1>9. QED
      BY <1>4, <1>5, <1>6, <1>7, <1>8 DEF ControlOK

\* A request whose call raises.
LEMMA Escaped ==
    ASSUME ControlOK, NEW r \in Requests, InFlight(r), Escapes(r)
    PROVE  /\ ControlOK' /\ Onward({r})
           /\ \/ pc'[r] = "error" /\ ~InFlight(r)'
              \/ pc'[r] = "recordFailure" /\ req[r].op = "refresh"
<1>1. CASE req[r].op = "refresh" /\ pc[r] \notin Seedings \cup {"recordFailure"}
      BY <1>1, Moved DEF Escapes, Busy
<1>2. CASE ~(req[r].op = "refresh" /\ pc[r] \notin Seedings \cup {"recordFailure"})
      BY <1>2, Ended DEF Escapes, Over
<1>3. QED
      BY <1>1, <1>2

\* A request that arrives.
LEMMA Begun ==
    ASSUME ControlOK, erased \subseteq Keys, NEW r \in Requests, NEW k \in Keys,
           NEW op \in {"ingest", "delete", "cli", "refresh"},
           NEW deletes \in BOOLEAN, NEW label \in Busy,
           Begin(r, op, k, deletes, label)
    PROVE  /\ ControlOK'
           /\ ~InFlight(r) /\ pc'[r] = label
           /\ req'[r] = [op |-> op, key |-> k, deletes |-> deletes]
           /\ \A s \in Requests : s # r => pc'[s] = pc[s] /\ req'[s] = req[s]
           /\ \A s \in Requests : s # r /\ InFlight(s) /\ alone'[s] =>
                 alone[s] /\ label \notin Seedings /\ req[s].key[1] # k[1]
           /\ alone'[r] => ~Filling
           /\ alone'[r] => \A s \in Requests :
                 s # r /\ InFlight(s) => label \notin Seedings /\ req[s].key[1] # k[1]
           /\ erased' \subseteq erased
           /\ ~deletes => k \notin erased'
           /\ label \in Seedings /\ Vacant => erased' \cap Seeds = {}
<1> DEFINE others ==
        {s \in Requests \ {r} : InFlight(s) /\ (req[s].key[1] = k[1] \/ label \in Seedings)}
<1>1. /\ pc[r] = "idle"
      /\ req' = [req EXCEPT ![r] = [op |-> op, key |-> k, deletes |-> deletes]]
      /\ pc' = [pc EXCEPT ![r] = label]
      /\ alone' = [s \in Requests |-> IF s = r THEN others = {} /\ ~Filling ELSE alone[s] /\ s \notin others]
      /\ erased' = (erased \ (IF deletes THEN {} ELSE {k}))
                     \ (IF label \in Seedings /\ Vacant THEN Seeds ELSE {})
      BY DEF Begin, Goto
<1>2. [op |-> op, key |-> k, deletes |-> deletes] \in RequestKind
      BY DEF RequestKind
<1>3. req' \in [Requests -> RequestKind] /\ pc' \in [Requests -> Busy \cup Over \cup {"idle"}]
      BY <1>1, <1>2 DEF ControlOK
<1>4. \A s \in Requests : (IF s = r THEN others = {} /\ ~Filling ELSE alone[s] /\ s \notin others) \in BOOLEAN
  <2>1. (others = {} /\ ~Filling) \in BOOLEAN
        BY Zenon
  <2>2. \A s \in Requests : (alone[s] /\ s \notin others) \in BOOLEAN
        BY Zenon
  <2> HIDE DEF others
  <2>3. QED
        BY <2>1, <2>2
<1>5. alone' \in [Requests -> BOOLEAN]
  <2> HIDE DEF others
  <2>1. QED
        BY <1>1, <1>4
<1>6. ~InFlight(r) /\ pc'[r] = label
      BY <1>1 DEF ControlOK, InFlight, Busy, Seedings
<1>7. req'[r] = [op |-> op, key |-> k, deletes |-> deletes]
      BY <1>1 DEF ControlOK
<1>8. \A s \in Requests : s # r => pc'[s] = pc[s] /\ req'[s] = req[s]
      BY <1>1 DEF ControlOK
<1>9. ASSUME NEW s \in Requests, s # r, InFlight(s), alone'[s]
      PROVE  alone[s] /\ label \notin Seedings /\ req[s].key[1] # k[1]
  <2>1. alone'[s] = (alone[s] /\ s \notin others)
    <3> HIDE DEF others
    <3>1. QED
          BY <1>1, <1>9
  <2>2. alone[s] /\ s \notin others
        BY <2>1, <1>9, Zenon
  <2>3. QED
        BY <2>2, <1>9
<1>10. ASSUME alone'[r], NEW s \in Requests, s # r, InFlight(s)
       PROVE  label \notin Seedings /\ req[s].key[1] # k[1]
  <2>1. alone'[r] = (others = {} /\ ~Filling)
    <3> HIDE DEF others
    <3>1. QED
          BY <1>1
  <2>2. others = {}
        BY <2>1, <1>10, Zenon
  <2>3. QED
        BY <2>2, <1>10
<1>11. /\ erased' \subseteq erased
       /\ ~deletes => k \notin erased'
       /\ label \in Seedings /\ Vacant => erased' \cap Seeds = {}
       BY <1>1
<1>12. alone'[r] => ~Filling
  <2>1. alone'[r] = (others = {} /\ ~Filling)
    <3> HIDE DEF others
    <3>1. QED
          BY <1>1
  <2>2. QED
        BY <2>1, Zenon
<1>13. QED
       BY <1>3, <1>5, <1>6, <1>7, <1>8, <1>9, <1>10, <1>11, <1>12 DEF ControlOK

-----------------------------------------------------------------------------
(***************************************************************************)
(* What a store call makes of the tables it sees.                          *)
(***************************************************************************)
Reaches(k, row) == row.doc = k[1] /\ (k[2] = Shared \/ row.owner = k[2])

\* Tables e are d, changed only where k reaches; what is new is the row that
\* request r brings, if it brings one.
Edits(r, d, e) ==
    \A row \in Rows :
        /\ ~Reaches(req[r].key, row) =>
              (row \in e.index <=> row \in d.index) /\ (row \in e.blocks <=> row \in d.blocks)
        /\ (row \in e.index /\ row \notin d.index) \/ (row \in e.blocks /\ row \notin d.blocks) =>
              ~req[r].deletes /\ KeyOf(row) = req[r].key

StoreCall(r) == DropIndex(r) \/ Add(r) \/ Put(r) \/ DropBlocks(r)

\* The index's delete removes the passages within the request's reach, all of its key's among them.
LEMMA DropIndexEdits ==
    ASSUME ControlOK, NEW r \in Requests, NEW d \in Tables, pc[r] = "dropIndex",
           NEW e, e = [d EXCEPT !.index = @ \ InScope(@, req[r].key)]
    PROVE  /\ e \in Tables
           /\ Edits(r, d, e)
           /\ Of(e.index, req[r].key) = {}
<1>1. e.index = d.index \ InScope(d.index, req[r].key) /\ e.blocks = d.blocks /\ e \in Tables
      BY DEF Tables, InScope
<1>2. d.index \subseteq Rows /\ d.blocks \subseteq Rows
      BY DEF Tables
<1>3. req[r].key \in Keys
      BY DEF ControlOK, RequestKind
<1>4. \A row \in Rows : row \in e.index <=> row \in d.index /\ ~Reaches(req[r].key, row)
      BY <1>1, <1>2 DEF InScope, Reaches
<1>5. Edits(r, d, e)
      BY <1>1, <1>4 DEF Edits
<1>6. ASSUME NEW row \in d.index, KeyOf(row) = req[r].key PROVE Reaches(req[r].key, row)
      BY <1>6, <1>2, <1>3, RowsAreTyped DEF KeyOf, Reaches
<1>7. Of(e.index, req[r].key) = {}
      BY <1>1, <1>2, <1>4, <1>6 DEF Of
<1>8. QED
      BY <1>1, <1>5, <1>7

\* Adding a passage after the delete leaves exactly the request's own.
LEMMA AddEdits ==
    ASSUME ControlOK, NEW r \in Requests, NEW d \in Tables, ~req[r].deletes,
           NEW e, e = [d EXCEPT !.index = @ \cup {Row(req[r].key, r)}]
    PROVE  /\ e \in Tables
           /\ Edits(r, d, e)
           /\ Of(d.index, req[r].key) = {} => Of(e.index, req[r].key) = Wanted(r)
<1> DEFINE mine == Row(req[r].key, r)
<1>1. req[r].key \in Keys /\ r \in 0..MaxRequests
      BY LocalAssumption DEF ControlOK, RequestKind, Requests
<1>2. mine \in Rows /\ KeyOf(mine) = req[r].key /\ Reaches(req[r].key, mine)
  <2>1. mine.doc = req[r].key[1] /\ mine.owner = req[r].key[2]
        BY <1>1, RowsAreTyped
  <2>2. QED
        BY <2>1, <1>1, RowsAreTyped DEF Reaches
<1>3. e.index = d.index \cup {mine} /\ e.blocks = d.blocks
      BY DEF Tables
<1> HIDE DEF mine
<1>4. e \in Tables
      BY <1>2, <1>3 DEF Tables, mine
<1>5. Edits(r, d, e)
      BY <1>2, <1>3 DEF Edits
<1>6. Of(d.index, req[r].key) = {} => Of(e.index, req[r].key) = {mine}
      BY <1>2, <1>3 DEF Of
<1>7. QED
      BY <1>4, <1>5, <1>6 DEF Wanted, mine

\* Putting the request's own block where the key has none leaves exactly that one.
LEMMA PutEdits ==
    ASSUME ControlOK, NEW r \in Requests, NEW d \in Tables, ~req[r].deletes,
           Of(d.blocks, req[r].key) = {},
           NEW e, e = [d EXCEPT !.blocks = @ \cup {Row(req[r].key, r)}]
    PROVE  /\ e \in Tables
           /\ Edits(r, d, e)
           /\ e.index = d.index /\ Of(e.blocks, req[r].key) = Wanted(r)
<1> DEFINE mine == Row(req[r].key, r)
<1>1. req[r].key \in Keys /\ r \in 0..MaxRequests
      BY LocalAssumption DEF ControlOK, RequestKind, Requests
<1>2. mine \in Rows /\ KeyOf(mine) = req[r].key /\ Reaches(req[r].key, mine)
  <2>1. mine.doc = req[r].key[1] /\ mine.owner = req[r].key[2]
        BY <1>1, RowsAreTyped
  <2>2. QED
        BY <2>1, <1>1, RowsAreTyped DEF Reaches
<1>3. e.blocks = d.blocks \cup {mine} /\ e.index = d.index
      BY DEF Tables
<1>4. d.blocks \subseteq Rows
      BY DEF Tables
<1> HIDE DEF mine
<1>5. e \in Tables
      BY <1>2, <1>3, <1>4 DEF Tables, mine
<1>6. Edits(r, d, e)
      BY <1>2, <1>3 DEF Edits
<1>7. Of(e.blocks, req[r].key) = {mine}
      BY <1>2, <1>3 DEF Of
<1>8. QED
      BY <1>3, <1>5, <1>6, <1>7 DEF Wanted, mine

\* The block store's delete removes the key's blocks.
LEMMA DropBlocksEdits ==
    ASSUME ControlOK, NEW r \in Requests, NEW d \in Tables,
           NEW e, e = [d EXCEPT !.blocks = @ \ Of(@, req[r].key)]
    PROVE  /\ e \in Tables
           /\ Edits(r, d, e)
           /\ e.index = d.index /\ Of(e.blocks, req[r].key) = {}
<1>1. req[r].key \in Keys
      BY DEF ControlOK, RequestKind
<1>2. e.blocks = d.blocks \ Of(d.blocks, req[r].key) /\ e.index = d.index
      BY DEF Tables
<1>3. d.blocks \subseteq Rows
      BY DEF Tables
<1>4. \A row \in d.blocks : KeyOf(row) = req[r].key => Reaches(req[r].key, row)
      BY <1>1, <1>3, RowsAreTyped DEF KeyOf, Reaches
<1>5. e \in Tables
      BY <1>2, <1>3 DEF Tables
<1>6. Edits(r, d, e)
      BY <1>2, <1>4, <1>3 DEF Edits, Of
<1>7. Of(e.blocks, req[r].key) = {}
      BY <1>2 DEF Of
<1>8. QED
      BY <1>2, <1>5, <1>6, <1>7

\* What is edited twice is edited.
LEMMA EditsTwice ==
    ASSUME NEW r, NEW d, NEW e, NEW f, Edits(r, d, e), Edits(r, e, f)
    PROVE  Edits(r, d, f)
BY DEF Edits

\* Edits of one document leave the others' rows.
LEMMA EditsSpareOthers ==
    ASSUME ControlOK, NEW r \in Requests, NEW d \in Tables, NEW e \in Tables, Edits(r, d, e)
    PROVE  /\ \A k \in Keys : k[1] # req[r].key[1] =>
                 Of(e.index, k) = Of(d.index, k) /\ Of(e.blocks, k) = Of(d.blocks, k)
           /\ \A k \in Keys : (req[r].key = k => req[r].deletes) =>
                 Of(e.index, k) \subseteq Of(d.index, k) /\ Of(e.blocks, k) \subseteq Of(d.blocks, k)
<1>1. e.index \subseteq Rows /\ e.blocks \subseteq Rows /\ d.index \subseteq Rows /\ d.blocks \subseteq Rows
      BY DEF Tables
<1>2. ASSUME NEW k \in Keys, k[1] # req[r].key[1]
      PROVE  Of(e.index, k) = Of(d.index, k) /\ Of(e.blocks, k) = Of(d.blocks, k)
  <2>1. ASSUME NEW row \in Rows, KeyOf(row) = k
        PROVE  (row \in e.index <=> row \in d.index) /\ (row \in e.blocks <=> row \in d.blocks)
    <3>1. row.doc = k[1]
          BY <2>1, <1>2, RowsAreTyped DEF KeyOf
    <3>2. ~Reaches(req[r].key, row)
          BY <3>1, <1>2 DEF Reaches
    <3>3. QED
          BY <3>2 DEF Edits
  <2>2. QED
        BY <1>1, <2>1 DEF Of
<1>3. ASSUME NEW k \in Keys, req[r].key = k => req[r].deletes
      PROVE  Of(e.index, k) \subseteq Of(d.index, k) /\ Of(e.blocks, k) \subseteq Of(d.blocks, k)
      BY <1>1, <1>3 DEF Edits, Of
<1>4. QED
      BY <1>2, <1>3

\* What a connection sees is a pair of tables: the file, or the API's open change.
LEMMA SeenIsTyped ==
    ASSUME StoresOK, NEW r \in Requests, NEW table \in {"index", "blocks"}, Writable(r, table)
    PROVE  /\ Seen \in Tables
           /\ \/ Seen = db /\ txn.conn = "none"
              \/ Seen = txn.db /\ txn.conn # "none" /\ txn.by = 0
BY DEF StoresOK, OpenChange, Seen, Writable

\* The stores, after a write of request r: new is committed, or some of it
\* stays open and the request reports it.
Written(r, half, new, next) ==
    \/ /\ db' = new /\ txn' = NoTxn
       /\ pc'[r] = next /\ req' = req /\ alone' = alone
    \/ /\ db' = db
       /\ InFlight(r)' => pc'[r] = "recordFailure" /\ req[r].op = "refresh"
       /\ txn'.db \in {half, new} /\ txn'.conn # "none"
       /\ txn'.by = (IF Served(r) THEN 0 ELSE r)
       /\ txn'.owners = txn.owners \cup {req[r].key[2]}

\* A write of the shared file is committed, with what its connection had left open, or
\* stays open, in part or in whole.
LEMMA WritesEffect ==
    ASSUME ControlOK, StoresOK, NEW r \in Requests, InFlight(r),
           NEW table \in {"index", "blocks"}, NEW half \in Tables, NEW new \in Tables,
           NEW next \in Busy, Writes(r, table, half, new, next)
    PROVE  /\ ControlOK' /\ StoresOK'
           /\ Onward({r})
           /\ Written(r, half, new, next)
           /\ UNCHANGED <<ledger, registered, trail, api, erased>>
<1>1. UNCHANGED <<ledger, registered, trail, api, erased>>
      BY DEF Writes
<1>2. req[r].key \in Keys /\ req[r].key[2] \in Owners
      BY RowsAreTyped DEF ControlOK, RequestKind
<1>3. CASE db' = new /\ txn' = NoTxn /\ Goto(r, next) /\ UNCHANGED <<req, alone, faults>>
  <2>1. ControlOK' /\ Onward({r}) /\ pc'[r] = next
        BY <1>3, Moved
  <2>2. StoresOK'
        BY <1>3, <1>1, IdleIsTyped DEF StoresOK
  <2>3. Written(r, half, new, next)
        BY <1>3, <2>1 DEF Written
  <2>4. QED
        BY <1>1, <2>1, <2>2, <2>3
<1>4. ASSUME Escapes(r), UNCHANGED db, NEW left \in {half, new},
             txn' = [conn |-> table, by |-> IF Served(r) THEN 0 ELSE r,
                     owners |-> txn.owners \cup {req[r].key[2]}, db |-> left]
      PROVE  ControlOK' /\ StoresOK' /\ Onward({r}) /\ Written(r, half, new, next)
  <2>1. /\ ControlOK' /\ Onward({r})
        /\ InFlight(r)' => pc'[r] = "recordFailure" /\ req[r].op = "refresh"
        BY <1>4, Escaped
  <2>2. txn.owners \cup {req[r].key[2]} \in SUBSET Owners
        BY <1>2 DEF StoresOK, OpenChange
  <2>3. (IF Served(r) THEN 0 ELSE r) \in 0..MaxRequests
        BY LocalAssumption DEF Requests
  <2>4. txn' \in OpenChange
        BY <1>4, <2>2, <2>3 DEF OpenChange
  <2>5. StoresOK'
        BY <1>4, <1>1, <2>4 DEF StoresOK
  <2>6. /\ txn'.db = left /\ txn'.conn # "none" /\ txn'.by = (IF Served(r) THEN 0 ELSE r)
        /\ txn'.owners = txn.owners \cup {req[r].key[2]}
        BY <1>4
  <2>7. Written(r, half, new, next)
        BY <1>4, <2>1, <2>6 DEF Written
  <2>8. QED
        BY <2>1, <2>5, <2>7
<1>5. QED
      BY <1>1, <1>3, <1>4 DEF Writes

\* Every store call: it edits the tables its connection sees, and where its
\* request was on its way it still is.
LEMMA StoreCallEffect ==
    ASSUME ControlOK, StoresOK, Shaped, NEW r \in Requests, StoreCall(r)
    PROVE  \E half \in Tables, new \in Tables, next \in Busy :
              /\ InFlight(r) /\ Seen \in Tables
              /\ \/ Seen = db /\ txn.conn = "none"
                 \/ Seen = txn.db /\ txn.conn # "none" /\ txn.by = 0
              /\ ControlOK' /\ StoresOK'
              /\ Onward({r})
              /\ Written(r, half, new, next)
              /\ UNCHANGED <<ledger, registered, trail, api, erased>>
              /\ Edits(r, Seen, half) /\ Edits(r, Seen, new)
              /\ Reached(pc[r], r, Seen) => Reached(next, r, new)
              /\ next \in {"add", "put", "record", "dropBlocks", "dropLedger"}
              /\ next \in {"add", "put", "record"} => ~req[r].deletes
              /\ next \in {"dropBlocks", "dropLedger"} => req[r].deletes
<1> DEFINE seen == Seen
<1>1. ASSUME NEW table \in {"index", "blocks"}, Writable(r, table)
      PROVE  /\ seen \in Tables
             /\ \/ seen = db /\ txn.conn = "none"
                \/ seen = txn.db /\ txn.conn # "none" /\ txn.by = 0
      BY <1>1, SeenIsTyped
<1>2. Edits(r, seen, seen)
      BY DEF Edits
<1>3. CASE DropIndex(r)
  <2> DEFINE new == [seen EXCEPT !.index = @ \ InScope(@, req[r].key)]
             next == IF req[r].deletes THEN "dropBlocks" ELSE "add"
  <2>1. pc[r] = "dropIndex" /\ Writes(r, "index", seen, new, next)
        BY <1>3 DEF DropIndex
  <2>2. InFlight(r) /\ next \in Busy /\ Writable(r, "index")
        BY <2>1 DEF InFlight, Busy, Writes
  <2> HIDE DEF seen
  <2>3. /\ seen \in Tables
        /\ \/ seen = db /\ txn.conn = "none"
           \/ seen = txn.db /\ txn.conn # "none" /\ txn.by = 0
        BY <1>1, <2>2
  <2>4. new \in Tables /\ Edits(r, seen, new) /\ Of(new.index, req[r].key) = {}
        BY <2>1, <2>3, DropIndexEdits
  <2>5. Reached(next, r, new)
        BY <2>4 DEF Reached, Wanted
  <2>6. /\ next \in {"add", "put", "record", "dropBlocks", "dropLedger"}
        /\ next \in {"add", "put", "record"} => ~req[r].deletes
        /\ next \in {"dropBlocks", "dropLedger"} => req[r].deletes
        BY DEF next
  <2> HIDE DEF new, next
  <2>7. ControlOK' /\ StoresOK' /\ Onward({r}) /\ Written(r, seen, new, next)
           /\ UNCHANGED <<ledger, registered, trail, api, erased>>
        BY <2>1, <2>2, <2>3, <2>4, WritesEffect
  <2>8. QED
        BY <1>2, <2>2, <2>3, <2>4, <2>5, <2>6, <2>7 DEF seen
<1>4. CASE Add(r)
  <2> DEFINE new == [seen EXCEPT !.index = @ \cup {Row(req[r].key, r)}]
             next == "put"
  <2>1. pc[r] = "add" /\ Writes(r, "index", seen, new, next)
        BY <1>4 DEF Add
  <2>2. InFlight(r) /\ next \in Busy /\ Writable(r, "index")
        BY <2>1 DEF InFlight, Busy, Writes
  <2> HIDE DEF seen
  <2>3. /\ seen \in Tables
        /\ \/ seen = db /\ txn.conn = "none"
           \/ seen = txn.db /\ txn.conn # "none" /\ txn.by = 0
        BY <1>1, <2>2
  <2>4. ~req[r].deletes
        BY <2>1, <2>2 DEF Shaped
  <2>5. /\ new \in Tables /\ Edits(r, seen, new)
        /\ Of(seen.index, req[r].key) = {} => Of(new.index, req[r].key) = Wanted(r)
        BY <2>3, <2>4, AddEdits
  <2>6. Reached(pc[r], r, seen) => Reached(next, r, new)
        BY <2>1, <2>5 DEF Reached
  <2> HIDE DEF new
  <2>7. ControlOK' /\ StoresOK' /\ Onward({r}) /\ Written(r, seen, new, next)
           /\ UNCHANGED <<ledger, registered, trail, api, erased>>
        BY <2>1, <2>2, <2>3, <2>5, WritesEffect
  <2>8. QED
        BY <1>2, <2>2, <2>3, <2>4, <2>5, <2>6, <2>7 DEF seen
<1>5. CASE Put(r)
  <2> DEFINE half == [seen EXCEPT !.blocks = @ \ Of(@, req[r].key)]
             new == [half EXCEPT !.blocks = @ \cup {Row(req[r].key, r)}]
             next == "record"
  <2>1. pc[r] = "put" /\ Writes(r, "blocks", half, new, next)
        BY <1>5 DEF Put
  <2>2. InFlight(r) /\ next \in Busy /\ Writable(r, "blocks")
        BY <2>1 DEF InFlight, Busy, Writes
  <2> HIDE DEF seen
  <2>3. /\ seen \in Tables
        /\ \/ seen = db /\ txn.conn = "none"
           \/ seen = txn.db /\ txn.conn # "none" /\ txn.by = 0
        BY <1>1, <2>2
  <2>4. ~req[r].deletes
        BY <2>1, <2>2 DEF Shaped
  <2>5. /\ half \in Tables /\ Edits(r, seen, half)
        /\ half.index = seen.index /\ Of(half.blocks, req[r].key) = {}
        BY <2>3, DropBlocksEdits
  <2> HIDE DEF half
  <2>6. /\ new \in Tables /\ Edits(r, half, new)
        /\ new.index = half.index /\ Of(new.blocks, req[r].key) = Wanted(r)
        BY <2>4, <2>5, PutEdits
  <2>7. Reached(pc[r], r, seen) => Reached(next, r, new)
        BY <2>1, <2>5, <2>6 DEF Reached
  <2> HIDE DEF new
  <2>8. ControlOK' /\ StoresOK' /\ Onward({r}) /\ Written(r, half, new, next)
           /\ UNCHANGED <<ledger, registered, trail, api, erased>>
        BY <2>1, <2>2, <2>5, <2>6, WritesEffect
  <2>9. Edits(r, seen, new)
        BY <2>5, <2>6, EditsTwice
  <2>10. QED
        BY <2>2, <2>3, <2>4, <2>5, <2>6, <2>7, <2>8, <2>9 DEF seen
<1>6. CASE DropBlocks(r)
  <2> DEFINE new == [seen EXCEPT !.blocks = @ \ Of(@, req[r].key)]
             next == "dropLedger"
  <2>1. pc[r] = "dropBlocks" /\ Writes(r, "blocks", seen, new, next)
        BY <1>6 DEF DropBlocks
  <2>2. InFlight(r) /\ next \in Busy /\ Writable(r, "blocks")
        BY <2>1 DEF InFlight, Busy, Writes
  <2> HIDE DEF seen
  <2>3. /\ seen \in Tables
        /\ \/ seen = db /\ txn.conn = "none"
           \/ seen = txn.db /\ txn.conn # "none" /\ txn.by = 0
        BY <1>1, <2>2
  <2>4. req[r].deletes
        BY <2>1, <2>2 DEF Shaped
  <2>5. /\ new \in Tables /\ Edits(r, seen, new)
        /\ new.index = seen.index /\ Of(new.blocks, req[r].key) = {}
        BY <2>3, DropBlocksEdits
  <2>6. Reached(pc[r], r, seen) => Reached(next, r, new)
        BY <2>1, <2>4, <2>5 DEF Reached, Wanted
  <2> HIDE DEF new
  <2>7. ControlOK' /\ StoresOK' /\ Onward({r}) /\ Written(r, seen, new, next)
           /\ UNCHANGED <<ledger, registered, trail, api, erased>>
        BY <2>1, <2>2, <2>3, <2>5, WritesEffect
  <2>8. QED
        BY <1>2, <2>2, <2>3, <2>4, <2>5, <2>6, <2>7 DEF seen
<1>7. QED
      BY <1>3, <1>4, <1>5, <1>6 DEF StoreCall

-----------------------------------------------------------------------------
(***************************************************************************)
(* What every other step does.                                             *)
(***************************************************************************)
\* A request passes the screening, or ends, or fails, without a store call.
Quiet(r) == Screen(r) \/ Blocked(r) \/ Fails(r) \/ Locked(r) \/ Killed(r)

\* Calls that write nothing, and exceptions, leave the stores alone, but for a change rolled
\* back with its process, and never report success.
LEMMA QuietEffect ==
    ASSUME ControlOK, NEW r \in Requests, Quiet(r)
    PROVE  /\ ControlOK' /\ Onward({r}) /\ InFlight(r)
           /\ UNCHANGED <<db, ledger, registered, api, erased>>
           /\ txn' = txn \/ txn' = NoTxn
           /\ pc'[r] # "ok"
           /\ InFlight(r)' =>
                 \/ pc'[r] = "dropIndex"
                 \/ pc'[r] = "recordFailure" /\ req[r].op = "refresh"
<1>1. CASE Screen(r)
  <2>1. InFlight(r) /\ Goto(r, "dropIndex") /\ UNCHANGED <<req, alone>> /\ "dropIndex" \in Busy
        BY <1>1 DEF Screen, InFlight, Busy, history
  <2>2. ControlOK' /\ Onward({r}) /\ pc'[r] = "dropIndex"
        BY <2>1, Moved
  <2>3. QED
        BY <1>1, <2>1, <2>2 DEF Screen, stores, history
<1>2. CASE Blocked(r)
  <2>1. InFlight(r) /\ (Replies(r, "blocked") \/ Escapes(r)) /\ "blocked" \in Over
        BY <1>2 DEF Blocked, InFlight, Busy, Over
  <2>2. /\ ControlOK' /\ Onward({r}) /\ pc'[r] # "ok"
        /\ InFlight(r)' => pc'[r] = "recordFailure" /\ req[r].op = "refresh"
        BY <2>1, Ended, Escaped
  <2>3. QED
        BY <1>2, <2>1, <2>2 DEF Blocked, stores
<1>3. CASE Fails(r)
      BY <1>3, Escaped DEF Fails, stores
<1>4. CASE Locked(r)
  <2>1. InFlight(r) /\ Escapes(r)
        BY <1>4 DEF Locked, InFlight, Busy
  <2>2. QED
        BY <1>4, <2>1, Escaped DEF Locked, stores
<1>5. CASE Killed(r)
  <2>1. "lost" \in Over
        BY DEF Over
  <2>2. QED
        BY <1>5, <2>1, Ended DEF Killed, stores
<1>6. QED
      BY <1>1, <1>2, <1>3, <1>4, <1>5 DEF Quiet

\* A request writes the row of its key, and goes on or is over.
LedgerCall(r) == Hide(r) \/ Record(r) \/ DropLedger(r) \/ RecordFailure(r)

\* A call of the ledger touches the request's own row.
LEMMA LedgerCallEffect ==
    ASSUME ControlOK, StoresOK, Shaped, NEW r \in Requests, LedgerCall(r)
    PROVE  /\ ControlOK' /\ StoresOK' /\ Onward({r}) /\ InFlight(r)
           /\ UNCHANGED <<db, txn, registered, trail, api, erased>>
           /\ \A k \in Keys : k # req[r].key => ledger'[k] = ledger[k]
           /\ req[r].deletes /\ req[r].op # "refresh" => ledger'[req[r].key] = NoRow
           /\ InFlight(r)' =>
                 \/ pc[r] = "hide" /\ pc'[r] = "screen"
                 \/ pc[r] = "record" /\ pc'[r] = "audit" /\ OnLedger(r)'
                 \/ pc[r] = "dropLedger" /\ pc'[r] = "audit" /\ OnLedger(r)'
<1> DEFINE k == req[r].key
<1>1. k \in Keys
      BY DEF ControlOK, RequestKind
<1>2. ASSUME NEW v \in LedgerRow, ledger' = [ledger EXCEPT ![k] = v]
      PROVE  /\ ledger' \in [Keys -> LedgerRow] /\ ledger'[k] = v
             /\ \A j \in Keys : j # k => ledger'[j] = ledger[j]
      BY <1>1, <1>2 DEF StoresOK
<1>3. CASE Hide(r)
  <2>1. /\ InFlight(r) /\ Goto(r, "screen") /\ UNCHANGED <<req, alone>> /\ "screen" \in Busy
        /\ pc[r] = "hide" /\ UNCHANGED <<db, txn, registered, trail, api, erased>>
        /\ ledger' = [ledger EXCEPT ![k] = FailedRow]
        BY <1>3 DEF Hide, InFlight, Busy, history
  <2>2. ControlOK' /\ Onward({r}) /\ pc'[r] = "screen"
        BY <2>1, Moved
  <2>3. StoresOK' /\ \A j \in Keys : j # k => ledger'[j] = ledger[j]
        BY <1>2, <2>1, IdleIsTyped DEF StoresOK
  <2>4. req[r].op = "refresh"
        BY <2>1 DEF Shaped
  <2>5. QED
        BY <2>1, <2>2, <2>3, <2>4
<1>4. CASE Record(r)
  <2> DEFINE v == Fresh(r, IF req[r].op = "refresh" THEN "registry" ELSE "direct")
  <2>1. /\ InFlight(r) /\ Goto(r, "audit") /\ UNCHANGED <<req, alone>> /\ "audit" \in Busy
        /\ pc[r] = "record" /\ UNCHANGED <<db, txn, registered, trail, api, erased>>
        /\ ledger' = [ledger EXCEPT ![k] = v]
        BY <1>4 DEF Record, InFlight, Busy, history
  <2>2. ControlOK' /\ Onward({r}) /\ pc'[r] = "audit"
        BY <2>1, Moved
  <2>3. v \in LedgerRow /\ v.rev = r /\ v.state = "fresh"
        BY IdleIsTyped
  <2>4. ~req[r].deletes
        BY <2>1 DEF Shaped
  <2> HIDE DEF v
  <2>5. StoresOK' /\ ledger'[k] = v /\ \A j \in Keys : j # k => ledger'[j] = ledger[j]
        BY <1>2, <2>1, <2>3 DEF StoresOK
  <2>6. OnLedger(r)'
        BY <2>1, <2>3, <2>4, <2>5 DEF OnLedger
  <2>7. QED
        BY <2>1, <2>2, <2>4, <2>5, <2>6
<1>5. CASE DropLedger(r)
  <2>1. /\ InFlight(r) /\ Goto(r, "audit") /\ UNCHANGED <<req, alone>> /\ "audit" \in Busy
        /\ pc[r] = "dropLedger" /\ UNCHANGED <<db, txn, registered, trail, api, erased>>
        /\ ledger' = [ledger EXCEPT ![k] = NoRow]
        BY <1>5 DEF DropLedger, InFlight, Busy, history
  <2>2. ControlOK' /\ Onward({r}) /\ pc'[r] = "audit"
        BY <2>1, Moved
  <2>3. StoresOK' /\ ledger'[k] = NoRow /\ \A j \in Keys : j # k => ledger'[j] = ledger[j]
        BY <1>2, <2>1, IdleIsTyped DEF StoresOK
  <2>4. req[r].deletes
        BY <2>1 DEF Shaped
  <2>5. OnLedger(r)'
        BY <2>1, <2>3, <2>4 DEF OnLedger
  <2>6. QED
        BY <2>1, <2>2, <2>3, <2>5
<1>6. CASE RecordFailure(r)
  <2>1. /\ InFlight(r) /\ Replies(r, "error") /\ "error" \in Over
        /\ pc[r] = "recordFailure" /\ UNCHANGED <<db, txn, registered, trail, api, erased>>
        /\ ledger' = [ledger EXCEPT ![k] = FailedRow]
        BY <1>6 DEF RecordFailure, InFlight, Busy, Over
  <2>2. ControlOK' /\ Onward({r}) /\ ~InFlight(r)'
        BY <2>1, Ended
  <2>3. StoresOK' /\ \A j \in Keys : j # k => ledger'[j] = ledger[j]
        BY <1>2, <2>1, IdleIsTyped DEF StoresOK
  <2>4. req[r].op = "refresh"
        BY <2>1 DEF Shaped
  <2>5. QED
        BY <2>1, <2>2, <2>3, <2>4
<1>7. QED
      BY <1>3, <1>4, <1>5, <1>6 DEF LedgerCall

\* The last step of a request that did all it was asked.
LEMMA AuditEffect ==
    ASSUME ControlOK, NEW r \in Requests, Audit(r)
    PROVE  /\ ControlOK' /\ Onward({r}) /\ InFlight(r) /\ ~InFlight(r)'
           /\ UNCHANGED <<db, txn, ledger, registered, api>>
           /\ erased' = IF req[r].deletes /\ alone[r] THEN erased \cup {req[r].key} ELSE erased
<1>1. InFlight(r) /\ "ok" \in Over
      BY DEF Audit, InFlight, Busy, Over
<1>2. QED
      BY <1>1, Ended DEF Audit, stores

\* A process that fills a table it found empty, in its constructor.
LEMMA FillEffect ==
    ASSUME ControlOK, StoresOK, Shaped, NEW r \in Requests, Fill(r)
    PROVE  /\ ControlOK' /\ StoresOK' /\ Onward({r}) /\ InFlight(r)
           /\ pc[r] \in Seedings /\ txn.conn = "none" /\ ~Served(r)
           /\ db' = SeedIndex(db) \/ db' = SeedBlocks(db)
           /\ UNCHANGED <<txn, ledger, registered, trail, api, alone, erased>>
           /\ pc'[r] \in Seedings \cup {"hide", "screen", "dropIndex"}
           /\ pc'[r] = "hide" => req[r].op = "refresh"
           /\ pc'[r] \in {"hide", "screen"} => ~req[r].deletes
<1>1. /\ pc[r] \in Seedings /\ txn.conn = "none"
      /\ UNCHANGED <<txn, ledger, registered, trail, req, api, alone, erased>>
      /\ db' = SeedIndex(db) \/ db' = SeedBlocks(db)
      /\ Goto(r, OpensBlocks(db, FirstCall(r))) \/ Goto(r, FirstCall(r))
      BY DEF Fill, history
<1>2. InFlight(r) /\ ~Served(r)
  <2>1. InFlight(r)
        BY <1>1 DEF InFlight, Busy
  <2>2. QED
        BY <1>1, <2>1 DEF Shaped
<1>3. StoresOK'
      BY <1>1, SeedingIsTyped DEF StoresOK
<1> DEFINE label == FirstCall(r)
<1>4. /\ label \in {"hide", "screen", "dropIndex"}
      /\ label = "hide" => req[r].op = "refresh"
      /\ label \in {"hide", "screen"} => ~req[r].deletes
  <2>1. req[r].op \in {"cli", "refresh"} /\ (req[r].op = "cli" => ~req[r].deletes)
        BY <1>2 DEF Shaped, Served, ControlOK, RequestKind
  <2>2. QED
        BY <2>1 DEF FirstCall
<1> HIDE DEF label
<1>5. PICK next \in {label, "seedBlocks"} : Goto(r, next)
      BY <1>1 DEF OpensBlocks, label
<1>6. next \in Busy
      BY <1>4 DEF Busy, Seedings
<1>7. ControlOK' /\ Onward({r}) /\ pc'[r] = next
      BY <1>1, <1>2, <1>5, <1>6, Moved
<1>8. QED
      BY <1>1, <1>2, <1>3, <1>4, <1>7 DEF Seedings

\* The API process ends and starts again.
LEMMA RestartEffect ==
    ASSUME ControlOK, StoresOK, Restart
    PROVE  /\ ControlOK' /\ StoresOK' /\ Onward(Requests)
           /\ \A s \in Requests : pc'[s] = pc[s] \/ pc'[s] = "lost"
           /\ api' \in Seedings => \A s \in Requests : InFlight(s)' => ~alone'[s]
           /\ txn' = txn \/ txn' = NoTxn
           /\ UNCHANGED <<db, ledger, registered, trail>>
           /\ erased' = IF api' \in Seedings THEN erased \ Seeds ELSE erased
           /\ api' \in Seedings \cup {"up"}
<1> DEFINE gone == {r \in Requests : InFlight(r) /\ Served(r)}
           seeds == api' \in Seedings
<1>1. /\ pc' = [r \in Requests |-> IF r \in gone THEN "lost" ELSE pc[r]]
      /\ req' = [r \in Requests |-> IF r \in gone THEN NoRequest ELSE req[r]]
      /\ alone' = [r \in Requests |-> r \in gone \/ (alone[r] /\ ~(seeds /\ InFlight(r)))]
      /\ txn' = txn \/ txn' = NoTxn
      /\ UNCHANGED <<db, ledger, registered, trail>>
      /\ erased' = IF Vacant THEN erased \ Seeds ELSE erased
      BY DEF Restart
<1>2. \A r \in Requests : (r \in gone \/ (alone[r] /\ ~(seeds /\ InFlight(r)))) \in BOOLEAN
      BY Zenon
<1>3. api' \in Seedings \cup {"up"} /\ (Vacant <=> seeds)
      BY DEF Restart, Opens, OpensBlocks, Seedings, Vacant
<1> HIDE DEF gone, seeds
<1>4. alone' \in [Requests -> BOOLEAN]
      BY <1>1, <1>2
<1>5. req' \in [Requests -> RequestKind]
      BY <1>1, IdleIsTyped DEF ControlOK
<1>6. pc' \in [Requests -> Busy \cup Over \cup {"idle"}]
      BY <1>1 DEF ControlOK, Over
<1>7. \A s \in Requests : pc'[s] = IF s \in gone THEN "lost" ELSE pc[s]
      BY <1>1
<1>8. \A s \in Requests : InFlight(s)' => s \notin gone /\ pc'[s] = pc[s] /\ InFlight(s)
      BY <1>7 DEF InFlight, Busy, Seedings
<1>9. ASSUME NEW s \in Requests, InFlight(s)'
      PROVE  req'[s] = req[s] /\ (alone'[s] => alone[s] /\ ~seeds)
  <2>1. s \notin gone /\ InFlight(s)
        BY <1>8, <1>9
  <2>2. req'[s] = req[s]
        BY <1>1, <2>1
  <2>3. alone'[s] = (s \in gone \/ (alone[s] /\ ~(seeds /\ InFlight(s))))
        BY <1>1
  <2>4. alone'[s] => alone[s] /\ ~seeds
        BY <2>1, <2>3, Zenon
  <2>5. QED
        BY <2>2, <2>4
<1>10. Onward(Requests)
      BY <1>8, <1>9 DEF Onward
<1>11. StoresOK'
      BY <1>1, IdleIsTyped DEF StoresOK
<1>12. QED
      BY <1>1, <1>3, <1>4, <1>5, <1>6, <1>7, <1>9, <1>10, <1>11 DEF ControlOK, seeds

\* A request arrives: what the four ways to ask have in common.
Arrives(r) == ApiIngest(r) \/ ApiDelete(r) \/ CliIngest(r) \/ CliRefresh(r)

\* A request begins at its first call; a command-line run may have a table to fill first.
LEMMA ArrivesEffect ==
    ASSUME NEW r \in Requests, Arrives(r)
    PROVE  \E k \in Keys, op \in {"ingest", "delete", "cli", "refresh"}, deletes \in BOOLEAN,
              label \in Seedings \cup {"hide", "screen", "dropIndex"} :
              /\ Begin(r, op, k, deletes, label)
              /\ UNCHANGED <<db, txn, ledger, registered, trail, api>>
              /\ op \in {"ingest", "delete"} => k[2] \in Tenants /\ api = "up" /\ label \notin Seedings
              /\ op \in {"cli", "refresh"} => k[2] = Shared
              /\ label \in Seedings => Vacant
              /\ op = "cli" => ~deletes
              /\ label = "hide" => op = "refresh"
              /\ label \in {"hide", "screen"} => ~deletes
              /\ op = "refresh" /\ deletes => ledger[k] # NoRow
<1>1. \A d \in Docs, o \in Owners : <<d, o>> \in Keys
      BY DEF Keys
<1>2. Tenants \subseteq Owners /\ Shared \in Owners
      BY DEF Owners
<1>3. \A label : /\ Opens(db, label) \in Seedings \cup {label}
                 /\ Opens(db, label) # label => Vacant
      BY DEF Opens, OpensBlocks, Seedings, Vacant
<1>4. UNCHANGED <<db, txn, ledger, registered, trail, api>>
      BY DEF Arrives, ApiIngest, ApiDelete, CliIngest, CliRefresh, stores
<1>5. "screen" \notin Seedings /\ "dropIndex" \notin Seedings /\ "hide" \notin Seedings
      BY DEF Seedings
<1>6. CASE ApiIngest(r)
  <2>1. PICK d \in Docs, t \in Tenants : Begin(r, "ingest", <<d, t>>, FALSE, "screen") /\ api = "up"
        BY <1>6 DEF ApiIngest
  <2>2. <<d, t>> \in Keys /\ <<d, t>>[2] \in Tenants
        BY <1>1, <1>2
  <2>3. QED
        BY <1>4, <1>5, <2>1, <2>2
<1>7. CASE ApiDelete(r)
  <2>1. PICK d \in Docs, t \in Tenants : Begin(r, "delete", <<d, t>>, TRUE, "dropIndex") /\ api = "up"
        BY <1>7 DEF ApiDelete
  <2>2. <<d, t>> \in Keys /\ <<d, t>>[2] \in Tenants
        BY <1>1, <1>2
  <2>3. QED
        BY <1>4, <1>5, <2>1, <2>2
<1>8. CASE CliIngest(r)
  <2>1. PICK d \in Docs : Begin(r, "cli", <<d, Shared>>, FALSE, Opens(db, "screen"))
        BY <1>8 DEF CliIngest
  <2>2. <<d, Shared>> \in Keys /\ <<d, Shared>>[2] = Shared
        BY <1>1, <1>2
  <2>3. QED
        BY <1>3, <1>4, <1>5, <2>1, <2>2
<1>9. CASE CliRefresh(r)
  <2>1. PICK d \in Docs :
           \/ Begin(r, "refresh", <<d, Shared>>, FALSE, Opens(db, "hide"))
           \/ Withdrawn(d) /\ Begin(r, "refresh", <<d, Shared>>, TRUE, Opens(db, "dropIndex"))
        BY <1>9 DEF CliRefresh
  <2>2. <<d, Shared>> \in Keys /\ <<d, Shared>>[2] = Shared
        BY <1>1, <1>2
  <2>3. Withdrawn(d) => ledger[<<d, Shared>>] # NoRow
        BY DEF Withdrawn, NoRow
  <2>4. CASE Begin(r, "refresh", <<d, Shared>>, FALSE, Opens(db, "hide"))
        BY <1>3, <1>4, <1>5, <2>2, <2>4
  <2>5. CASE Withdrawn(d) /\ Begin(r, "refresh", <<d, Shared>>, TRUE, Opens(db, "dropIndex"))
    <3> DEFINE label == Opens(db, "dropIndex")
    <3>1. /\ label \in Seedings \cup {"dropIndex"} /\ label \notin {"hide", "screen"}
          /\ label \in Seedings => Vacant
          BY <1>3, <1>5
    <3> HIDE DEF label
    <3>2. Begin(r, "refresh", <<d, Shared>>, TRUE, label)
          BY <2>5 DEF label
    <3>3. QED
          BY <1>4, <2>2, <2>3, <2>5, <3>1, <3>2
  <2>6. QED
        BY <2>1, <2>4, <2>5
<1>10. QED
      BY <1>6, <1>7, <1>8, <1>9 DEF Arrives

-----------------------------------------------------------------------------
(***************************************************************************)
(* The inductive invariant, kept by each kind of step.                     *)
(***************************************************************************)
LInv ==
    /\ ControlOK /\ StoresOK /\ erased \subseteq Keys
    /\ Shaped
    /\ OpenChangeIsTheirs
    /\ AloneIsAlone
    /\ FillingIsAlone
    /\ WorkIsKept
    /\ ErasedIsGone

\* At first no request is in flight and nothing is open or erased.
LEMMA LInvInit == Init => LInv
<1> SUFFICES ASSUME Init PROVE LInv
    OBVIOUS
<1>1. \A r \in Requests : ~InFlight(r)
      BY DEF Init, InFlight, Busy, Seedings
<1>2. ControlOK
      BY IdleIsTyped DEF Init, ControlOK
<1>3. EmptyLedger \in [Keys -> LedgerRow]
      BY IdleIsTyped DEF EmptyLedger
<1>4. StoresOK
      BY <1>3, IdleIsTyped, SeedingIsTyped DEF Init, StoresOK
<1>5. txn.conn = "none" /\ erased = {}
      BY IdleIsTyped DEF Init
<1>6. api \notin Seedings /\ \A r \in Requests : pc[r] \notin Seedings
      BY DEF Init, Seedings
<1>7. FillingIsAlone
      BY <1>5, <1>6 DEF FillingIsAlone
<1>8. QED
      BY <1>1, <1>2, <1>4, <1>5, <1>7
         DEF LInv, Shaped, OpenChangeIsTheirs, AloneIsAlone, WorkIsKept, ErasedIsGone

\* Where no request starts, the requests counted as alone stay alone.
LEMMA OnwardStaysAlone ==
    ASSUME AloneIsAlone, NEW R, Onward(R)
    PROVE  AloneIsAlone'
BY DEF AloneIsAlone, Onward

\* Where no request starts to fill a table, those that fill one still do so alone.
LEMMA OnwardFillsAlone ==
    ASSUME FillingIsAlone, NEW r, Onward({r}), UNCHANGED <<api, erased>>,
           r \in Requests /\ pc'[r] \in Seedings => pc[r] \in Seedings
    PROVE  FillingIsAlone'
<1>1. \A q \in Requests : pc'[q] \in Seedings => pc[q] \in Seedings
      BY DEF Onward
<1>2. Filling' => Filling
      BY <1>1 DEF Filling
<1>3. ASSUME api' \in Seedings, NEW q \in Requests, InFlight(q)' PROVE ~alone'[q]
      BY <1>3 DEF FillingIsAlone, Onward
<1>4. ASSUME NEW q \in Requests, NEW s \in Requests, pc'[q] \in Seedings, InFlight(s)', s # q
      PROVE  ~alone'[s]
      BY <1>1, <1>4 DEF FillingIsAlone, Onward
<1>5. QED
      BY <1>2, <1>3, <1>4 DEF FillingIsAlone

\* Where only request r moves, and to a place it may be at, requests stay shaped.
LEMMA OnwardStaysShaped ==
    ASSUME Shaped, NEW r, Onward({r}),
           r \in Requests /\ InFlight(r)' =>
               /\ pc'[r] \in {"hide", "recordFailure"} => req[r].op = "refresh"
               /\ pc'[r] \in {"hide", "screen", "add", "put", "record"} => ~req[r].deletes
               /\ pc'[r] \in {"dropBlocks", "dropLedger"} => req[r].deletes
               /\ pc'[r] \in Seedings => ~Served(r)
    PROVE  Shaped'
<1> SUFFICES ASSUME NEW s \in Requests, InFlight(s)'
             PROVE  (/\ req[s].op # "none"
                     /\ Served(s) => req[s].key[2] \in Tenants
                     /\ ~Served(s) => req[s].key[2] = Shared
                     /\ pc[s] \in {"hide", "recordFailure"} => req[s].op = "refresh"
                     /\ pc[s] \in {"hide", "screen", "add", "put", "record"} => ~req[s].deletes
                     /\ pc[s] \in {"dropBlocks", "dropLedger"} => req[s].deletes
                     /\ pc[s] \in Seedings => ~Served(s)
                     /\ req[s].op = "cli" => ~req[s].deletes)'
    BY DEF Shaped
<1>1. InFlight(s) /\ req'[s] = req[s] /\ (s # r => pc'[s] = pc[s])
      BY DEF Onward
<1>2. Served(s)' <=> Served(s)
      BY <1>1 DEF Served
<1>3. CASE s = r
      BY <1>1, <1>2, <1>3 DEF Shaped
<1>4. CASE s # r
      BY <1>1, <1>2, <1>4 DEF Shaped
<1>5. QED
      BY <1>3, <1>4

\* Where the tables and the ledger stand still and only r moves, to a place
\* before its writes or out, everybody's work is kept.
LEMMA OnwardKeepsWork ==
    ASSUME WorkIsKept, NEW r, Onward({r}), UNCHANGED <<db, ledger>>, txn' = txn \/ txn' = NoTxn,
           r \in Requests /\ InFlight(r)' => pc'[r] \in {"dropIndex", "screen", "recordFailure"}
    PROVE  WorkIsKept'
<1> SUFFICES ASSUME NEW s \in Requests, InFlight(s)', alone'[s]
             PROVE  (/\ Reached(pc[s], s, db)
                     /\ txn.conn # "none" => Reached(pc[s], s, txn.db)
                     /\ pc[s] = "audit" => OnLedger(s))'
    BY DEF WorkIsKept
<1>1. InFlight(s) /\ req'[s] = req[s] /\ alone[s] /\ (s # r => pc'[s] = pc[s])
      BY DEF Onward
<1>2. txn'.conn # "none" => txn' = txn
      BY IdleIsTyped
<1>3. CASE s = r
      BY <1>3 DEF Reached
<1>4. CASE s # r
      BY <1>1, <1>2, <1>4 DEF WorkIsKept, Reached, Wanted, OnLedger
<1>5. QED
      BY <1>3, <1>4

\* Where the stores stand still, what is erased stays gone.
LEMMA OnwardKeepsErased ==
    ASSUME ErasedIsGone, NEW R, Onward(R), UNCHANGED <<db, ledger, erased>>,
           txn' = txn \/ txn' = NoTxn
    PROVE  ErasedIsGone'
<1>1. txn'.conn # "none" => txn' = txn
      BY IdleIsTyped
<1>2. QED
      BY <1>1 DEF ErasedIsGone, Onward, Clean

\* Calls that write nothing, and exceptions, keep the invariant.
LEMMA QuietKeeps ==
    ASSUME LInv, NEW r \in Requests, Quiet(r)
    PROVE  LInv'
<1> USE DEF LInv
<1>1. /\ ControlOK' /\ Onward({r}) /\ UNCHANGED <<db, ledger, api, erased>>
      /\ txn' = txn \/ txn' = NoTxn
      /\ InFlight(r)' =>
            pc'[r] = "dropIndex" \/ (pc'[r] = "recordFailure" /\ req[r].op = "refresh")
      BY QuietEffect
<1>2. StoresOK' /\ OpenChangeIsTheirs' /\ (erased \subseteq Keys)'
      BY <1>1, IdleIsTyped DEF StoresOK, OpenChangeIsTheirs
<1>3. pc'[r] \notin Seedings
      BY <1>1 DEF InFlight, Busy, Seedings
<1>4. Shaped'
      BY <1>1, <1>3, OnwardStaysShaped
<1>5. AloneIsAlone' /\ FillingIsAlone'
      BY <1>1, <1>3, OnwardStaysAlone, OnwardFillsAlone
<1>6. WorkIsKept'
      BY <1>1, OnwardKeepsWork
<1>7. ErasedIsGone'
      BY <1>1, OnwardKeepsErased
<1>8. QED
      BY <1>1, <1>2, <1>4, <1>5, <1>6, <1>7

\* So does the audit record, with which a lone delete has erased its key.
LEMMA AuditKeeps ==
    ASSUME LInv, NEW r \in Requests, Audit(r)
    PROVE  LInv'
<1> USE DEF LInv
<1>1. /\ ControlOK' /\ Onward({r}) /\ InFlight(r) /\ ~InFlight(r)'
      /\ UNCHANGED <<db, txn, ledger, api>>
      /\ erased' = IF req[r].deletes /\ alone[r] THEN erased \cup {req[r].key} ELSE erased
      BY AuditEffect
<1>2. req[r].key \in Keys
      BY DEF ControlOK, RequestKind
<1>3. StoresOK' /\ OpenChangeIsTheirs' /\ (erased \subseteq Keys)'
      BY <1>1, <1>2 DEF StoresOK, OpenChangeIsTheirs
<1>4. Shaped' /\ AloneIsAlone' /\ WorkIsKept'
      BY <1>1, OnwardStaysShaped, OnwardStaysAlone, OnwardKeepsWork
<1>5. ASSUME req[r].deletes, alone[r]
      PROVE  /\ Clean(db, req[r].key)
             /\ txn.conn # "none" => Clean(txn.db, req[r].key)
             /\ ledger[req[r].key] = NoRow
             /\ \A s \in Requests : InFlight(s)' => req'[s].key # req[r].key
  <2>1. pc[r] = "audit"
        BY DEF Audit
  <2>2. /\ Reached("audit", r, db)
        /\ txn.conn # "none" => Reached("audit", r, txn.db)
        /\ OnLedger(r)
        BY <1>1, <1>5, <2>1 DEF WorkIsKept
  <2>3. ASSUME NEW s \in Requests, InFlight(s)' PROVE req'[s].key # req[r].key
    <3>1. s # r /\ InFlight(s) /\ req'[s] = req[s]
          BY <1>1, <2>3 DEF Onward
    <3>2. QED
          BY <1>1, <1>5, <3>1 DEF AloneIsAlone
  <2>4. QED
        BY <1>5, <2>2, <2>3 DEF Reached, Wanted, OnLedger, Clean
<1>6. FillingIsAlone'
  <2>1. pc[r] = "audit" /\ pc'[r] \notin Seedings /\ pc[r] \notin Seedings
        BY <1>1 DEF Audit, InFlight, Busy, Seedings
  <2>2. \A q \in Requests : pc'[q] \in Seedings => pc[q] \in Seedings
        BY <1>1, <2>1 DEF Onward
  <2>3. ASSUME Filling' PROVE erased' = erased /\ Filling
    <3>1. api \in Seedings \/ \E q \in Requests \ {r} : pc[q] \in Seedings
          BY <1>1, <2>1, <2>2, <2>3 DEF Filling
    <3>2. ~alone[r]
          BY <1>1, <3>1 DEF FillingIsAlone
    <3>3. QED
          BY <1>1, <3>1, <3>2 DEF Filling
  <2>4. QED
        BY <1>1, <2>2, <2>3 DEF FillingIsAlone, Onward
<1>7. ErasedIsGone'
  <2> SUFFICES ASSUME NEW k \in erased'
               PROVE  /\ Clean(db, k)
                      /\ txn.conn # "none" => Clean(txn.db, k)
                      /\ ledger[k] = NoRow
                      /\ \A s \in Requests : InFlight(s)' /\ req'[s].key = k
                            => req'[s].deletes /\ req'[s].op # "refresh"
      BY <1>1 DEF ErasedIsGone, Clean
  <2>1. CASE k \in erased
        BY <1>1, <2>1 DEF ErasedIsGone, Onward
  <2>2. CASE k \notin erased
        BY <1>1, <1>5, <2>2
  <2>3. QED
        BY <2>1, <2>2
<1>8. QED
      BY <1>1, <1>3, <1>4, <1>6, <1>7

\* So do the calls of the ledger.
LEMMA LedgerCallKeeps ==
    ASSUME LInv, NEW r \in Requests, LedgerCall(r)
    PROVE  LInv'
<1> USE DEF LInv
<1>1. /\ ControlOK' /\ StoresOK' /\ Onward({r}) /\ InFlight(r)
      /\ UNCHANGED <<db, txn, api, erased>>
      /\ \A k \in Keys : k # req[r].key => ledger'[k] = ledger[k]
      /\ req[r].deletes /\ req[r].op # "refresh" => ledger'[req[r].key] = NoRow
      /\ InFlight(r)' =>
            \/ pc[r] = "hide" /\ pc'[r] = "screen"
            \/ pc[r] = "record" /\ pc'[r] = "audit" /\ OnLedger(r)'
            \/ pc[r] = "dropLedger" /\ pc'[r] = "audit" /\ OnLedger(r)'
      BY LedgerCallEffect
<1>2. OpenChangeIsTheirs' /\ (erased \subseteq Keys)'
      BY <1>1 DEF OpenChangeIsTheirs
<1>3. Shaped' /\ pc'[r] \notin Seedings
  <2>1. pc[r] = "hide" => ~req[r].deletes
        BY <1>1 DEF Shaped
  <2>2. pc'[r] \notin Seedings
        BY <1>1 DEF InFlight, Busy, Seedings
  <2>3. QED
        BY <1>1, <2>1, <2>2, OnwardStaysShaped
<1>4. AloneIsAlone' /\ FillingIsAlone'
      BY <1>1, <1>3, OnwardStaysAlone, OnwardFillsAlone
<1>5. WorkIsKept'
  <2> SUFFICES ASSUME NEW s \in Requests, InFlight(s)', alone'[s]
               PROVE  (/\ Reached(pc[s], s, db)
                       /\ txn.conn # "none" => Reached(pc[s], s, txn.db)
                       /\ pc[s] = "audit" => OnLedger(s))'
      BY DEF WorkIsKept
  <2>1. InFlight(s) /\ req'[s] = req[s] /\ alone[s] /\ (s # r => pc'[s] = pc[s])
        BY <1>1 DEF Onward
  <2>2. CASE s = r
    <3>1. Reached(pc[r], r, db) /\ (txn.conn # "none" => Reached(pc[r], r, txn.db))
          BY <2>1, <2>2 DEF WorkIsKept
    <3>2. CASE pc[r] = "hide" /\ pc'[r] = "screen"
          BY <3>2, <2>2 DEF Reached
    <3>3. CASE pc[r] \in {"record", "dropLedger"} /\ pc'[r] = "audit" /\ OnLedger(r)'
          BY <1>1, <2>1, <2>2, <3>1, <3>3 DEF Reached, Wanted
    <3>4. QED
          BY <1>1, <2>2, <3>2, <3>3
  <2>3. CASE s # r
    <3>1. req[s].key # req[r].key
          BY <1>1, <2>1, <2>3 DEF AloneIsAlone
    <3>2. req[s].key \in Keys
          BY DEF ControlOK, RequestKind
    <3>3. ledger'[req[s].key] = ledger[req[s].key]
          BY <1>1, <3>1, <3>2
    <3>4. QED
          BY <1>1, <2>1, <2>3, <3>3 DEF WorkIsKept, Reached, Wanted, OnLedger
  <2>4. QED
        BY <2>2, <2>3
<1>6. ErasedIsGone'
  <2> SUFFICES ASSUME NEW k \in erased'
               PROVE  /\ Clean(db, k)
                      /\ txn.conn # "none" => Clean(txn.db, k)
                      /\ ledger'[k] = NoRow
                      /\ \A s \in Requests : InFlight(s)' /\ req'[s].key = k
                            => req'[s].deletes /\ req'[s].op # "refresh"
      BY <1>1 DEF ErasedIsGone, Clean
  <2>1. k \in erased /\ k \in Keys
        BY <1>1
  <2>2. ledger'[k] = NoRow
        BY <1>1, <2>1 DEF ErasedIsGone
  <2>3. QED
        BY <1>1, <2>1, <2>2 DEF ErasedIsGone, Onward
<1>7. QED
      BY <1>1, <1>2, <1>3, <1>4, <1>5, <1>6

\* Rows outside the reach of every owner named are as they were.
LEMMA EditsSpareOwners ==
    ASSUME ControlOK, NEW r \in Requests, NEW d, NEW e, Edits(r, d, e),
           req[r].key[2] # Shared, NEW row \in Rows, row.owner # req[r].key[2]
    PROVE  (row \in e.index <=> row \in d.index) /\ (row \in e.blocks <=> row \in d.blocks)
BY DEF Edits, Reaches

\* So do the calls of the passage index and the block store.
LEMMA StoreCallKeeps ==
    ASSUME LInv, NEW r \in Requests, StoreCall(r)
    PROVE  LInv'
<1> USE DEF LInv
<1>1. PICK half \in Tables, new \in Tables, next \in Busy :
              /\ InFlight(r) /\ Seen \in Tables
              /\ \/ Seen = db /\ txn.conn = "none"
                 \/ Seen = txn.db /\ txn.conn # "none" /\ txn.by = 0
              /\ ControlOK' /\ StoresOK'
              /\ Onward({r})
              /\ Written(r, half, new, next)
              /\ UNCHANGED <<ledger, registered, trail, api, erased>>
              /\ Edits(r, Seen, half) /\ Edits(r, Seen, new)
              /\ Reached(pc[r], r, Seen) => Reached(next, r, new)
              /\ next \in {"add", "put", "record", "dropBlocks", "dropLedger"}
              /\ next \in {"add", "put", "record"} => ~req[r].deletes
              /\ next \in {"dropBlocks", "dropLedger"} => req[r].deletes
      BY StoreCallEffect
<1> DEFINE seen == Seen
<1>2. /\ seen \in Tables
      /\ \/ seen = db /\ txn.conn = "none"
         \/ seen = txn.db /\ txn.conn # "none" /\ txn.by = 0
      /\ \A e \in {half, new} : e \in Tables /\ Edits(r, seen, e)
      BY <1>1
<1>3. NoTxn.conn = "none"
      BY IdleIsTyped
<1>4. Shaped' /\ AloneIsAlone' /\ FillingIsAlone'
  <2>1. InFlight(r)' => pc'[r] = next \/ (pc'[r] = "recordFailure" /\ req[r].op = "refresh")
        BY <1>1 DEF Written
  <2>2. pc'[r] \notin Seedings
        BY <1>1, <2>1 DEF InFlight, Busy, Seedings
  <2>3. QED
        BY <1>1, <2>1, <2>2, OnwardStaysShaped, OnwardStaysAlone, OnwardFillsAlone
<1> HIDE DEF seen
<1>5. OpenChangeIsTheirs'
  <2> SUFFICES ASSUME txn'.conn # "none", txn'.by = 0, NEW row \in Rows, row.owner \notin txn'.owners
               PROVE  /\ row \in txn'.db.index <=> row \in db'.index
                      /\ row \in txn'.db.blocks <=> row \in db'.blocks
      BY DEF OpenChangeIsTheirs
  <2>1. /\ db' = db /\ txn'.db \in {half, new}
        /\ 0 = (IF Served(r) THEN 0 ELSE r)
        /\ txn'.owners = txn.owners \cup {req[r].key[2]}
        BY <1>1, <1>3 DEF Written
  <2>2. Served(r)
        BY <2>1, LocalAssumption DEF Requests
  <2>3. req[r].key[2] \in Tenants /\ req[r].key[2] # Shared
        BY <1>1, <2>2, LocalAssumption DEF Shaped
  <2>4. row.owner # req[r].key[2] /\ row.owner \notin txn.owners
        BY <2>1
  <2>5. PICK left \in {half, new} : txn'.db = left
        BY <2>1
  <2>6. Edits(r, seen, left)
        BY <1>2
  <2>7. (row \in left.index <=> row \in seen.index) /\ (row \in left.blocks <=> row \in seen.blocks)
        BY <2>3, <2>4, <2>6, EditsSpareOwners
  <2>8. (row \in seen.index <=> row \in db.index) /\ (row \in seen.blocks <=> row \in db.blocks)
        BY <1>2, <2>4 DEF OpenChangeIsTheirs
  <2>9. QED
        BY <2>1, <2>5, <2>7, <2>8
<1>6. ASSUME NEW s \in Requests, InFlight(s)', alone'[s]
      PROVE  /\ req'[s] = req[s] /\ InFlight(s) /\ alone[s]
             /\ Reached(pc[s], s, db) /\ Reached(pc[s], s, seen)
             /\ pc[s] = "audit" => OnLedger(s)
             /\ s # r => /\ pc'[s] = pc[s]
                         /\ \A e \in {half, new} : Reached(pc[s], s, e)
  <2>1. InFlight(s) /\ req'[s] = req[s] /\ alone[s] /\ (s # r => pc'[s] = pc[s])
        BY <1>1, <1>6 DEF Onward
  <2>2. Reached(pc[s], s, db) /\ Reached(pc[s], s, seen) /\ (pc[s] = "audit" => OnLedger(s))
        BY <1>2, <2>1 DEF WorkIsKept
  <2>3. ASSUME s # r, NEW e \in {half, new} PROVE Reached(pc[s], s, e)
    <3>1. req[r].key[1] # req[s].key[1]
          BY <1>1, <2>1, <2>3 DEF AloneIsAlone
    <3>2. req[s].key \in Keys
          BY DEF ControlOK, RequestKind
    <3>3. /\ Of(e.index, req[s].key) = Of(seen.index, req[s].key)
          /\ Of(e.blocks, req[s].key) = Of(seen.blocks, req[s].key)
          BY <1>2, <3>1, <3>2, EditsSpareOthers
    <3>4. QED
          BY <2>2, <3>3 DEF Reached
  <2>4. QED
        BY <2>1, <2>2, <2>3
<1>7. WorkIsKept'
  <2> SUFFICES ASSUME NEW s \in Requests, InFlight(s)', alone'[s]
               PROVE  (/\ Reached(pc[s], s, db)
                       /\ txn.conn # "none" => Reached(pc[s], s, txn.db)
                       /\ pc[s] = "audit" => OnLedger(s))'
      BY DEF WorkIsKept
  <2>1. /\ req'[s] = req[s] /\ Reached(pc[s], s, db) /\ Reached(pc[s], s, seen)
        /\ pc[s] = "audit" => OnLedger(s)
        /\ s # r => pc'[s] = pc[s] /\ \A e \in {half, new} : Reached(pc[s], s, e)
        BY <1>6
  <2>2. OnLedger(s)' <=> OnLedger(s)
        BY <1>1, <2>1 DEF OnLedger
  <2>3. CASE db' = new /\ txn' = NoTxn /\ pc'[r] = next
    <3>1. Reached(pc'[s], s, new) /\ (pc'[s] = "audit" => OnLedger(s))
      <4>1. CASE s = r
            BY <1>1, <2>1, <2>3, <4>1 DEF seen
      <4>2. CASE s # r
            BY <2>1, <4>2
      <4>3. QED
            BY <4>1, <4>2
    <3>2. QED
          BY <1>3, <2>1, <2>2, <2>3, <3>1 DEF Reached, Wanted
  <2>4. CASE db' = db /\ txn'.db \in {half, new} /\ (InFlight(r)' => pc'[r] = "recordFailure")
    <3>1. CASE s = r
          BY <2>4, <3>1 DEF Reached
    <3>2. CASE s # r
      <4>1. PICK left \in {half, new} : txn'.db = left
            BY <2>4
      <4>2. Reached(pc[s], s, left)
            BY <2>1, <3>2
      <4>3. QED
            BY <2>1, <2>2, <2>4, <3>2, <4>1, <4>2 DEF Reached, Wanted
    <3>3. QED
          BY <3>1, <3>2
  <2>5. QED
        BY <1>1, <2>3, <2>4 DEF Written
<1>8. ErasedIsGone'
  <2> SUFFICES ASSUME NEW k \in erased
               PROVE  /\ Clean(db', k)
                      /\ txn'.conn # "none" => Clean(txn'.db, k)
                      /\ ledger[k] = NoRow
                      /\ \A s \in Requests : InFlight(s)' /\ req'[s].key = k
                            => req'[s].deletes /\ req'[s].op # "refresh"
      BY <1>1 DEF ErasedIsGone, Clean
  <2>1. k \in Keys /\ Clean(seen, k) /\ Clean(db, k) /\ (req[r].key = k => req[r].deletes)
        BY <1>1, <1>2 DEF ErasedIsGone
  <2>2. ASSUME NEW e \in {half, new} PROVE Clean(e, k)
    <3>1. Of(e.index, k) \subseteq Of(seen.index, k) /\ Of(e.blocks, k) \subseteq Of(seen.blocks, k)
          BY <1>2, <2>1, EditsSpareOthers
    <3>2. QED
          BY <2>1, <3>1 DEF Clean
  <2>3. /\ ledger[k] = NoRow
        /\ \A s \in Requests : InFlight(s)' /\ req'[s].key = k
              => req'[s].deletes /\ req'[s].op # "refresh"
        BY <1>1 DEF ErasedIsGone, Onward
  <2>4. CASE db' = new /\ txn' = NoTxn
        BY <1>3, <2>2, <2>3, <2>4
  <2>5. CASE db' = db /\ txn'.db \in {half, new}
        BY <2>1, <2>2, <2>3, <2>5
  <2>6. QED
        BY <1>1, <2>4, <2>5 DEF Written
<1>9. QED
       BY <1>1, <1>4, <1>5, <1>7, <1>8

\* So does the filling of a table found empty, by the API or by a run.
LEMMA FillingKeeps ==
    ASSUME LInv, Filling, txn.conn = "none", UNCHANGED <<txn, ledger, erased>>,
           db' = SeedIndex(db) \/ db' = SeedBlocks(db),
           NEW R, Onward(R),
           \A s \in Requests : InFlight(s)' /\ alone'[s] =>
              pc'[s] \in Seedings \cup {"hide", "screen", "dropIndex"}
    PROVE  StoresOK' /\ OpenChangeIsTheirs' /\ AloneIsAlone' /\ WorkIsKept' /\ ErasedIsGone'
<1> USE DEF LInv
<1>1. StoresOK' /\ OpenChangeIsTheirs'
      BY SeedingIsTyped DEF StoresOK, OpenChangeIsTheirs
<1>2. AloneIsAlone'
      BY OnwardStaysAlone
<1>3. WorkIsKept'
  <2> SUFFICES ASSUME NEW s \in Requests, InFlight(s)', alone'[s]
               PROVE  (/\ Reached(pc[s], s, db)
                       /\ txn.conn # "none" => Reached(pc[s], s, txn.db)
                       /\ pc[s] = "audit" => OnLedger(s))'
      BY DEF WorkIsKept
  <2>1. pc'[s] \in Seedings \cup {"hide", "screen", "dropIndex"}
        OBVIOUS
  <2>2. QED
        BY <2>1 DEF Reached, Seedings
<1>4. ErasedIsGone'
  <2>1. ASSUME NEW k \in erased PROVE k \in Keys /\ Clean(db', k)
    <3>1. k \in Keys /\ Clean(db, k) /\ k \notin Seeds
          BY <2>1 DEF ErasedIsGone, FillingIsAlone
    <3>2. QED
          BY <3>1, SeedsAreReseeded DEF StoresOK
  <2>2. QED
        BY <2>1 DEF ErasedIsGone, Clean, Onward
<1>5. QED
      BY <1>1, <1>2, <1>3, <1>4

\* A run that fills a table.
LEMMA FillKeeps ==
    ASSUME LInv, NEW r \in Requests, Fill(r)
    PROVE  LInv'
<1> USE DEF LInv
<1>1. /\ ControlOK' /\ StoresOK' /\ Onward({r}) /\ InFlight(r)
      /\ pc[r] \in Seedings /\ txn.conn = "none" /\ ~Served(r)
      /\ db' = SeedIndex(db) \/ db' = SeedBlocks(db)
      /\ UNCHANGED <<txn, ledger, registered, trail, api, alone, erased>>
      /\ pc'[r] \in Seedings \cup {"hide", "screen", "dropIndex"}
      /\ pc'[r] = "hide" => req[r].op = "refresh"
      /\ pc'[r] \in {"hide", "screen"} => ~req[r].deletes
      BY FillEffect
<1>2. Filling /\ \A s \in Requests : InFlight(s) /\ alone[s] => s = r
      BY <1>1 DEF Filling, FillingIsAlone
<1>3. OpenChangeIsTheirs' /\ AloneIsAlone' /\ WorkIsKept' /\ ErasedIsGone'
  <2>1. \A s \in Requests : InFlight(s)' /\ alone'[s] =>
           pc'[s] \in Seedings \cup {"hide", "screen", "dropIndex"}
        BY <1>1, <1>2 DEF Onward
  <2>2. QED
        BY <1>1, <1>2, <2>1, FillingKeeps
<1>4. FillingIsAlone'
      BY <1>1, OnwardFillsAlone
<1>5. Shaped'
      BY <1>1, OnwardStaysShaped DEF Seedings
<1>6. QED
      BY <1>1, <1>3, <1>4, <1>5

\* The API that fills a table.
LEMMA ApiFillKeeps ==
    ASSUME LInv, ApiFill
    PROVE  LInv'
<1> USE DEF LInv
<1>1. /\ api \in Seedings /\ txn.conn = "none"
      /\ db' = SeedIndex(db) \/ db' = SeedBlocks(db)
      /\ UNCHANGED <<txn, ledger, req, pc, alone, erased>>
      BY DEF ApiFill, history
<1>2. Filling /\ \A s \in Requests : InFlight(s) => ~alone[s]
      BY <1>1 DEF Filling, FillingIsAlone
<1>3. \A R : Onward(R)
      BY <1>1 DEF Onward, InFlight
<1>4. StoresOK' /\ OpenChangeIsTheirs' /\ AloneIsAlone' /\ WorkIsKept' /\ ErasedIsGone'
      BY <1>1, <1>2, <1>3, FillingKeeps DEF InFlight
<1>5. Shaped' /\ ControlOK'
      BY <1>1 DEF Shaped, ControlOK, InFlight, Served
<1>6. FillingIsAlone'
      BY <1>1, <1>2 DEF FillingIsAlone, InFlight
<1>7. QED
      BY <1>1, <1>4, <1>5, <1>6

\* A run that has left a change open commits it or rolls it back.
LEMMA RunKeeps ==
    ASSUME LInv, RunGoesOn \/ RunEnds
    PROVE  LInv'
<1> USE DEF LInv
<1>1. /\ txn' = NoTxn /\ (db' = db \/ (db' = txn.db /\ txn.conn # "none"))
      /\ UNCHANGED <<ledger, req, pc, api, alone, erased>>
      BY DEF RunGoesOn, RunEnds, history
<1>2. txn'.conn = "none" /\ StoresOK'
      BY <1>1, IdleIsTyped DEF StoresOK, OpenChange
<1>3. OpenChangeIsTheirs'
      BY <1>2 DEF OpenChangeIsTheirs
<1>4. Shaped' /\ AloneIsAlone' /\ FillingIsAlone' /\ ControlOK'
      BY <1>1 DEF Shaped, AloneIsAlone, FillingIsAlone, Filling, ControlOK, InFlight, Served
<1>5. WorkIsKept'
  <2> SUFFICES ASSUME NEW s \in Requests, InFlight(s)', alone'[s]
               PROVE  (/\ Reached(pc[s], s, db)
                       /\ txn.conn # "none" => Reached(pc[s], s, txn.db)
                       /\ pc[s] = "audit" => OnLedger(s))'
      BY DEF WorkIsKept
  <2>1. InFlight(s) /\ alone[s]
        BY <1>1 DEF InFlight
  <2>2. /\ Reached(pc[s], s, db)
        /\ txn.conn # "none" => Reached(pc[s], s, txn.db)
        /\ pc[s] = "audit" => OnLedger(s)
        BY <2>1 DEF WorkIsKept
  <2>3. QED
        BY <1>1, <1>2, <2>2 DEF Reached, Wanted, OnLedger
<1>6. ErasedIsGone'
      BY <1>1, <1>2 DEF ErasedIsGone, Clean, InFlight
<1>7. QED
      BY <1>1, <1>2, <1>3, <1>4, <1>5, <1>6

\* So does a restart of the API process, which rolls back its open change.
LEMMA RestartKeeps ==
    ASSUME LInv, Restart
    PROVE  LInv'
<1> USE DEF LInv
<1>1. /\ ControlOK' /\ StoresOK' /\ Onward(Requests)
      /\ \A s \in Requests : pc'[s] = pc[s] \/ pc'[s] = "lost"
      /\ api' \in Seedings => \A s \in Requests : InFlight(s)' => ~alone'[s]
      /\ txn' = txn \/ txn' = NoTxn
      /\ UNCHANGED <<db, ledger, registered, trail>>
      /\ erased' = IF api' \in Seedings THEN erased \ Seeds ELSE erased
      BY RestartEffect
<1>2. txn'.conn # "none" => txn' = txn
      BY <1>1, IdleIsTyped
<1>3. \A s \in Requests : InFlight(s)' => InFlight(s) /\ req'[s] = req[s] /\ pc'[s] = pc[s]
      BY <1>1 DEF Onward, InFlight, Busy, Seedings
<1>4. Shaped'
      BY <1>3 DEF Shaped, Served
<1>5. AloneIsAlone' /\ OpenChangeIsTheirs'
      BY <1>1, <1>2, OnwardStaysAlone DEF OpenChangeIsTheirs
<1>6. FillingIsAlone'
  <2>1. \A q \in Requests : pc'[q] \in Seedings => pc[q] \in Seedings
        BY <1>1 DEF Seedings
  <2>2. ASSUME Filling' PROVE erased' \cap Seeds = {}
    <3>1. CASE api' \in Seedings
          BY <1>1, <3>1
    <3>2. CASE api' \notin Seedings
      <4>1. Filling
            BY <2>1, <2>2, <3>2 DEF Filling
      <4>2. QED
            BY <1>1, <4>1 DEF FillingIsAlone
    <3>3. QED
          BY <3>1, <3>2
  <2>3. ASSUME NEW q \in Requests, NEW s \in Requests, pc'[q] \in Seedings, InFlight(s)', s # q
        PROVE  ~alone'[s]
    <3>1. pc[q] \in Seedings /\ InFlight(s) /\ (alone'[s] => alone[s])
          BY <1>1, <2>1, <2>3 DEF Onward
    <3>2. QED
          BY <2>3, <3>1 DEF FillingIsAlone
  <2>4. QED
        BY <1>1, <2>2, <2>3 DEF FillingIsAlone
<1>7. WorkIsKept'
  <2> SUFFICES ASSUME NEW s \in Requests, InFlight(s)', alone'[s]
               PROVE  (/\ Reached(pc[s], s, db)
                       /\ txn.conn # "none" => Reached(pc[s], s, txn.db)
                       /\ pc[s] = "audit" => OnLedger(s))'
      BY DEF WorkIsKept
  <2>1. InFlight(s) /\ req'[s] = req[s] /\ alone[s] /\ pc'[s] = pc[s]
        BY <1>1, <1>3 DEF Onward
  <2>2. /\ Reached(pc[s], s, db) /\ (pc[s] = "audit" => OnLedger(s))
        /\ txn.conn # "none" => Reached(pc[s], s, txn.db)
        BY <2>1 DEF WorkIsKept
  <2>3. QED
        BY <1>1, <1>2, <2>1, <2>2 DEF Reached, Wanted, OnLedger
<1>8. ErasedIsGone' /\ (erased \subseteq Keys)'
      BY <1>1, <1>2 DEF ErasedIsGone, Clean, Onward
<1>9. QED
      BY <1>1, <1>4, <1>5, <1>6, <1>7, <1>8

\* So does the arrival of a request, which ends the solitude of those it overlaps.
LEMMA ArrivesKeeps ==
    ASSUME LInv, NEW r \in Requests, Arrives(r)
    PROVE  LInv'
<1> USE DEF LInv
<1>1. PICK k \in Keys, op \in {"ingest", "delete", "cli", "refresh"}, deletes \in BOOLEAN,
           label \in Seedings \cup {"hide", "screen", "dropIndex"} :
              /\ Begin(r, op, k, deletes, label)
              /\ UNCHANGED <<db, txn, ledger, registered, trail, api>>
              /\ op \in {"ingest", "delete"} => k[2] \in Tenants /\ api = "up" /\ label \notin Seedings
              /\ op \in {"cli", "refresh"} => k[2] = Shared
              /\ label \in Seedings => Vacant
              /\ op = "cli" => ~deletes
              /\ label = "hide" => op = "refresh"
              /\ label \in {"hide", "screen"} => ~deletes
              /\ op = "refresh" /\ deletes => ledger[k] # NoRow
      BY ArrivesEffect
<1>2. label \in Busy
      BY DEF Busy
<1>3. /\ ControlOK'
      /\ ~InFlight(r) /\ pc'[r] = label
      /\ req'[r] = [op |-> op, key |-> k, deletes |-> deletes]
      /\ \A s \in Requests : s # r => pc'[s] = pc[s] /\ req'[s] = req[s]
      /\ \A s \in Requests : s # r /\ InFlight(s) /\ alone'[s] =>
            alone[s] /\ label \notin Seedings /\ req[s].key[1] # k[1]
      /\ alone'[r] => ~Filling
      /\ alone'[r] => \A s \in Requests :
            s # r /\ InFlight(s) => label \notin Seedings /\ req[s].key[1] # k[1]
      /\ erased' \subseteq erased
      /\ ~deletes => k \notin erased'
      /\ label \in Seedings => erased' \cap Seeds = {}
      BY <1>1, <1>2, Begun
<1>4. req'[r].op = op /\ req'[r].key = k /\ req'[r].deletes = deletes
      BY <1>3
<1>5. \A s \in Requests : s # r => (InFlight(s)' <=> InFlight(s))
      BY <1>3 DEF InFlight
<1>6. StoresOK' /\ (erased \subseteq Keys)'
      BY <1>1, <1>3 DEF StoresOK
<1>7. Shaped'
  <2> SUFFICES ASSUME NEW s \in Requests, InFlight(s)'
               PROVE  (/\ req[s].op # "none"
                       /\ Served(s) => req[s].key[2] \in Tenants
                       /\ ~Served(s) => req[s].key[2] = Shared
                       /\ pc[s] \in {"hide", "recordFailure"} => req[s].op = "refresh"
                       /\ pc[s] \in {"hide", "screen", "add", "put", "record"} => ~req[s].deletes
                       /\ pc[s] \in {"dropBlocks", "dropLedger"} => req[s].deletes
                       /\ pc[s] \in Seedings => ~Served(s)
                       /\ req[s].op = "cli" => ~req[s].deletes)'
      BY DEF Shaped
  <2>1. CASE s = r
        BY <1>1, <1>3, <1>4, <2>1 DEF Served, Seedings
  <2>2. CASE s # r
    <3>1. pc'[s] = pc[s] /\ req'[s] = req[s] /\ InFlight(s)
          BY <1>3, <1>5, <2>2
    <3>2. QED
          BY <3>1 DEF Shaped, Served
  <2>3. QED
        BY <2>1, <2>2
<1>8. OpenChangeIsTheirs'
      BY <1>1 DEF OpenChangeIsTheirs
<1>9. AloneIsAlone'
  <2> SUFFICES ASSUME NEW s \in Requests, NEW u \in Requests,
                      InFlight(s)', alone'[s], InFlight(u)', u # s
               PROVE  req'[u].key[1] # req'[s].key[1]
      BY DEF AloneIsAlone
  <2>1. CASE s = r
        BY <1>3, <1>4, <1>5, <2>1
  <2>2. CASE u = r
        BY <1>3, <1>4, <1>5, <2>2
  <2>3. CASE s # r /\ u # r
        BY <1>3, <1>5, <2>3 DEF AloneIsAlone
  <2>4. QED
        BY <2>1, <2>2, <2>3
<1>10. FillingIsAlone'
  <2>1. ASSUME Filling' PROVE erased' \cap Seeds = {}
    <3>1. CASE label \in Seedings
          BY <1>3, <3>1
    <3>2. CASE label \notin Seedings
      <4>1. Filling
            BY <1>1, <1>3, <2>1, <3>2 DEF Filling
      <4>2. QED
            BY <1>3, <4>1 DEF FillingIsAlone
    <3>3. QED
          BY <3>1, <3>2
  <2>2. ASSUME api' \in Seedings, NEW s \in Requests, InFlight(s)' PROVE ~alone'[s]
    <3>1. Filling
          BY <1>1, <2>2 DEF Filling
    <3>2. QED
          BY <1>1, <1>3, <1>5, <2>2, <3>1 DEF FillingIsAlone
  <2>3. ASSUME NEW q \in Requests, NEW s \in Requests, pc'[q] \in Seedings, InFlight(s)', s # q
        PROVE  ~alone'[s]
    <3>1. CASE q = r
          BY <1>3, <1>5, <2>3, <3>1
    <3>2. CASE q # r
      <4>1. pc[q] \in Seedings /\ Filling
            BY <1>3, <2>3, <3>2 DEF Filling
      <4>2. CASE s = r
            BY <1>3, <4>1, <4>2
      <4>3. CASE s # r
            BY <1>3, <1>5, <2>3, <4>1, <4>3 DEF FillingIsAlone
      <4>4. QED
            BY <4>2, <4>3
    <3>3. QED
          BY <3>1, <3>2
  <2>4. QED
        BY <2>1, <2>2, <2>3 DEF FillingIsAlone
<1>11. WorkIsKept'
  <2> SUFFICES ASSUME NEW s \in Requests, InFlight(s)', alone'[s]
               PROVE  (/\ Reached(pc[s], s, db)
                       /\ txn.conn # "none" => Reached(pc[s], s, txn.db)
                       /\ pc[s] = "audit" => OnLedger(s))'
      BY DEF WorkIsKept
  <2>1. CASE s = r
        BY <1>3, <2>1 DEF Reached, Seedings
  <2>2. CASE s # r
    <3>1. InFlight(s) /\ alone[s] /\ pc'[s] = pc[s] /\ req'[s] = req[s]
          BY <1>3, <1>5, <2>2
    <3>2. /\ Reached(pc[s], s, db)
          /\ txn.conn # "none" => Reached(pc[s], s, txn.db)
          /\ pc[s] = "audit" => OnLedger(s)
          BY <3>1 DEF WorkIsKept
    <3>3. QED
          BY <1>1, <3>1, <3>2 DEF Reached, Wanted, OnLedger
  <2>3. QED
        BY <2>1, <2>2
<1>12. ErasedIsGone'
  <2> SUFFICES ASSUME NEW j \in erased'
               PROVE  /\ Clean(db, j)
                      /\ txn.conn # "none" => Clean(txn.db, j)
                      /\ ledger[j] = NoRow
                      /\ \A s \in Requests : InFlight(s)' /\ req'[s].key = j
                            => req'[s].deletes /\ req'[s].op # "refresh"
      BY <1>1 DEF ErasedIsGone, Clean
  <2>1. /\ j \in erased /\ j \in Keys /\ Clean(db, j)
        /\ txn.conn # "none" => Clean(txn.db, j)
        /\ ledger[j] = NoRow
        BY <1>3 DEF ErasedIsGone
  <2>2. ASSUME NEW s \in Requests, InFlight(s)', req'[s].key = j
        PROVE  req'[s].deletes /\ req'[s].op # "refresh"
    <3>1. CASE s = r
          BY <1>1, <1>3, <1>4, <2>1, <2>2, <3>1
    <3>2. CASE s # r
          BY <1>3, <1>5, <2>1, <2>2, <3>2 DEF ErasedIsGone
    <3>3. QED
          BY <3>1, <3>2
  <2>3. QED
        BY <2>1, <2>2
<1>13. QED
       BY <1>3, <1>6, <1>7, <1>8, <1>9, <1>10, <1>11, <1>12

\* So does the passing of time.
LEMMA ExpireKeeps ==
    ASSUME LInv, NEW k \in Keys, Expire(k)
    PROVE  LInv'
<1> USE DEF LInv
<1>1. /\ ledger[k].state = "fresh" /\ ledger' = [ledger EXCEPT ![k].state = "expired"]
      /\ UNCHANGED <<db, txn, req, pc, api, alone, erased>>
      BY DEF Expire, history
<1>2. ledger[k] \in LedgerRow
      BY DEF StoresOK
<1> DEFINE late == [ledger[k] EXCEPT !.state = "expired"]
<1>3. late \in LedgerRow /\ late.rev = ledger[k].rev /\ late.state = "expired"
      BY <1>2 DEF LedgerRow
<1>4. ledger' = [ledger EXCEPT ![k] = late]
      BY <1>1
<1> HIDE DEF late
<1>5. /\ ledger' \in [Keys -> LedgerRow] /\ ledger'[k] = late
      /\ \A j \in Keys : j # k => ledger'[j] = ledger[j]
      BY <1>3, <1>4 DEF StoresOK
<1>6. ledger[k] # NoRow
      BY <1>1 DEF NoRow
<1>7. ASSUME NEW r \in Requests, OnLedger(r) PROVE OnLedger(r)'
  <2>1. req[r].key \in Keys /\ req'[r] = req[r]
        BY <1>1 DEF ControlOK, RequestKind
  <2>2. CASE req[r].key = k
        BY <1>3, <1>5, <1>6, <1>7, <2>1, <2>2 DEF OnLedger
  <2>3. CASE req[r].key # k
        BY <1>5, <1>7, <2>1, <2>3 DEF OnLedger
  <2>4. QED
        BY <2>2, <2>3
<1>8. WorkIsKept'
  <2> SUFFICES ASSUME NEW s \in Requests, InFlight(s)', alone'[s]
               PROVE  (/\ Reached(pc[s], s, db)
                       /\ txn.conn # "none" => Reached(pc[s], s, txn.db)
                       /\ pc[s] = "audit" => OnLedger(s))'
      BY DEF WorkIsKept
  <2>1. InFlight(s) /\ alone[s]
        BY <1>1 DEF InFlight
  <2>2. QED
        BY <1>1, <1>7, <2>1 DEF WorkIsKept, Reached, Wanted
<1>9. ErasedIsGone'
      BY <1>1, <1>5, <1>6 DEF ErasedIsGone, Clean, InFlight
<1>10. Shaped' /\ OpenChangeIsTheirs' /\ AloneIsAlone' /\ FillingIsAlone' /\ ControlOK'
       BY <1>1 DEF Shaped, Served, InFlight, OpenChangeIsTheirs, AloneIsAlone, FillingIsAlone,
                   Filling, ControlOK
<1>11. QED
       BY <1>1, <1>5, <1>8, <1>9, <1>10 DEF StoresOK

\* Steps that touch nothing the invariant speaks of.
LEMMA StutterKeeps ==
    ASSUME LInv, UNCHANGED <<db, txn, ledger, req, pc, api, alone, erased>>
    PROVE  LInv'
<1>1. (ControlOK /\ StoresOK /\ erased \subseteq Keys)'
      BY DEF LInv, ControlOK, StoresOK
<1>2. (Shaped /\ AloneIsAlone /\ FillingIsAlone /\ OpenChangeIsTheirs)'
      BY DEF LInv, Shaped, AloneIsAlone, FillingIsAlone, Filling, OpenChangeIsTheirs, InFlight, Served
<1>3. WorkIsKept'
      BY DEF LInv, WorkIsKept, InFlight, Reached, Wanted, OnLedger
<1>4. ErasedIsGone'
      BY DEF LInv, ErasedIsGone, InFlight, Clean
<1>5. QED
      BY <1>1, <1>2, <1>3, <1>4 DEF LInv

\* Every step is of one of these kinds.
LEMMA StepKinds ==
    ASSUME [Next]_vars
    PROVE  \/ \E r \in Requests :
                \/ Arrives(r) \/ Fill(r) \/ StoreCall(r)
                \/ Quiet(r) \/ LedgerCall(r) \/ Audit(r)
           \/ \E k \in Keys : Expire(k)
           \/ \E d \in Docs : Withdraw(d)
           \/ Restart \/ ApiFill
           \/ RunGoesOn \/ RunEnds
           \/ UNCHANGED vars
<1>1. CASE Next
      BY <1>1 DEF Next, Step, Finished, Arrives, StoreCall, Quiet, LedgerCall
<1>2. CASE UNCHANGED vars
      BY <1>2
<1>3. QED
      BY <1>1, <1>2

\* Every step keeps the invariant.
LEMMA LInvStep == LInv /\ [Next]_vars => LInv'
<1> SUFFICES ASSUME LInv, [Next]_vars PROVE LInv'
    OBVIOUS
<1>1. CASE \E r \in Requests :
              \/ Arrives(r) \/ Fill(r) \/ StoreCall(r)
              \/ Quiet(r) \/ LedgerCall(r) \/ Audit(r)
      BY <1>1, ArrivesKeeps, FillKeeps, StoreCallKeeps, QuietKeeps, LedgerCallKeeps, AuditKeeps
<1>2. CASE \E k \in Keys : Expire(k)
      BY <1>2, ExpireKeeps
<1>3. CASE \E d \in Docs : Withdraw(d)
      BY <1>3, StutterKeeps DEF Withdraw, stores, history
<1>4. CASE Restart \/ ApiFill \/ RunGoesOn \/ RunEnds
      BY <1>4, RestartKeeps, ApiFillKeeps, RunKeeps
<1>5. CASE UNCHANGED vars
      BY <1>5, StutterKeeps DEF vars, stores, history
<1>6. QED
      BY <1>1, <1>2, <1>3, <1>4, <1>5, StepKinds

\* The invariant holds in every state.
THEOREM LocalInvariant == Spec => []LInv
BY LInvInit, LInvStep, PTL DEF Spec

\* What a tenant deleted stays deleted in all three stores until an ingest of
\* it begins, through restarts, seeding and the changes failures leave open.
\* (IngestionService.delete, the self-seeding of the local stores)
THEOREM ErasureHolds == Spec => []ErasedStaysErased
<1>1. LInv => ErasedStaysErased
      BY DEF LInv, ErasedIsGone, ErasedStaysErased, Clean
<1>2. QED
      BY <1>1, LocalInvariant, PTL

-----------------------------------------------------------------------------
(***************************************************************************)
(* Every variable holds a value of its kind.                               *)
(***************************************************************************)
BooksOK ==
    /\ registered \subseteq Docs
    /\ trail \subseteq Requests \X {"allowed", "blocked"}
    /\ api \in Seedings \cup {"up"}
    /\ faults \in 0..MaxFaults
    /\ restarts \in 0..MaxRestarts

\* What a step does to the registry, the audit trail, the API process and the bounds.
LEMMA BooksStep ==
    ASSUME [Next]_vars
    PROVE  /\ registered' \subseteq registered
           /\ trail' \subseteq trail \cup (Requests \X {"allowed", "blocked"})
           /\ api' = api \/ api' \in Seedings \cup {"up"}
           /\ faults' = faults \/ (faults < MaxFaults /\ faults' = faults + 1)
           /\ restarts' = restarts \/ (restarts < MaxRestarts /\ restarts' = restarts + 1)
<1> DEFINE Good ==
           /\ registered' \subseteq registered
           /\ trail' \subseteq trail \cup (Requests \X {"allowed", "blocked"})
           /\ api' = api \/ api' \in Seedings \cup {"up"}
           /\ faults' = faults \/ (faults < MaxFaults /\ faults' = faults + 1)
           /\ restarts' = restarts \/ (restarts < MaxRestarts /\ restarts' = restarts + 1)
<1>1. ASSUME NEW r \in Requests, Arrives(r) \/ Fill(r) PROVE Good
      BY <1>1 DEF Arrives, Fill, ApiIngest, ApiDelete, CliIngest, CliRefresh, bounds
<1>2. ASSUME NEW r \in Requests, NEW table, NEW half, NEW new, NEW next,
             Writes(r, table, half, new, next)
      PROVE  Good
      BY <1>2 DEF Writes
<1>3. ASSUME NEW r \in Requests, StoreCall(r) PROVE Good
  <2> HIDE DEF Good
  <2>1. QED
        BY <1>2, <1>3 DEF StoreCall, DropIndex, Add, Put, DropBlocks
<1>4. ASSUME NEW r \in Requests, Quiet(r) PROVE Good
      BY <1>4 DEF Quiet, Screen, Blocked, Fails, Locked, Killed, OnRecord, bounds
<1>5. ASSUME NEW r \in Requests, LedgerCall(r) PROVE Good
      BY <1>5 DEF LedgerCall, Hide, Record, DropLedger, RecordFailure, bounds
<1>6. ASSUME NEW r \in Requests, Audit(r) PROVE Good
      BY <1>6 DEF Audit, OnRecord, bounds
<1>7. ASSUME NEW k \in Keys, Expire(k) PROVE Good
      BY <1>7 DEF Expire, bounds
<1>8. ASSUME NEW d \in Docs, Withdraw(d) PROVE Good
      BY <1>8 DEF Withdraw, bounds
<1>9. ASSUME Restart PROVE Good
      BY <1>9 DEF Restart, Opens, OpensBlocks, Seedings
<1>10. ASSUME RunGoesOn \/ RunEnds PROVE Good
       BY <1>10 DEF RunGoesOn, RunEnds, bounds
<1>11. ASSUME ApiFill PROVE Good
       BY <1>11 DEF ApiFill, OpensBlocks, Seedings, bounds
<1>12. ASSUME UNCHANGED vars PROVE Good
       BY <1>12 DEF vars, bounds
<1> HIDE DEF Good
<1>13. Good
       BY <1>1, <1>3, <1>4, <1>5, <1>6, <1>7, <1>8, <1>9, <1>10, <1>11, <1>12, StepKinds
<1>14. QED
       BY <1>13 DEF Good

\* Type correctness of the laptop stores.
THEOREM LocalTypeCorrect == Spec => []TypeOK
<1>1. Init => BooksOK
      BY LocalAssumption DEF Init, BooksOK, Seedings
<1>2. BooksOK /\ [Next]_vars => BooksOK'
  <2> SUFFICES ASSUME BooksOK, [Next]_vars PROVE BooksOK'
      OBVIOUS
  <2>1. faults' \in 0..MaxFaults /\ restarts' \in 0..MaxRestarts
        BY BooksStep, LocalAssumption DEF BooksOK
  <2>2. QED
        BY <2>1, BooksStep DEF BooksOK
<1>3. LInv /\ BooksOK => TypeOK
  <2> SUFFICES ASSUME LInv, BooksOK PROVE TypeOK
      OBVIOUS
  <2>1. /\ db \in Tables
        /\ txn \in [conn : {"none", "index", "blocks"}, by : 0..MaxRequests,
                    owners : SUBSET Owners, db : Tables]
        /\ ledger \in [Keys -> [state : {"absent", "fresh", "failed", "expired"},
                                rev : 0..MaxRequests, authority : {"direct", "registry"}]]
        BY DEF LInv, StoresOK, OpenChange, LedgerRow
  <2>2. /\ req \in [Requests -> [op : {"none", "ingest", "delete", "cli", "refresh"},
                                 key : Keys, deletes : BOOLEAN]]
        /\ pc \in [Requests -> Busy \cup Over \cup {"idle"}]
        /\ alone \in [Requests -> BOOLEAN]
        /\ erased \subseteq Keys
        BY DEF LInv, ControlOK, RequestKind
  <2>3. QED
        BY <2>1, <2>2 DEF TypeOK, BooksOK
<1>4. QED
      BY <1>1, <1>2, <1>3, LocalInvariant, PTL DEF Spec

-----------------------------------------------------------------------------
(***************************************************************************)
(* The action properties.                                                  *)
(***************************************************************************)
\* What o's rows are follows from which rows there are.
LEMMA SameRowsSameTheirs ==
    ASSUME StoresOK, StoresOK', NEW o \in Owners,
           \A row \in Rows : row.owner = o =>
              (row \in db'.index <=> row \in db.index) /\ (row \in db'.blocks <=> row \in db.blocks),
           \A d \in Docs : ledger'[<<d, o>>] = ledger[<<d, o>>]
    PROVE  UNCHANGED Theirs(o)
<1>1. /\ db.index \subseteq Rows /\ db.blocks \subseteq Rows
      /\ db'.index \subseteq Rows /\ db'.blocks \subseteq Rows
      BY DEF StoresOK, Tables
<1>2. {row \in db'.index : row.owner = o} = {row \in db.index : row.owner = o}
      BY <1>1
<1>3. {row \in db'.blocks : row.owner = o} = {row \in db.blocks : row.owner = o}
      BY <1>1
<1>4. [d \in Docs |-> ledger'[<<d, o>>]] = [d \in Docs |-> ledger[<<d, o>>]]
      OBVIOUS
<1>5. QED
      BY <1>2, <1>3, <1>4 DEF Theirs

\* A step that moves a tenant's request, short of a restart, is a step of that
\* request.
LEMMA WhoseStep ==
    ASSUME LInv, [Next]_vars, NEW r \in Requests, InFlight(r),
           pc'[r] # pc[r], pc'[r] # "lost"
    PROVE  Fill(r) \/ StoreCall(r) \/ Quiet(r) \/ LedgerCall(r) \/ Audit(r)
<1> USE DEF LInv
<1>1. ASSUME NEW s \in Requests, Arrives(s) PROVE FALSE
  <2>1. PICK k \in Keys, op \in {"ingest", "delete", "cli", "refresh"}, deletes \in BOOLEAN,
             label \in Seedings \cup {"hide", "screen", "dropIndex"} :
             Begin(s, op, k, deletes, label)
        BY <1>1, ArrivesEffect
  <2>2. label \in Busy
        BY DEF Busy
  <2>3. ~InFlight(s) /\ (r # s => pc'[r] = pc[r])
        BY <2>1, <2>2, Begun
  <2>4. QED
        BY <2>3
<1>2. ASSUME NEW s \in Requests, Fill(s) \/ StoreCall(s) \/ Quiet(s) \/ LedgerCall(s) \/ Audit(s)
      PROVE  s = r
  <2>1. Onward({s})
        BY <1>2, FillEffect, StoreCallEffect, QuietEffect, LedgerCallEffect, AuditEffect
  <2>2. QED
        BY <2>1 DEF Onward
<1>3. ASSUME NEW k \in Keys, Expire(k) PROVE FALSE
      BY <1>3 DEF Expire
<1>4. ASSUME NEW d \in Docs, Withdraw(d) PROVE FALSE
      BY <1>4 DEF Withdraw
<1>5. ASSUME Restart PROVE FALSE
      BY <1>5, RestartEffect
<1>6. ASSUME ApiFill \/ RunGoesOn \/ RunEnds PROVE FALSE
      BY <1>6 DEF ApiFill, RunGoesOn, RunEnds
<1>7. ASSUME UNCHANGED vars PROVE FALSE
      BY <1>7 DEF vars
<1>8. QED
      BY <1>1, <1>2, <1>3, <1>4, <1>5, <1>6, <1>7, StepKinds

\* A step of one tenant's request changes no other tenant's documents, the
\* shared ones included, but for what an earlier failure of theirs left open.
\* (the tenant scoping of delete_document, put, delete and upsert)
THEOREM TenantsStayApart == Spec => TenantsApart
<1>1. ASSUME LInv, LInv', [Next]_vars, NEW r \in Requests, InFlight(r),
             pc'[r] # pc[r], pc'[r] # "lost", req[r].key[2] # Shared,
             NEW o \in Owners \ ({req[r].key[2]} \cup txn.owners)
      PROVE  UNCHANGED Theirs(o)
  <2> USE DEF LInv
  <2>1. \A d \in Docs : <<d, o>> \in Keys /\ <<d, o>> # req[r].key
        BY <1>1 DEF Keys
  <2>2. CASE StoreCall(r)
    <3> DEFINE seen == Seen
    <3>1. PICK half \in Tables, new \in Tables, next \in Busy :
             /\ seen = db \/ (seen = txn.db /\ txn.conn # "none" /\ txn.by = 0)
             /\ Written(r, half, new, next)
             /\ UNCHANGED ledger /\ Edits(r, seen, new)
          BY <1>1, <2>2, StoreCallEffect
    <3> HIDE DEF seen
    <3>2. ASSUME NEW row \in Rows, row.owner = o
          PROVE  (row \in db'.index <=> row \in db.index) /\ (row \in db'.blocks <=> row \in db.blocks)
      <4>1. (row \in new.index <=> row \in seen.index)
              /\ (row \in new.blocks <=> row \in seen.blocks)
            BY <1>1, <3>1, <3>2, EditsSpareOwners
      <4>2. (row \in seen.index <=> row \in db.index)
              /\ (row \in seen.blocks <=> row \in db.blocks)
            BY <1>1, <3>1, <3>2 DEF OpenChangeIsTheirs
      <4>3. QED
            BY <3>1, <4>1, <4>2 DEF Written
    <3>3. QED
          BY <1>1, <3>1, <3>2, SameRowsSameTheirs
  <2>3. CASE Quiet(r) \/ Audit(r)
        BY <1>1, <2>3, QuietEffect, AuditEffect, SameRowsSameTheirs
  <2>4. CASE LedgerCall(r)
    <3>1. db' = db /\ \A k \in Keys : k # req[r].key => ledger'[k] = ledger[k]
          BY <1>1, <2>4, LedgerCallEffect
    <3>2. QED
          BY <1>1, <2>1, <3>1, SameRowsSameTheirs
  <2>5. ~Fill(r)
        BY <1>1, FillEffect DEF Shaped
  <2>6. QED
        BY <1>1, <2>2, <2>3, <2>4, <2>5, WhoseStep
<1>2. LInv /\ LInv' /\ [Next]_vars =>
        [\A r \in Requests :
            (pc'[r] # pc[r] /\ pc'[r] # "lost" /\ InFlight(r) /\ req[r].key[2] # Shared)
              => \A o \in Owners \ ({req[r].key[2]} \cup txn.owners) : UNCHANGED Theirs(o)]_vars
      BY <1>1
<1>3. QED
      BY <1>2, LocalInvariant, PTL DEF Spec, TenantsApart

\* A request that reports success, and that nothing on its document and no
\* self-seeding overlapped, leaves the three stores agreeing and is on record.
\* (IngestionService.ingest, delete)
THEOREM SuccessIsWhole == Spec => SuccessHeals
<1>1. ASSUME LInv, [Next]_vars, NEW r \in Requests,
             pc[r] = "audit", pc'[r] = "ok", alone[r]
      PROVE  Agrees(r) /\ <<r, "allowed">> \in trail'
  <2> USE DEF LInv
  <2>1. InFlight(r)
        BY <1>1 DEF InFlight, Busy
  <2>2. ~Fill(r) /\ ~StoreCall(r) /\ ~LedgerCall(r) /\ ~Quiet(r)
    <3>1. ~Fill(r) /\ ~StoreCall(r) /\ ~LedgerCall(r)
          BY <1>1 DEF Fill, Seedings, StoreCall, DropIndex, Add, Put, DropBlocks,
                      LedgerCall, Hide, Record, DropLedger, RecordFailure
    <3>2. ~Quiet(r)
          BY <1>1, QuietEffect
    <3>3. QED
          BY <3>1, <3>2
  <2>3. Audit(r)
        BY <1>1, <2>1, <2>2, WhoseStep
  <2>4. <<r, "allowed">> \in trail'
        BY <2>3 DEF Audit, OnRecord
  <2>5. Reached("audit", r, db) /\ OnLedger(r)
        BY <1>1, <2>1 DEF WorkIsKept
  <2>6. Agrees(r)
        BY <2>5 DEF Agrees, Reached, Wanted, OnLedger
  <2>7. QED
        BY <2>4, <2>6
<1>2. LInv /\ [Next]_vars =>
        [\A r \in Requests :
            (pc[r] = "audit" /\ pc'[r] = "ok" /\ alone[r])
              => Agrees(r) /\ <<r, "allowed">> \in trail']_vars
      BY <1>1
<1>3. QED
      BY <1>2, LocalInvariant, PTL DEF Spec, SuccessHeals
=============================================================================
