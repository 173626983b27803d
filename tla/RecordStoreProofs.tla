-------------------------- MODULE RecordStoreProofs --------------------------
(***************************************************************************)
(* Proofs about the composite store (internal/repo, internal/shard), for   *)
(* any number of threads, references, days, operations, faults and losses, *)
(* and any size of the files.                                              *)
(*                                                                         *)
(* The properties of RecordStore relate files, tables, sessions and the    *)
(* history of commits; the invariant below, StoreInv, has what each needs: *)
(* one holder of the lock, new stamps for whatever is still to be written, *)
(* one place for each row, the order of the places and of the commits, and *)
(* an entry of the audit for every rule that was superseded.               *)
(***************************************************************************)
EXTENDS RecordStore, SequenceTheorems, FiniteSetTheorems, WellFoundedInduction, TLAPS

(***************************************************************************)
(* The inductive invariant: types, and who holds the connection and the lock *)
(***************************************************************************)
AnyLine == UNION {Line(k) : k \in Kind}

Entry == [file: File, count: Nat, checksum: Seq(AnyLine)]

Tables ==
  [items: SUBSET Record.items, rules: SUBSET Record.rules,
   assignments: SUBSET Record.assignments, escalations: SUBSET Record.escalations,
   audit: SUBSET Record.audit, intakes: SUBSET Nat, manifest: SUBSET Entry]

InsertOf(k) == [op: {"insert"}, kind: {k}, row: Record[k], day: Day]

Inserts == UNION {InsertOf(k) : k \in Kind}
Updates == [op: {"update"}, kind: {"items"}, row: Record.items]
ItemStatements == [op: {"supersede_referrals", "bind"}, item: Nat]
RuleStatements == [op: {"supersede_rule"}, version: Nat]

Statement == Inserts \cup Updates \cup ItemStatements \cup RuleStatements

Session ==
  [todo: Seq(Statement), open: BOOLEAN, locked: BOOLEAN, written: BOOLEAN]

Controller ==
  [stage: {"idle", "reading", "replaced", "failed", "done"},
   todo: SUBSET File, listed: SUBSET File, corrupted: SUBSET File,
   read: [Kind -> Seq(AnyLine)]]

Reconciler ==
  [stage: {"idle", "listed"}, listed: SUBSET File, manifest: SUBSET Entry]

\* The types of all variables.
TypeInv ==
  /\ day \in Day
  /\ shards \in [Kind -> [Day -> Seq(AnyLine)]]
  /\ \A k \in Kind : \A d \in Day : shards[k][d] \in Seq(Line(k))
  /\ db \in Tables /\ view \in Tables
  /\ session \in [Thread -> Session]
  /\ ctl \in Controller
  /\ \A k \in Kind : ctl.read[k] \in Seq(Line(k))
  /\ recon \in Reconciler
  /\ stamps \in 0..MaxStamp /\ faults \in 0..MaxFaults /\ losses \in 0..MaxLosses
  /\ committed \in Seq(Record.items)
  /\ retired \subseteq Nat

\* Statements by what they write.
WritesItem(s) == HasLine(s) /\ s.kind = "items"
AddsItem(s) == s.op = "insert" /\ s.kind = "items"
AddsRule(s) == s.op = "insert" /\ s.kind = "rules"
AddsAudit(s) == s.op = "insert" /\ s.kind = "audit"

\* Neither the line nor the row of this statement is written yet.
Waiting(s, i) == i \in DOMAIN s.todo /\ ~(i = 1 /\ s.written)

\* One session has the connection; the lock is held by that session or by the
\* rebuild that replaces the tables; nobody holds it and the view is the index.
LockInv ==
  /\ \A t \in Thread :
       /\ session[t].locked => session[t].open
       /\ session[t].written => /\ session[t].open /\ ~session[t].locked
                                /\ session[t].todo # <<>>
                                /\ HasLine(Head(session[t].todo))
  /\ \A t, u \in Thread : session[t].open /\ session[u].open => t = u
  /\ ctl.stage = "replaced" => \A t \in Thread : ~session[t].locked
  /\ (ctl.stage # "replaced" /\ \A t \in Thread : ~session[t].locked) => view = db

\* A manifest counts what was in the base files, and they only grow.
ManifestInv ==
  \A m \in db.manifest \cup view.manifest \cup recon.manifest :
     m.count <= Len(Base(m.file.kind, m.file.day))

\* Foreign keys hold, in the index and in the view.
IntakeInv ==
  /\ db.intakes \subseteq Keys(db.items)
  /\ view.intakes \subseteq Keys(view.items)

(***************************************************************************)
(* What is known of rows and stamps, and what is still to be written       *)
(***************************************************************************)
Readable(lines) == {lines[n] : n \in {m \in DOMAIN lines : Decodable(lines[m])}}

LinesOf(kind) == UNION {Readable(shards[kind][d]) : d \in Day}

\* The rows that are anywhere but in a statement under way.
ItemsSeen ==
  LinesOf("items") \cup Readable(ctl.read["items"]) \cup view.items \cup db.items
    \cup {committed[i] : i \in DOMAIN committed}

Ids(rules) == {<<r.stamp, r.key>> : r \in rules}

RulesSeen ==
  Ids(LinesOf("rules") \cup Readable(ctl.read["rules"]) \cup view.rules \cup db.rules)

AuditSeen == LinesOf("audit") \cup Readable(ctl.read["audit"])

\* The row of a statement is nowhere yet.
ItemFresh(t, i) ==
  LET s == session[t].todo[i] IN
  /\ \A r \in ItemsSeen : r.stamp # s.row.stamp
  /\ AddsItem(s) => \A r \in ItemsSeen : r.key # s.row.key

RuleFresh(t, i) ==
  LET s == session[t].todo[i] IN
  /\ \A x \in RulesSeen : x[1] # s.row.stamp

AuditFresh(t, i) ==
  LET s == session[t].todo[i] IN
  /\ \A a \in AuditSeen : a.key # s.row.key

\* Stamps and keys come from the counter of operations; version n + 1 is the
\* highest after n operations.
StampInv ==
  /\ \A r \in ItemsSeen : r.stamp <= stamps /\ r.key <= stamps
  /\ \A x \in RulesSeen : x[1] <= stamps /\ x[2] <= stamps + 1
  /\ \A a \in AuditSeen : a.key <= stamps
  /\ \A x \in retired : x <= stamps
  /\ \A t \in Thread : \A i \in DOMAIN session[t].todo :
       LET s == session[t].todo[i] IN
       /\ WritesItem(s) => s.row.stamp <= stamps /\ s.row.key <= stamps
       /\ AddsRule(s) => s.row.stamp <= stamps /\ s.row.key <= stamps + 1 /\ s.row.active
       /\ AddsAudit(s) => s.row.key <= stamps

\* What waits to be written is new.
FreshInv ==
  \A t \in Thread : \A i \in DOMAIN session[t].todo :
     LET s == session[t].todo[i] IN
     /\ WritesItem(s) /\ Waiting(session[t], i) => ItemFresh(t, i)
     /\ AddsRule(s) /\ Waiting(session[t], i) => RuleFresh(t, i)
     /\ AddsRule(s) => s.row.stamp \notin retired
     /\ AddsAudit(s) /\ Waiting(session[t], i) => AuditFresh(t, i)

\* Two statements under way do not write the same.
ApartInv ==
  /\ \A t, u \in Thread : t # u =>
      \A i \in DOMAIN session[t].todo, j \in DOMAIN session[u].todo :
         LET s == session[t].todo[i]
             q == session[u].todo[j]
         IN
         /\ WritesItem(s) /\ WritesItem(q) => s.row.stamp # q.row.stamp
         /\ AddsItem(s) /\ Waiting(session[t], i) /\ WritesItem(q) => s.row.key # q.row.key
         /\ AddsRule(s) /\ AddsRule(q) => s.row.stamp # q.row.stamp
         /\ AddsAudit(s) /\ AddsAudit(q) => s.row.key # q.row.key
  /\ \A t \in Thread : \A i, j \in DOMAIN session[t].todo :
         LET s == session[t].todo[i]
             q == session[t].todo[j]
         IN
         /\ WritesItem(s) /\ WritesItem(q) => i = j
         /\ AddsRule(s) /\ AddsRule(q) => i = j
         /\ AddsAudit(s) /\ AddsAudit(q) => i = j
  /\ \A t \in Thread : \A i \in DOMAIN session[t].todo :
         AddsItem(session[t].todo[i]) => session[t].todo[i].day <= day

(***************************************************************************)
(* The order of the shards and of the commits                              *)
(***************************************************************************)
\* Every row has one place, and no file has a date to come.
OnceInv ==
  /\ \A row \in Record.items : \A p, q \in Places(row) : p = q
  /\ \A d \in Day : d > day => shards["items"][d] = <<>>

\* The rows a session is to write or has written without a commit.
InFlight(t) ==
  {session[t].todo[i].row : i \in {j \in DOMAIN session[t].todo : WritesItem(session[t].todo[j])}}
  \cup (IF session[t].locked THEN view.items \ db.items ELSE {})

\* They stand behind every committed row of the same suggestion.
OrderInv ==
  \A t \in Thread : \A row \in InFlight(t) : \A i \in DOMAIN committed :
     committed[i].key = row.key =>
       \A p \in Places(committed[i]), q \in Places(row) : Before(p, q)

\* The row has been written, or its line was lost.
Placed(t) ==
  (IF session[t].written /\ WritesItem(Head(session[t].todo)) THEN {Head(session[t].todo).row} ELSE {})
  \cup (IF session[t].locked THEN view.items \ db.items ELSE {})

Lost == {i \in DOMAIN committed : Places(committed[i]) = {}}

\* A row whose line was lost under way leaves room for itself in the bound.
LostInv ==
  /\ IsFiniteSet(Places(Garbled))
  /\ \A t \in Thread : \A row \in Placed(t) :
       Places(row) = {} => Cardinality(Lost) + 1 <= Cardinality(Places(Garbled))

\* A rebuild has read items in the order of their places, and what it replaces
\* them by is the last of each key.
ReadInv ==
  LET read == ctl.read["items"] IN
  /\ \A n \in DOMAIN read : Decodable(read[n]) => Places(read[n]) # {}
  /\ \A m, n \in DOMAIN read : m < n /\ Decodable(read[m]) /\ Decodable(read[n]) =>
       \A p \in Places(read[m]), q \in Places(read[n]) : Before(p, q)
  /\ \A n \in DOMAIN read, f \in ctl.todo : f.kind = "items" /\ Decodable(read[n]) =>
       \A p \in Places(read[n]) : p[1] < f.day
  /\ ctl.stage = "replaced" => view.items = Latest(read)

(***************************************************************************)
(* The rules and their audit                                               *)
(***************************************************************************)
\* The files of the audit are neither full nor damaged.
AuditFull == (\A d \in Day : Base("audit", d) = shards["audit"][d]) /\ faults = 0

\* The entry that version v was superseded is on the shards, was read, or is in
\* a file still to be read.
AuditOn(v) == \E a \in LinesOf("audit") : a.rule = v
AuditRead(v) == \E a \in Readable(ctl.read["audit"]) : a.rule = v
AuditToRead(v) ==
  \E f \in ctl.todo : f.kind = "audit" /\ \E a \in Readable(shards["audit"][f.day]) : a.rule = v

\* A stamp belongs to one version of the rules, a key to one entry of the audit.
IdsInv ==
  /\ \A x, y \in RulesSeen : x[1] = y[1] => x[2] = y[2]
  /\ \A a, b \in AuditSeen : a.key = b.key => a.rule = b.rule
  /\ \A t \in Thread : \A i \in DOMAIN session[t].todo :
       LET s == session[t].todo[i] IN
       /\ AddsRule(s) => \A x \in RulesSeen : x[1] = s.row.stamp => x[2] = s.row.key
       /\ AddsAudit(s) => \A a \in AuditSeen : a.key = s.row.key => a.rule = s.row.rule

\* One row for each version; a transaction deletes none.
KeysInv ==
  /\ \A r, q \in db.rules : r.key = q.key => r = q
  /\ \A r, q \in view.rules : r.key = q.key => r = q
  /\ Keys(db.rules) \subseteq Keys(view.rules)

\* Lines of rules say active: a rule is superseded in the index only.
ActiveInv == \A r \in LinesOf("rules") \cup Readable(ctl.read["rules"]) : r.active

\* A transaction supersedes a rule right before it writes the entry that says so,
\* and that entry is never its first statement.
AuditedInv ==
  /\ \A t \in Thread : \A i \in DOMAIN session[t].todo :
       session[t].todo[i].op = "supersede_rule" =>
         /\ i + 1 \in DOMAIN session[t].todo
         /\ AddsAudit(session[t].todo[i + 1])
         /\ session[t].todo[i + 1].row.rule = session[t].todo[i].version
  /\ \A t \in Thread : ~session[t].locked =>
        \A i \in DOMAIN session[t].todo : AddsAudit(session[t].todo[i]) => i > 1

RuleInv == IdsInv /\ KeysInv /\ ActiveInv /\ AuditedInv

\* While the audit is whole, a superseded rule has its entry on the shards before
\* the commit that makes it known, and every row of it is inactive.
RetireInv ==
  AuditFull =>
    /\ \A d \in Day : \A n \in DOMAIN shards["audit"][d] : shards["audit"][d][n] # Torn
    /\ Readable(ctl.read["audit"]) \subseteq LinesOf("audit")
    /\ \A x \in RulesSeen : x[1] \in retired => AuditOn(x[2])
    /\ ctl.stage = "reading" => \A x \in RulesSeen : x[1] \in retired =>
         x[2] \in Keys(db.rules) \/ AuditRead(x[2]) \/ AuditToRead(x[2])
    /\ \A r \in db.rules : ~r.active => AuditOn(r.key)
    /\ \A r \in view.rules : ~r.active =>
         \/ AuditOn(r.key)
         \/ \E t \in Thread : session[t].locked /\ \E i \in DOMAIN session[t].todo :
              AddsAudit(session[t].todo[i]) /\ session[t].todo[i].row.rule = r.key
    /\ \A r \in db.rules \cup view.rules : r.stamp \in retired => ~r.active

(***************************************************************************)
(* Lines and files                                                         *)
(***************************************************************************)
LEMMA Kinds ==
  \A k \in Kind : \/ k = "items" \/ k = "rules" \/ k = "assignments"
                  \/ k = "escalations" \/ k = "audit"
  BY DEF Kind

\* A torn line and a garbled one cannot be decoded, and differ.
LEMMA Damaged == ~Decodable(Torn) /\ ~Decodable(Garbled) /\ Torn # Garbled
  BY DEF Decodable, Torn, Garbled

\* A record can be decoded and has a key.
LEMMA Records ==
  \A k \in Kind : \A r \in Record[k] : Decodable(r) /\ r.key \in Nat
<1>1. \A r \in Record["items"] : Decodable(r) /\ r.key \in Nat
  BY DEF Record, Decodable
<1>2. \A r \in Record["rules"] : Decodable(r) /\ r.key \in Nat
  BY DEF Record, Decodable
<1>3. \A r \in Record["assignments"] : Decodable(r) /\ r.key \in Nat
  BY DEF Record, Decodable
<1>4. \A r \in Record["escalations"] : Decodable(r) /\ r.key \in Nat
  BY DEF Record, Decodable
<1>5. \A r \in Record["audit"] : Decodable(r) /\ r.key \in Nat
  BY DEF Record, Decodable
<1>. QED
  BY <1>1, <1>2, <1>3, <1>4, <1>5, Kinds

\* What can be decoded among the lines of a kind are its records.
LEMMA Lines ==
  \A k \in Kind :
    /\ \A x \in Line(k) : Decodable(x) <=> x \in Record[k]
    /\ \A x \in Record[k] : x \in Line(k)
    /\ Torn \in Line(k) /\ Garbled \in Line(k)
    /\ \A s \in Seq(Line(k)) : s \in Seq(AnyLine)
<1>1. \A k \in Kind : Line(k) \subseteq AnyLine
  BY DEF AnyLine
<1>. QED
  BY <1>1, Records, Damaged DEF Line

\* What a write does to a file: the record is its last line, or the torn line
\* it follows spoils it.
Appended(old, new, x) ==
  /\ Len(new) = Len(old) + 1
  /\ new[Len(old) + 1] = x
  /\ \A n \in 1..Len(old) : new[n] = old[n]

Spoiled(old, new) ==
  /\ Len(new) = Len(old) /\ Len(old) # 0
  /\ old[Len(old)] = Torn /\ new[Len(old)] = Garbled
  /\ \A n \in 1..(Len(old) - 1) : new[n] = old[n]

\* Writer.Append adds a line, or spoils the torn one that ends the file.
LEMMA WrittenLines ==
  ASSUME NEW k \in Kind, NEW lines \in Seq(Line(k)), NEW r \in Record[k],
         NEW new \in Written(lines, r)
  PROVE  /\ new \in Seq(Line(k))
         /\ Appended(lines, new, r) \/ Spoiled(lines, new)
         /\ (\A n \in DOMAIN lines : lines[n] # Torn) => Appended(lines, new, r)
<1>. DEFINE behind == [lines EXCEPT ![Len(lines)] = Garbled]
<1>1. r \in Line(k) /\ Torn \in Line(k) /\ Garbled \in Line(k)
  BY Lines
<1>2. new = Append(lines, r) \/ (EndsTorn(lines) /\ new = behind)
  BY DEF Written
<1>3. CASE new = Append(lines, r)
  BY <1>1, <1>3 DEF Appended
<1>4. CASE EndsTorn(lines) /\ new = behind
  BY <1>1, <1>4 DEF EndsTorn, Spoiled
<1>. QED
  BY <1>2, <1>3, <1>4

\* A write that fails adds a torn line, or nothing more to one.
LEMMA WrittenInPartLines ==
  ASSUME NEW k \in Kind, NEW lines \in Seq(Line(k)),
         NEW new \in WrittenInPart(lines)
  PROVE  /\ new \in Seq(Line(k))
         /\ new = lines \/ Appended(lines, new, Torn)
<1>1. Torn \in Line(k)
  BY Lines
<1>2. new = lines \/ new = Append(lines, Torn)
  BY DEF WrittenInPart
<1>. QED
  BY <1>1, <1>2 DEF Appended

\* What the base file of a shard holds of its lines.
Visible(lines) ==
  IF ShardLines = 0 \/ Len(lines) < ShardLines THEN lines
  ELSE SubSeq(lines, 1, ShardLines)

LEMMA BaseIsVisible == \A k \in Kind, d \in Day : Base(k, d) = Visible(shards[k][d])
  BY DEF Base, Visible

\* The base file is a prefix of the lines, and all of them up to the limit.
LEMMA VisibleLines ==
  ASSUME ConstantsAssumption, NEW S, NEW lines \in Seq(S)
  PROVE  /\ Visible(lines) \in Seq(S)
         /\ Len(Visible(lines)) <= Len(lines)
         /\ Len(Visible(lines)) = IF ShardLines = 0 \/ Len(lines) < ShardLines
                                  THEN Len(lines) ELSE ShardLines
         /\ \A n \in 1..Len(Visible(lines)) : Visible(lines)[n] = lines[n]
         /\ Visible(lines) = lines <=> ShardLines = 0 \/ Len(lines) <= ShardLines
<1>1. Len(lines) \in Nat /\ ShardLines \in Nat
  BY DEF ConstantsAssumption
<1>2. CASE ShardLines = 0 \/ Len(lines) < ShardLines
  BY <1>1, <1>2 DEF Visible
<1>3. CASE ~(ShardLines = 0 \/ Len(lines) < ShardLines)
  <2>1. Visible(lines) = SubSeq(lines, 1, ShardLines)
    BY <1>3 DEF Visible
  <2>2. /\ SubSeq(lines, 1, ShardLines) \in Seq(S)
        /\ Len(SubSeq(lines, 1, ShardLines)) = ShardLines
        /\ \A n \in 1..ShardLines : SubSeq(lines, 1, ShardLines)[n] = lines[n]
    BY <1>1, <1>3
  <2>3. Len(lines) = ShardLines => SubSeq(lines, 1, ShardLines) = lines
    BY <1>1, <1>3
  <2>. QED
    BY <1>1, <1>3, <2>1, <2>2, <2>3
<1>. QED
  BY <1>2, <1>3

LEMMA BaseTyped ==
  ASSUME ConstantsAssumption, NEW k \in Kind, NEW d \in Day,
         shards[k][d] \in Seq(Line(k))
  PROVE  Base(k, d) \in Seq(Line(k))
  BY BaseIsVisible, VisibleLines

\* The step changes one file.
OthersKept(k, d) ==
  \A j \in Kind, e \in Day : j # k \/ e # d => shards'[j][e] = shards[j][e]

Appends(k, d, x) == OthersKept(k, d) /\ Appended(shards[k][d], shards'[k][d], x)

Spoils(k, d) == OthersKept(k, d) /\ Spoiled(shards[k][d], shards'[k][d])

ShardsTyped ==
  /\ shards \in [Kind -> [Day -> Seq(AnyLine)]]
  /\ \A k \in Kind : \A d \in Day : shards[k][d] \in Seq(Line(k))

\* A write on the shards changes one file, by the record or by the damage.
LEMMA Writes ==
  ASSUME TypeInv, NEW k \in Kind, NEW d \in Day, NEW r \in Record[k],
         NEW line \in Written(shards[k][d], r),
         shards' = [shards EXCEPT ![k][d] = line]
  PROVE  /\ ShardsTyped'
         /\ Appends(k, d, r) \/ Spoils(k, d)
         /\ (\A n \in DOMAIN shards[k][d] : shards[k][d][n] # Torn) => Appends(k, d, r)
<1>1. shards[k][d] \in Seq(Line(k))
  BY DEF TypeInv
<1>2. PICK new \in Seq(Line(k)) : new = line
  BY <1>1, WrittenLines
<1>3. shards' = [shards EXCEPT ![k][d] = new]
  BY <1>2
<1>4. new \in Seq(AnyLine)
  BY Lines
<1>5. shards'[k][d] = new /\ OthersKept(k, d)
  BY <1>3 DEF TypeInv, OthersKept
<1>6. ShardsTyped'
  BY <1>3, <1>4, <1>5 DEF TypeInv, ShardsTyped, OthersKept
<1>. QED
  BY <1>1, <1>2, <1>5, <1>6, WrittenLines DEF Appends, Spoils

\* A failed one leaves a torn line in one file, or changes nothing.
LEMMA WritesInPart ==
  ASSUME TypeInv, NEW k \in Kind, NEW d \in Day,
         NEW line \in WrittenInPart(shards[k][d]),
         shards' = [shards EXCEPT ![k][d] = line]
  PROVE  /\ ShardsTyped'
         /\ shards' = shards \/ Appends(k, d, Torn)
<1>1. shards[k][d] \in Seq(Line(k))
  BY DEF TypeInv
<1>2. PICK new \in Seq(Line(k)) : new = line
  BY <1>1, WrittenInPartLines
<1>3. shards' = [shards EXCEPT ![k][d] = new]
  BY <1>2
<1>4. new \in Seq(AnyLine)
  BY Lines
<1>5. shards'[k][d] = new /\ OthersKept(k, d)
  BY <1>3 DEF TypeInv, OthersKept
<1>6. ShardsTyped'
  BY <1>3, <1>4, <1>5 DEF TypeInv, ShardsTyped, OthersKept
<1>7. new = shards[k][d] => shards' = shards
  BY <1>3 DEF TypeInv
<1>. QED
  BY <1>1, <1>2, <1>5, <1>6, <1>7, WrittenInPartLines DEF Appends

(***************************************************************************)
(* Statements and sessions                                                 *)
(***************************************************************************)
LEMMA Statements ==
  ASSUME NEW s \in Statement
  PROVE  /\ HasLine(s) => s.kind \in Kind /\ s.row \in Record[s.kind]
         /\ s.op \in {"insert", "update", "supersede_referrals", "supersede_rule", "bind"}
         /\ s.op = "insert" => s.day \in Day
         /\ s.op = "update" => s.kind = "items"
         /\ s.op = "supersede_rule" => s.version \in Nat
         /\ s.op \in {"bind", "supersede_referrals"} => s.item \in Nat
<1>1. s \in Inserts \/ s \in Updates \/ s \in ItemStatements \/ s \in RuleStatements
  BY DEF Statement
<1>2. s \in Inserts => \E k \in Kind : s \in InsertOf(k)
  BY DEF Inserts
<1>3. ASSUME NEW k \in Kind, s \in InsertOf(k)
      PROVE  s.op = "insert" /\ s.kind = k /\ s.row \in Record[k] /\ s.day \in Day
  BY <1>3 DEF InsertOf
<1>4. ASSUME s \in Updates
      PROVE  s.op = "update" /\ s.kind = "items" /\ s.row \in Record["items"]
  BY <1>4 DEF Updates
<1>5. ASSUME s \in ItemStatements
      PROVE  s.op \in {"supersede_referrals", "bind"} /\ s.item \in Nat
  BY <1>5 DEF ItemStatements
<1>6. ASSUME s \in RuleStatements
      PROVE  s.op = "supersede_rule" /\ s.version \in Nat
  BY <1>6 DEF RuleStatements
<1>7. "items" \in Kind
  BY DEF Kind
<1>. QED
  BY <1>1, <1>2, <1>3, <1>4, <1>5, <1>6, <1>7 DEF HasLine

\* The file a statement's line goes to.
LEMMA LineGoesTo ==
  ASSUME TypeInv, NEW s \in Statement, HasLine(s)
  PROVE  s.kind \in Kind /\ s.row \in Record[s.kind] /\ DayOf(s) \in Day
  BY Statements DEF TypeInv, DayOf, HasLine

\* The session of t is replaced by one with these fields.
Becomes(t, todo, open, locked, written) ==
  /\ session'[t].todo = todo /\ session'[t].open = open
  /\ session'[t].locked = locked /\ session'[t].written = written
  /\ \A u \in Thread \ {t} : session'[u] = session[u]

\* How the steps of a transaction leave the sessions.
LEMMA BeginBecomes ==
  ASSUME session \in [Thread -> Session], NEW t \in Thread,
         NEW todo \in Seq(Statement), session[t] = Idle,
         session' = [session EXCEPT ![t].todo = todo]
  PROVE  /\ session' \in [Thread -> Session]
         /\ Becomes(t, todo, FALSE, FALSE, FALSE)
<1>1. /\ Idle \in Session
      /\ Idle.open = FALSE /\ Idle.locked = FALSE /\ Idle.written = FALSE
  BY DEF Idle, Session
<1>2. PICK s \in Session : s = Idle
  BY <1>1
<1>3. LET new == [s EXCEPT !.todo = todo]
      IN  /\ new \in Session
          /\ new.todo = todo /\ new.open = s.open
          /\ new.locked = s.locked /\ new.written = s.written
  BY DEF Session
<1>4. session' = [session EXCEPT ![t] = [s EXCEPT !.todo = todo]]
  BY <1>2
<1>. QED
  BY <1>1, <1>2, <1>3, <1>4 DEF Becomes

LEMMA Opened ==
  ASSUME NEW s \in Session
  PROVE  LET new == [[s EXCEPT !.open = TRUE] EXCEPT !.written = TRUE]
         IN  /\ new \in Session
             /\ new.todo = s.todo /\ new.open = TRUE
             /\ new.locked = s.locked /\ new.written = TRUE
<1>. DEFINE s1 == [s EXCEPT !.open = TRUE]
<1>1. /\ s1 \in Session
      /\ s1.todo = s.todo /\ s1.open = TRUE /\ s1.locked = s.locked
  BY DEF Session
<1>. HIDE DEF s1
<1>2. LET new == [s1 EXCEPT !.written = TRUE]
      IN  /\ new \in Session
          /\ new.todo = s1.todo /\ new.open = s1.open
          /\ new.locked = s1.locked /\ new.written = TRUE
  BY <1>1 DEF Session
<1>. QED
  BY <1>1, <1>2 DEF s1

LEMMA AppendBecomes ==
  ASSUME session \in [Thread -> Session], NEW t \in Thread,
         session' = [session EXCEPT ![t].open = TRUE, ![t].written = TRUE]
  PROVE  /\ session' \in [Thread -> Session]
         /\ Becomes(t, session[t].todo, TRUE, session[t].locked, TRUE)
<1>1. PICK s \in Session : s = session[t]
  OBVIOUS
<1>2. PICK new \in Session : new = [[s EXCEPT !.open = TRUE] EXCEPT !.written = TRUE]
  BY Opened
<1>3. session' = [session EXCEPT ![t] = new]
  BY <1>1, <1>2
<1>4. /\ new.todo = s.todo /\ new.open = TRUE
      /\ new.locked = s.locked /\ new.written = TRUE
  BY <1>2, Opened
<1>. QED
  BY <1>1, <1>3, <1>4 DEF Becomes

LEMMA UndoneBecomes ==
  ASSUME session \in [Thread -> Session], NEW t \in Thread,
         session' = [session EXCEPT ![t] = Idle]
  PROVE  /\ session' \in [Thread -> Session]
         /\ Becomes(t, <<>>, FALSE, FALSE, FALSE)
<1>1. Idle \in Session
  BY DEF Idle, Session
<1>2. /\ Idle.todo = <<>> /\ Idle.open = FALSE
      /\ Idle.locked = FALSE /\ Idle.written = FALSE
  BY DEF Idle
<1>. QED
  BY <1>1, <1>2 DEF Becomes

LEMMA ExecutedBecomes ==
  ASSUME session \in [Thread -> Session], NEW t \in Thread,
         session[t].todo # <<>>,
         session' = [session EXCEPT ![t] =
           [todo |-> Tail(@.todo), open |-> TRUE, locked |-> TRUE, written |-> FALSE]]
  PROVE  /\ session' \in [Thread -> Session]
         /\ Becomes(t, Tail(session[t].todo), TRUE, TRUE, FALSE)
<1>1. session[t].todo \in Seq(Statement)
  BY DEF Session
<1>2. PICK rest \in Seq(Statement) : rest = Tail(session[t].todo)
  <2>1. PICK todo \in Seq(Statement) : todo = session[t].todo
    BY <1>1
  <2>2. Tail(todo) \in Seq(Statement)
    BY <2>1
  <2>. QED
    BY <2>1, <2>2
<1>3. PICK s \in Session :
        s = [todo |-> rest, open |-> TRUE, locked |-> TRUE, written |-> FALSE]
  BY DEF Session
<1>4. session' = [session EXCEPT ![t] = s]
  BY <1>2, <1>3
<1>5. s.todo = rest /\ s.open = TRUE /\ s.locked = TRUE /\ s.written = FALSE
  BY <1>3
<1>. QED
  BY <1>2, <1>4, <1>5 DEF Becomes

(***************************************************************************)
(* The tables                                                              *)
(***************************************************************************)
LEMMA SetItems ==
  ASSUME NEW T \in Tables, NEW rows \in SUBSET Record.items
  PROVE  LET new == [T EXCEPT !.items = rows]
         IN  /\ new \in Tables /\ new.items = rows
             /\ new.rules = T.rules /\ new.audit = T.audit
             /\ new.intakes = T.intakes /\ new.manifest = T.manifest
  BY DEF Tables

\* The same for the other tables.
LEMMA SetRules ==
  ASSUME NEW T \in Tables, NEW rows \in SUBSET Record.rules
  PROVE  LET new == [T EXCEPT !.rules = rows]
         IN  /\ new \in Tables /\ new.rules = rows
             /\ new.items = T.items /\ new.audit = T.audit
             /\ new.intakes = T.intakes /\ new.manifest = T.manifest
  BY DEF Tables

LEMMA SetOthers ==
  ASSUME NEW T \in Tables, NEW new,
         \/ \E rows \in SUBSET Record.assignments : new = [T EXCEPT !.assignments = rows]
         \/ \E rows \in SUBSET Record.escalations : new = [T EXCEPT !.escalations = rows]
         \/ \E rows \in SUBSET Record.audit : new = [T EXCEPT !.audit = rows]
  PROVE  /\ new \in Tables /\ new.rules = T.rules /\ new.items = T.items
         /\ new.intakes = T.intakes /\ new.manifest = T.manifest
  BY DEF Tables

LEMMA SetIntakes ==
  ASSUME NEW T \in Tables, NEW rows \in SUBSET Nat
  PROVE  LET new == [T EXCEPT !.intakes = rows]
         IN  /\ new \in Tables /\ new.rules = T.rules /\ new.items = T.items
             /\ new.intakes = rows /\ new.manifest = T.manifest
  BY DEF Tables

\* Retire clears the flag of the versions given and keeps all else.
LEMMA RetiredRules ==
  ASSUME NEW rules \in SUBSET Record.rules, NEW versions
  PROVE  /\ Retire(rules, versions) \in SUBSET Record.rules
         /\ \A r \in Retire(rules, versions) : \E q \in rules :
              /\ r.key = q.key /\ r.stamp = q.stamp
              /\ r.active = (q.active /\ q.key \notin versions)
         /\ \A q \in rules : \E r \in Retire(rules, versions) :
              /\ r.key = q.key /\ r.stamp = q.stamp
              /\ r.active = (q.active /\ q.key \notin versions)
<1>. DEFINE img(q) == IF q.key \in versions THEN [q EXCEPT !.active = FALSE] ELSE q
<1>1. Record["rules"] = [key: Nat, stamp: Nat, active: BOOLEAN]
  BY DEF Record
<1>2. ASSUME NEW q \in rules
      PROVE  /\ img(q) \in Record["rules"]
             /\ img(q).key = q.key /\ img(q).stamp = q.stamp
             /\ img(q).active = (q.active /\ q.key \notin versions)
  <2>1. q \in [key: Nat, stamp: Nat, active: BOOLEAN]
    BY <1>1
  <2>2. CASE q.key \in versions
    BY <1>1, <2>1, <2>2
  <2>3. CASE q.key \notin versions
    BY <1>1, <2>1, <2>3
  <2>. QED
    BY <2>2, <2>3
<1>3. Retire(rules, versions) = {img(q) : q \in rules}
  BY DEF Retire
<1>. HIDE DEF img
<1>. QED
  BY <1>2, <1>3

LEMMA ReferralCleared ==
  ASSUME NEW a \in Record["assignments"]
  PROVE  [a EXCEPT !.current = FALSE] \in Record["assignments"]
<1>1. Record["assignments"] = [key: Nat, item: Nat, current: BOOLEAN]
  BY DEF Record
<1>2. a \in [key: Nat, item: Nat, current: BOOLEAN]
  BY <1>1
<1>3. [a EXCEPT !.current = FALSE] \in [key: Nat, item: Nat, current: BOOLEAN]
  BY <1>2
<1>. QED
  BY <1>1, <1>3

LEMMA SupersededReferrals ==
  ASSUME NEW T \in Tables, NEW item
  PROVE  Superseded(T.assignments, item) \in SUBSET Record.assignments
<1>1. T.assignments \in SUBSET Record["assignments"]
  BY DEF Tables
<1>. QED
  BY <1>1, ReferralCleared DEF Superseded

AppliedTo(T, s, new) ==
  /\ new \in Tables /\ new.manifest = T.manifest
  /\ ~WritesItem(s) => new.items = T.items
  /\ AddsItem(s) => new.items = T.items \cup {s.row}
  /\ s.op = "update" => new.items = {r \in T.items : r.key # s.row.key} \cup {s.row}
  /\ s.op # "bind" => new.intakes = T.intakes
  /\ s.op = "bind" => new.intakes = T.intakes \cup {s.item}
  /\ AddsRule(s) => new.rules = T.rules \cup {s.row}
  /\ s.op = "supersede_rule" => new.rules = Retire(T.rules, {s.version})
  /\ ~AddsRule(s) /\ s.op # "supersede_rule" => new.rules = T.rules

\* What each statement does to the tables.
LEMMA AppliedTables ==
  ASSUME NEW T \in Tables, NEW s \in Statement
  PROVE  AppliedTo(T, s, Applied(T, s))
<1>0. /\ T.items \in SUBSET Record.items /\ T.rules \in SUBSET Record.rules
      /\ T.assignments \in SUBSET Record.assignments
      /\ T.escalations \in SUBSET Record.escalations
      /\ T.audit \in SUBSET Record.audit /\ T.intakes \in SUBSET Nat
  BY DEF Tables
<1>1. ASSUME s.op = "insert", s.kind = "items"
      PROVE  AppliedTo(T, s, Applied(T, s))
  <2>1. Applied(T, s) = [T EXCEPT ![s.kind] = @ \cup {s.row}]
    BY <1>1, Zenon DEF Applied
  <2>2. Applied(T, s) = [T EXCEPT !.items = T.items \cup {s.row}]
    BY <1>1, <2>1
  <2>3. s.row \in Record["items"]
    BY <1>1, Statements DEF HasLine
  <2>. QED
    <3>1. PICK rows \in SUBSET Record.items : rows = T.items \cup {s.row}
      BY <1>0, <2>3
    <3>2. Applied(T, s) = [T EXCEPT !.items = rows]
      BY <2>2, <3>1
    <3>. QED
      BY <1>1, <3>1, <3>2, SetItems
      DEF AppliedTo, WritesItem, AddsItem, AddsRule, HasLine
<1>2. ASSUME s.op = "insert", s.kind = "rules"
      PROVE  AppliedTo(T, s, Applied(T, s))
  <2>1. Applied(T, s) = [T EXCEPT ![s.kind] = @ \cup {s.row}]
    BY <1>2, Zenon DEF Applied
  <2>2. Applied(T, s) = [T EXCEPT !.rules = T.rules \cup {s.row}]
    BY <1>2, <2>1
  <2>3. s.row \in Record["rules"]
    BY <1>2, Statements DEF HasLine
  <2>. QED
    <3>1. PICK rows \in SUBSET Record.rules : rows = T.rules \cup {s.row}
      BY <1>0, <2>3
    <3>2. Applied(T, s) = [T EXCEPT !.rules = rows]
      BY <2>2, <3>1
    <3>. QED
      BY <1>2, <3>1, <3>2, SetRules
      DEF AppliedTo, WritesItem, AddsItem, AddsRule, HasLine
<1>3. ASSUME s.op = "insert", s.kind \notin {"items", "rules"}
      PROVE  AppliedTo(T, s, Applied(T, s))
  <2>1. Applied(T, s) = [T EXCEPT ![s.kind] = @ \cup {s.row}]
    BY <1>3, Zenon DEF Applied
  <2>2. s.kind \in Kind /\ s.row \in Record[s.kind]
    BY <1>3, Statements DEF HasLine
  <2>3. \/ \E rows \in SUBSET Record.assignments : Applied(T, s) = [T EXCEPT !.assignments = rows]
        \/ \E rows \in SUBSET Record.escalations : Applied(T, s) = [T EXCEPT !.escalations = rows]
        \/ \E rows \in SUBSET Record.audit : Applied(T, s) = [T EXCEPT !.audit = rows]
    <3>1. CASE s.kind = "assignments"
      BY <1>0, <2>1, <2>2, <3>1
    <3>2. CASE s.kind = "escalations"
      BY <1>0, <2>1, <2>2, <3>2
    <3>3. CASE s.kind = "audit"
      BY <1>0, <2>1, <2>2, <3>3
    <3>. QED
      BY <1>3, <2>2, <3>1, <3>2, <3>3, Kinds
  <2>. QED
    BY <1>3, <2>3, SetOthers DEF AppliedTo, WritesItem, AddsItem, AddsRule, HasLine
<1>4. ASSUME s.op = "update"
      PROVE  AppliedTo(T, s, Applied(T, s))
  <2>1. Applied(T, s) = [T EXCEPT !.items = {r \in @ : r.key # s.row.key} \cup {s.row}]
    BY <1>4, Zenon DEF Applied
  <2>2. Applied(T, s) = [T EXCEPT !.items = {r \in T.items : r.key # s.row.key} \cup {s.row}]
    BY <2>1
  <2>3. s.row \in Record["items"] /\ s.kind = "items"
    BY <1>4, Statements DEF HasLine
  <2>. QED
    <3>1. PICK rows \in SUBSET Record.items :
            rows = {r \in T.items : r.key # s.row.key} \cup {s.row}
      BY <1>0, <2>3
    <3>2. Applied(T, s) = [T EXCEPT !.items = rows]
      BY <2>2, <3>1
    <3>. QED
      BY <1>4, <2>3, <3>1, <3>2, SetItems
      DEF AppliedTo, WritesItem, AddsItem, AddsRule, HasLine
<1>5. ASSUME s.op = "supersede_referrals"
      PROVE  AppliedTo(T, s, Applied(T, s))
  <2>1. Applied(T, s) = [T EXCEPT !.assignments = Superseded(@, s.item)]
    BY <1>5, Zenon DEF Applied
  <2>2. \E rows \in SUBSET Record.assignments : Applied(T, s) = [T EXCEPT !.assignments = rows]
    BY <2>1, SupersededReferrals
  <2>. QED
    BY <1>5, <2>2, SetOthers DEF AppliedTo, WritesItem, AddsItem, AddsRule, HasLine
<1>6. ASSUME s.op = "supersede_rule"
      PROVE  AppliedTo(T, s, Applied(T, s))
  <2>1. Applied(T, s) = [T EXCEPT !.rules = Retire(@, {s.version})]
    BY <1>6, Zenon DEF Applied
  <2>2. Retire(T.rules, {s.version}) \in SUBSET Record.rules
    BY <1>0, RetiredRules
  <2>3. Applied(T, s) = [T EXCEPT !.rules = Retire(T.rules, {s.version})]
    BY <2>1
  <2>. QED
    <3>1. PICK rows \in SUBSET Record.rules : rows = Retire(T.rules, {s.version})
      BY <2>2
    <3>2. Applied(T, s) = [T EXCEPT !.rules = rows]
      BY <2>3, <3>1
    <3>3. /\ Applied(T, s) \in Tables /\ Applied(T, s).rules = rows
          /\ Applied(T, s).items = T.items /\ Applied(T, s).intakes = T.intakes
          /\ Applied(T, s).manifest = T.manifest
      BY <3>2, SetRules
    <3>. HIDE DEF Tables
    <3>. QED
      BY <1>6, <3>1, <3>3
      DEF AppliedTo, WritesItem, AddsItem, AddsRule, HasLine
<1>7. ASSUME s.op = "bind"
      PROVE  AppliedTo(T, s, Applied(T, s))
  <2>1. Applied(T, s) = [T EXCEPT !.intakes = @ \cup {s.item}]
    BY <1>7, Zenon DEF Applied
  <2>2. Applied(T, s) = [T EXCEPT !.intakes = T.intakes \cup {s.item}]
    BY <2>1
  <2>3. s.item \in Nat
    BY <1>7, Statements
  <2>. QED
    <3>1. PICK rows \in SUBSET Nat : rows = T.intakes \cup {s.item}
      BY <1>0, <2>3
    <3>2. Applied(T, s) = [T EXCEPT !.intakes = rows]
      BY <2>2, <3>1
    <3>. QED
      BY <1>7, <3>1, <3>2, SetIntakes
      DEF AppliedTo, WritesItem, AddsItem, AddsRule, HasLine
<1>. QED
  BY <1>1, <1>2, <1>3, <1>4, <1>5, <1>6, <1>7, Statements

(***************************************************************************)
(* What a rebuild collects                                                 *)
(***************************************************************************)
LEMMA ReadableLines ==
  ASSUME NEW k \in Kind, NEW lines \in Seq(Line(k))
  PROVE  /\ Readable(lines) \in SUBSET Record[k]
         /\ Latest(lines) \subseteq Readable(lines)
         /\ \A n \in DOMAIN lines : lines[n] \in Record[k] => lines[n] \in Readable(lines)
         /\ \A r \in Readable(lines) : \E n \in DOMAIN lines : r = lines[n] /\ Decodable(r)
<1>1. \A n \in DOMAIN lines : lines[n] \in Line(k)
  OBVIOUS
<1>. QED
  BY <1>1, Lines DEF Readable, Latest

\* The collector keeps one record for each key.
LEMMA LatestByKey ==
  ASSUME NEW k \in Kind, NEW lines \in Seq(Line(k)),
         NEW r \in Latest(lines), NEW q \in Latest(lines), r.key = q.key
  PROVE  r = q
<1>1. PICK m \in DOMAIN lines :
        /\ r = lines[m] /\ Decodable(lines[m])
        /\ \A j \in DOMAIN lines : j > m /\ Decodable(lines[j]) => lines[j].key # lines[m].key
  BY DEF Latest
<1>2. PICK n \in DOMAIN lines :
        /\ q = lines[n] /\ Decodable(lines[n])
        /\ \A j \in DOMAIN lines : j > n /\ Decodable(lines[j]) => lines[j].key # lines[n].key
  BY DEF Latest
<1>3. m \in Nat /\ n \in Nat /\ ~(m > n) /\ ~(n > m)
  BY <1>1, <1>2
<1>. QED
  BY <1>1, <1>2, <1>3

\* What the tables hold after a rebuild.
LEMMA RebuiltTables ==
  ASSUME TypeInv
  PROVE  /\ Rebuilt \in Tables
         /\ Rebuilt.items = Latest(ctl.read["items"])
         /\ Rebuilt.rules = Retire(view.rules \cup Latest(ctl.read["rules"]),
                                   {a.rule : a \in Latest(ctl.read["audit"])})
         /\ Rebuilt.intakes = view.intakes
         /\ Rebuilt.manifest = {}
<1>. DEFINE T == [items |-> Collected("items"),
                  rules |-> view.rules \cup Collected("rules"),
                  assignments |-> Collected("assignments"),
                  escalations |-> Collected("escalations"),
                  audit |-> Collected("audit"),
                  intakes |-> view.intakes,
                  manifest |-> {}]
            cleared == {IF a.item \in {e.item : e \in T.escalations}
                        THEN [a EXCEPT !.current = FALSE] ELSE a : a \in T.assignments}
            T1 == [T EXCEPT !.assignments = cleared]
            rules == Retire(T1.rules, {a.rule : a \in T.audit})
<1>1. \A k \in Kind : Collected(k) \in SUBSET Record[k]
  BY ReadableLines DEF Collected, TypeInv
<1>2. /\ {"items", "rules", "assignments", "escalations", "audit"} \subseteq Kind
      /\ view.rules \in SUBSET Record.rules /\ view.intakes \in SUBSET Nat
  BY DEF Kind, TypeInv, Tables
<1>3. T \in Tables
  BY <1>1, <1>2 DEF Tables
<1>4. /\ T.items = Collected("items") /\ T.rules = view.rules \cup Collected("rules")
      /\ T.audit = Collected("audit") /\ T.assignments = Collected("assignments")
      /\ T.intakes = view.intakes /\ T.manifest = {}
  OBVIOUS
<1>5. cleared \in SUBSET Record["assignments"]
  <2>1. Record["assignments"] = [key: Nat, item: Nat, current: BOOLEAN]
    BY DEF Record
  <2>2. ASSUME NEW a \in Record["assignments"]
        PROVE  [a EXCEPT !.current = FALSE] \in Record["assignments"]
    BY ReferralCleared
  <2>3. T.assignments \in SUBSET Record["assignments"]
    BY <1>1, <1>2, <1>4
  <2>. HIDE DEF T
  <2>. QED
    BY <2>2, <2>3
<1>6. Rebuilt = [T EXCEPT !.assignments = cleared,
                         !.rules = Retire(@, {a.rule : a \in T.audit})]
  BY Zenon DEF Rebuilt, PostProcessed
<1>. HIDE DEF T, cleared
<1>7. /\ T1 \in Tables /\ T1.rules = T.rules /\ T1.items = T.items
      /\ T1.intakes = T.intakes /\ T1.manifest = T.manifest
  BY <1>3, <1>5, SetOthers
<1>8. rules \in SUBSET Record.rules
  BY <1>7, RetiredRules DEF Tables
<1>9. Rebuilt = [T1 EXCEPT !.rules = rules]
  BY <1>6, Zenon
<1>. HIDE DEF T1, rules
<1>10. /\ Rebuilt \in Tables /\ Rebuilt.items = T1.items /\ Rebuilt.rules = rules
       /\ Rebuilt.intakes = T1.intakes /\ Rebuilt.manifest = T1.manifest
  BY <1>7, <1>8, <1>9, SetRules
<1>. QED
  BY <1>4, <1>7, <1>10 DEF Collected, rules

(***************************************************************************)
(* What an operation is going to write                                     *)
(***************************************************************************)
LEMMA InsertStatement ==
  ASSUME NEW k \in Kind, NEW row \in Record[k], NEW d \in Day,
         NEW s, s = Insert(k, row, d)
  PROVE  s \in Statement /\ s.op = "insert" /\ s.kind = k /\ s.row = row /\ s.day = d
<1>1. s \in InsertOf(k)
  BY DEF Insert, InsertOf
<1>2. s \in Inserts
  BY <1>1 DEF Inserts
<1>. QED
  BY <1>2 DEF Insert, Statement

LEMMA UpdateStatement ==
  ASSUME NEW row \in Record["items"], NEW s, s = Update(row)
  PROVE  s \in Statement /\ s.op = "update" /\ s.kind = "items" /\ s.row = row
<1>1. s \in Updates
  BY DEF Update, Updates
<1>. QED
  BY <1>1 DEF Update, Statement

LEMMA OtherStatements ==
  ASSUME NEW n \in Nat, NEW s
  PROVE  /\ s = SupersedeReferrals(n) =>
              s \in Statement /\ s.op = "supersede_referrals" /\ s.item = n
         /\ s = Bind(n) => s \in Statement /\ s.op = "bind" /\ s.item = n
         /\ s = SupersedeRule(n) =>
              s \in Statement /\ s.op = "supersede_rule" /\ s.version = n
<1>1. s = SupersedeReferrals(n) => s \in ItemStatements /\ s.op = "supersede_referrals" /\ s.item = n
  BY DEF SupersedeReferrals, ItemStatements
<1>2. s = Bind(n) => s \in ItemStatements /\ s.op = "bind" /\ s.item = n
  BY DEF Bind, ItemStatements
<1>3. s = SupersedeRule(n) => s \in RuleStatements /\ s.op = "supersede_rule" /\ s.version = n
  BY DEF SupersedeRule, RuleStatements
<1>. QED
  BY <1>1, <1>2, <1>3 DEF Statement

Planned(todo) ==
  /\ todo \in Seq(Statement)
  /\ \A i \in DOMAIN todo :
       /\ WritesItem(todo[i]) =>
            /\ todo[i].row.stamp = Fresh
            /\ IF AddsItem(todo[i])
               THEN todo[i].row.key = Fresh /\ todo[i].day = day
               ELSE todo[i].row.key \in Keys(db.items)
       /\ AddsRule(todo[i]) =>
            /\ todo[i].row.stamp = Fresh /\ todo[i].row.active
            /\ todo[i].row.key <= Fresh + 1
       /\ AddsAudit(todo[i]) => todo[i].row.key = Fresh /\ i > 1
       /\ todo[i].op = "supersede_rule" =>
            /\ i + 1 \in DOMAIN todo
            /\ AddsAudit(todo[i + 1])
            /\ todo[i + 1].row.rule = todo[i].version
  /\ \A i, j \in DOMAIN todo :
       /\ WritesItem(todo[i]) /\ WritesItem(todo[j]) => i = j
       /\ AddsRule(todo[i]) /\ AddsRule(todo[j]) => i = j
       /\ AddsAudit(todo[i]) /\ AddsAudit(todo[j]) => i = j

LEMMA FreshStamp == ASSUME TypeInv PROVE Fresh \in Nat /\ Fresh = stamps + 1 /\ day \in Day
  BY DEF TypeInv, Fresh

LEMMA ItemRows ==
  ASSUME TypeInv, NEW row \in db.items
  PROVE  /\ row \in Record["items"] /\ row.key \in Nat
         /\ Changed(row) \in Record["items"]
         /\ Changed(row).key = row.key /\ Changed(row).stamp = Fresh
<1>1. row \in [key: Nat, ref: Ref, stamp: Nat]
  BY DEF TypeInv, Tables, Record
<1>2. Fresh \in Nat
  BY FreshStamp
<1>3. /\ [row EXCEPT !.stamp = Fresh] \in [key: Nat, ref: Ref, stamp: Nat]
      /\ [row EXCEPT !.stamp = Fresh].key = row.key
      /\ [row EXCEPT !.stamp = Fresh].stamp = Fresh
  BY <1>1, <1>2
<1>. QED
  BY <1>1, <1>3 DEF Changed, Record

LEMMA ReferralRows ==
  ASSUME TypeInv, NEW item \in Nat
  PROVE  NewReferral(item) \in Record["assignments"]
  BY FreshStamp DEF NewReferral, Record

LEMMA PlannedTexts ==
  ASSUME NEW s \in Statement
  PROVE  /\ WritesItem(s) <=> s.op = "update" \/ (s.op = "insert" /\ s.kind = "items")
         /\ AddsItem(s) <=> s.op = "insert" /\ s.kind = "items"
         /\ AddsRule(s) <=> s.op = "insert" /\ s.kind = "rules"
         /\ AddsAudit(s) <=> s.op = "insert" /\ s.kind = "audit"
  BY Statements DEF WritesItem, AddsItem, AddsRule, AddsAudit, HasLine

\* Each operation plans its statements like that.
LEMMA RegisterPlans ==
  ASSUME TypeInv, NEW t \in Thread, NEW ref \in Ref, Register(t, ref)
  PROVE  \E todo : Planned(todo) /\ Begin(t, todo)
<1>. DEFINE row == [key |-> Fresh, ref |-> ref, stamp |-> Fresh]
<1>1. row \in Record["items"] /\ row.key = Fresh /\ row.stamp = Fresh
  BY FreshStamp DEF Record
<1>2. NewReferral(Fresh) \in Record["assignments"]
  BY FreshStamp, ReferralRows
<1>3. "items" \in Kind /\ "assignments" \in Kind
  BY DEF Kind
<1>4. PICK s1 : s1 = Insert("items", row, day)
  OBVIOUS
<1>5. PICK s2 : s2 = Insert("assignments", NewReferral(Fresh), day)
  OBVIOUS
<1>6. s1 \in Statement /\ s1.op = "insert" /\ s1.kind = "items" /\ s1.row = row /\ s1.day = day
  BY <1>1, <1>3, <1>4, FreshStamp, InsertStatement
<1>7. s2 \in Statement /\ s2.op = "insert" /\ s2.kind = "assignments"
  BY <1>2, <1>3, <1>5, FreshStamp, InsertStatement
<1>. HIDE DEF row
<1>8. Planned(<<s1, s2>>)
  BY <1>1, <1>6, <1>7, PlannedTexts DEF Planned
<1>9. Begin(t, <<s1, s2>>)
  BY <1>4, <1>5 DEF Register, row
<1>. QED
  BY <1>8, <1>9

LEMMA ChangePlans ==
  ASSUME TypeInv, NEW t \in Thread, NEW row \in db.items, Change(t, row)
  PROVE  \E todo : Planned(todo) /\ Begin(t, todo)
<1>1. PICK s1 : s1 = Update(Changed(row))
  OBVIOUS
<1>2. s1 \in Statement /\ s1.op = "update" /\ s1.kind = "items" /\ s1.row = Changed(row)
  BY <1>1, ItemRows, UpdateStatement
<1>3. s1.row.stamp = Fresh /\ s1.row.key \in Keys(db.items)
  BY <1>2, ItemRows DEF Keys
<1>4. Planned(<<s1>>)
  BY <1>2, <1>3, PlannedTexts DEF Planned
<1>. QED
  BY <1>1, <1>4 DEF Change

LEMMA EscalatePlans ==
  ASSUME TypeInv, NEW t \in Thread, NEW row \in db.items, Escalate(t, row)
  PROVE  \E todo : Planned(todo) /\ Begin(t, todo)
<1>1. PICK s1 : s1 = Insert("escalations", [key |-> Fresh, item |-> row.key], day)
  OBVIOUS
<1>2. PICK s2 : s2 = SupersedeReferrals(row.key)
  OBVIOUS
<1>3. PICK s3 : s3 = Insert("assignments", NewReferral(row.key), day)
  OBVIOUS
<1>4. PICK s4 : s4 = Update(Changed(row))
  OBVIOUS
<1>5. "assignments" \in Kind /\ "escalations" \in Kind
  BY DEF Kind
<1>6. [key |-> Fresh, item |-> row.key] \in Record["escalations"]
  BY FreshStamp, ItemRows DEF Record
<1>7. s1 \in Statement /\ s1.op = "insert" /\ s1.kind = "escalations"
  BY <1>1, <1>5, <1>6, FreshStamp, InsertStatement
<1>8. s2 \in Statement /\ s2.op = "supersede_referrals"
  BY <1>2, ItemRows, OtherStatements
<1>9. s3 \in Statement /\ s3.op = "insert" /\ s3.kind = "assignments"
  BY <1>3, <1>5, FreshStamp, InsertStatement, ItemRows, ReferralRows
<1>10. s4 \in Statement /\ s4.op = "update" /\ s4.kind = "items" /\ s4.row = Changed(row)
  BY <1>4, ItemRows, UpdateStatement
<1>11. s4.row.stamp = Fresh /\ s4.row.key \in Keys(db.items)
  BY <1>10, ItemRows DEF Keys
<1>12. Planned(<<s1, s2, s3, s4>>)
  BY <1>7, <1>8, <1>9, <1>10, <1>11, PlannedTexts DEF Planned
<1>. QED
  BY <1>1, <1>2, <1>3, <1>4, <1>12 DEF Escalate

LEMMA ReevaluatePlans ==
  ASSUME TypeInv, NEW t \in Thread, NEW row \in db.items, Reevaluate(t, row)
  PROVE  \E todo : Planned(todo) /\ Begin(t, todo)
<1>2. PICK s2 : s2 = SupersedeReferrals(row.key)
  OBVIOUS
<1>3. PICK s3 : s3 = Insert("assignments", NewReferral(row.key), day)
  OBVIOUS
<1>4. PICK s4 : s4 = Update(Changed(row))
  OBVIOUS
<1>5. "assignments" \in Kind
  BY DEF Kind
<1>8. s2 \in Statement /\ s2.op = "supersede_referrals"
  BY <1>2, ItemRows, OtherStatements
<1>9. s3 \in Statement /\ s3.op = "insert" /\ s3.kind = "assignments"
  BY <1>3, <1>5, FreshStamp, InsertStatement, ItemRows, ReferralRows
<1>10. s4 \in Statement /\ s4.op = "update" /\ s4.kind = "items" /\ s4.row = Changed(row)
  BY <1>4, ItemRows, UpdateStatement
<1>11. s4.row.stamp = Fresh /\ s4.row.key \in Keys(db.items)
  BY <1>10, ItemRows DEF Keys
<1>12. Planned(<<s2, s3, s4>>)
  BY <1>8, <1>9, <1>10, <1>11, PlannedTexts DEF Planned
<1>. QED
  BY <1>2, <1>3, <1>4, <1>12 DEF Reevaluate

LEMMA IntakePlans ==
  ASSUME TypeInv, NEW t \in Thread, NEW row \in db.items, Intake(t, row)
  PROVE  \E todo : Planned(todo) /\ Begin(t, todo)
<1>1. PICK s1 : s1 = Bind(row.key)
  OBVIOUS
<1>2. s1 \in Statement /\ s1.op = "bind"
  BY <1>1, ItemRows, OtherStatements
<1>3. Planned(<<s1>>)
  BY <1>2, PlannedTexts DEF Planned
<1>. QED
  BY <1>1, <1>3 DEF Intake

(***************************************************************************)
(* A nonempty set of naturals has a least element, and a greatest one if   *)
(* it is bounded.                                                          *)
(***************************************************************************)
LEMMA Least ==
  ASSUME NEW S \in SUBSET Nat, S # {}
  PROVE  \E m \in S : \A x \in S : m <= x
<1>. DEFINE Below(x) == 0 .. x
            R == StrictSubsetOrdering(Nat)
            T == {Below(x) : x \in S}
<1>1. IsWellFoundedOn(R, FiniteSubsetsOf(Nat))
  BY FS_StrictSubsetOrderingWellFounded
<1>2. \A x \in S : Below(x) \in FiniteSubsetsOf(Nat)
  <2>1. SUFFICES ASSUME NEW x \in S PROVE Below(x) \in FiniteSubsetsOf(Nat)
    OBVIOUS
  <2>2. IsFiniteSet(Below(x)) /\ Below(x) \in SUBSET Nat
    BY FS_Interval
  <2>. HIDE DEF Below
  <2>. QED
    BY <2>2 DEF FiniteSubsetsOf
<1>3. T # {} /\ T \subseteq FiniteSubsetsOf(Nat)
  <2>. HIDE DEF Below
  <2>. QED
    BY <1>2
<1>4. \A x, y \in S : x < y => <<Below(x), Below(y)>> \in R
  <2>1. SUFFICES ASSUME NEW x \in S, NEW y \in S, x < y
                 PROVE  <<Below(x), Below(y)>> \in R
    OBVIOUS
  <2>2. Below(x) \subseteq Below(y) /\ y \in Below(y) /\ y \notin Below(x)
    BY <2>1
  <2>3. Below(x) \in SUBSET Nat /\ Below(y) \in SUBSET Nat /\ Below(x) # Below(y)
    BY <2>2
  <2>. HIDE DEF Below
  <2>. QED
    BY <2>2, <2>3 DEF StrictSubsetOrdering
<1>5. PICK m \in S : \A y \in T : ~ (<<y, Below(m)>> \in R)
  <2>. HIDE DEF R
  <2>1. PICK z \in T : \A y \in T : ~ (<<y, z>> \in R)
    BY <1>1, <1>3, WFMin, Zenon
  <2>. QED
    BY <2>1
<1>6. \A x \in S : ~(x < m)
  <2>. HIDE DEF R
  <2>. QED
    BY <1>4, <1>5
<1>. QED
  BY <1>6

\* The greatest element of a bounded set of naturals.
LEMMA Greatest ==
  ASSUME NEW S \in SUBSET Nat, S # {}, NEW b \in Nat, \A x \in S : x <= b
  PROVE  \E m \in S : \A x \in S : x <= m
<1>. DEFINE U == {u \in Nat : \A x \in S : x <= u}
<1>1. PICK u \in U : \A v \in U : u <= v
  BY Least
<1>2. u \in S
  <2>1. SUFFICES ASSUME u \notin S PROVE FALSE
    OBVIOUS
  <2>2. PICK z \in S : TRUE
    OBVIOUS
  <2>3. u # 0 /\ \A x \in S : x <= u - 1
    BY <2>1, <2>2
  <2>4. u - 1 \in U
    BY <2>3
  <2>. QED
    BY <1>1, <2>4
<1>. QED
  BY <1>2

LEMMA CreateRulePlans ==
  ASSUME TypeInv, \A r \in db.rules : r.key <= stamps + 1,
         NEW t \in Thread, NEW replaced \in SUBSET Nat,
         replaced = {} \/ \E v \in Nat : replaced = {v},
         CreateRule(t, replaced)
  PROVE  \E todo : Planned(todo) /\ Begin(t, todo)
<1>. DEFINE highest == Keys(db.rules) \cup {0}
            current == CHOOSE v \in highest : \A r \in db.rules : r.key <= v
            rule == [key |-> current + 1, stamp |-> Fresh, active |-> TRUE]
            audit(v) == Insert("audit", [key |-> Fresh, rule |-> v], day)
            chosen == CHOOSE r \in replaced : TRUE
<1>1. \A r \in db.rules : r.key \in Nat /\ r.key <= stamps + 1
  BY DEF TypeInv, Tables, Record
<1>2. current \in highest /\ current \in Nat /\ current <= stamps + 1
  <2>1. highest \in SUBSET Nat /\ highest # {} /\ stamps + 1 \in Nat
        /\ \A x \in highest : x <= stamps + 1
    BY <1>1 DEF Keys, TypeInv
  <2>2. PICK m \in highest : \A x \in highest : x <= m
    BY <2>1, Greatest
  <2>3. \A r \in db.rules : r.key <= m
    BY <2>2 DEF Keys
  <2>4. current \in highest
    BY <2>3
  <2>. QED
    BY <2>1, <2>4
<1>. HIDE DEF current
<1>3. /\ rule \in Record["rules"] /\ rule.stamp = Fresh /\ rule.active
      /\ rule.key <= Fresh + 1
  BY <1>2, FreshStamp DEF Record
<1>4. "rules" \in Kind /\ "audit" \in Kind
  BY DEF Kind
<1>5. PICK s3 : s3 = Insert("rules", rule, day)
  OBVIOUS
<1>6. s3 \in Statement /\ s3.op = "insert" /\ s3.kind = "rules" /\ s3.row = rule
  BY <1>3, <1>4, <1>5, FreshStamp, InsertStatement
<1>. HIDE DEF rule
<1>7. Begin(t, (IF replaced = {} THEN <<>>
                ELSE <<SupersedeRule(chosen), audit(chosen)>>) \o <<s3>>)
  BY <1>5 DEF CreateRule, current, rule
<1>8. CASE replaced = {}
  <2>1. Planned(<<s3>>)
    BY <1>3, <1>6, PlannedTexts DEF Planned
  <2>2. <<>> \o <<s3>> = <<s3>>
    OBVIOUS
  <2>. QED
    BY <1>7, <1>8, <2>1, <2>2
<1>9. CASE replaced # {}
  <2>1. chosen \in Nat
    BY <1>9
  <2>. HIDE DEF chosen
  <2>2. PICK s1 : s1 = SupersedeRule(chosen)
    OBVIOUS
  <2>3. PICK s2 : s2 = audit(chosen)
    OBVIOUS
  <2>4. s1 \in Statement /\ s1.op = "supersede_rule" /\ s1.version = chosen
    BY <2>1, <2>2, OtherStatements
  <2>5. /\ [key |-> Fresh, rule |-> chosen] \in Record["audit"]
        /\ [key |-> Fresh, rule |-> chosen].key = Fresh
        /\ [key |-> Fresh, rule |-> chosen].rule = chosen
    BY <2>1, FreshStamp DEF Record
  <2>6. /\ s2 \in Statement /\ s2.op = "insert" /\ s2.kind = "audit"
        /\ s2.row = [key |-> Fresh, rule |-> chosen]
    BY <1>4, <2>3, <2>5, FreshStamp, InsertStatement
  <2>7. s2.row.key = Fresh /\ s2.row.rule = chosen
    BY <2>5, <2>6
  <2>8. Planned(<<s1, s2, s3>>)
    BY <1>3, <1>6, <2>4, <2>6, <2>7, PlannedTexts DEF Planned
  <2>9. <<s1, s2>> \o <<s3>> = <<s1, s2, s3>>
    <3>1. <<s1, s2>> \in Seq(Statement) /\ <<s3>> \in Seq(Statement)
      BY <1>6, <2>4, <2>6
    <3>2. <<s1, s2, s3>> \in Seq(Statement)
      BY <1>6, <2>4, <2>6
    <3>3. PICK u \in Seq(Statement) : u = <<s1, s2>> \o <<s3>>
      BY <3>1, ConcatProperties
    <3>4. Len(u) = 3 /\ u[1] = s1 /\ u[2] = s2 /\ u[3] = s3
      BY <3>1, <3>3, ConcatProperties
    <3>5. PICK w \in Seq(Statement) : w = <<s1, s2, s3>>
      BY <3>2
    <3>6. Len(w) = 3 /\ w[1] = s1 /\ w[2] = s2 /\ w[3] = s3
      BY <3>5
    <3>7. \A i \in 1..Len(u) : u[i] = w[i]
      BY <3>4, <3>6
    <3>. QED
      BY <3>3, <3>4, <3>5, <3>6, <3>7, SeqEqual
  <2>. QED
    BY <1>7, <1>9, <2>2, <2>3, <2>8, <2>9
<1>. QED
  BY <1>8, <1>9

\* So do all of them.
LEMMA OperationPlans ==
  ASSUME TypeInv, \A r \in db.rules : r.key <= stamps + 1,
         NEW t \in Thread, Operation(t)
  PROVE  \E todo : Planned(todo) /\ Begin(t, todo)
<1>1. \A r \in db.rules : r.key \in Nat
  BY DEF TypeInv, Tables, Record
<1>2. ASSUME NEW r \in db.rules, CreateRule(t, {r.key})
      PROVE  \E todo : Planned(todo) /\ Begin(t, todo)
  BY <1>1, <1>2, CreateRulePlans
<1>3. ASSUME CreateRule(t, {})
      PROVE  \E todo : Planned(todo) /\ Begin(t, todo)
  BY <1>3, CreateRulePlans
<1>. QED
  BY <1>2, <1>3, RegisterPlans, ChangePlans, EscalatePlans, ReevaluatePlans,
     IntakePlans DEF Operation

(***************************************************************************)
(* What the steps do to the sessions, the tables and the controller        *)
(***************************************************************************)
LEMMA CurrentStatement ==
  ASSUME TypeInv, NEW t \in Thread, session[t].todo # <<>>
  PROVE  /\ session[t].todo \in Seq(Statement)
         /\ Current(t) \in Statement /\ Current(t) = session[t].todo[1]
         /\ 1 \in DOMAIN session[t].todo
         /\ DOMAIN session[t].todo = 1..Len(session[t].todo)
         /\ DOMAIN Tail(session[t].todo) = 1..(Len(session[t].todo) - 1)
         /\ \A i \in DOMAIN Tail(session[t].todo) :
              /\ Tail(session[t].todo)[i] = session[t].todo[i + 1]
              /\ i + 1 \in DOMAIN session[t].todo
  BY DEF TypeInv, Session, Current

\* An operation begins with the connection free and nothing executed.
LEMMA BeginDoes ==
  ASSUME TypeInv, NEW t \in Thread, NEW todo, Planned(todo), Begin(t, todo)
  PROVE  /\ session' \in [Thread -> Session]
         /\ Becomes(t, todo, FALSE, FALSE, FALSE)
         /\ session[t].todo = <<>> /\ ~session[t].locked /\ ~session[t].written
         /\ \A u \in Thread : ~session[u].open
<1>1. /\ session \in [Thread -> Session] /\ todo \in Seq(Statement)
      /\ session[t] = Idle /\ \A u \in Thread : ~session[u].open
      /\ session' = [session EXCEPT ![t].todo = todo]
  BY DEF Begin, Planned, ConnectionFree, TypeInv
<1>2. Idle.todo = <<>> /\ ~Idle.locked /\ ~Idle.written
  BY DEF Idle
<1>3. session' \in [Thread -> Session] /\ Becomes(t, todo, FALSE, FALSE, FALSE)
  BY <1>1, BeginBecomes
<1>. QED
  BY <1>1, <1>2, <1>3

\* A transaction that is undone leaves no statement and no change.
LEMMA UndoneDoes ==
  ASSUME TypeInv, NEW t \in Thread, Undone(t)
  PROVE  /\ session' \in [Thread -> Session] /\ view' \in Tables
         /\ Becomes(t, <<>>, FALSE, FALSE, FALSE)
         /\ view' = IF session[t].locked THEN db ELSE view
  BY UndoneBecomes DEF Undone, TypeInv

Carried(t) ==
  /\ Becomes(t, Tail(session[t].todo), TRUE, TRUE, FALSE)
  /\ ~Violates(view, Current(t))
  /\ AppliedTo(view, Current(t), view')

Refused(t) ==
  /\ Becomes(t, <<>>, FALSE, FALSE, FALSE)
  /\ view' = IF session[t].locked THEN db ELSE view

\* A statement is carried out or refused.
LEMMA ExecutedDoes ==
  ASSUME TypeInv, NEW t \in Thread, session[t].todo # <<>>, Executed(t)
  PROVE  /\ session' \in [Thread -> Session] /\ view' \in Tables
         /\ Refused(t) \/ Carried(t)
<1>1. CASE Violates(view, Current(t))
  BY <1>1, UndoneDoes DEF Executed, Refused
<1>2. CASE ~Violates(view, Current(t))
  <2>1. AppliedTo(view, Current(t), Applied(view, Current(t)))
    BY CurrentStatement, AppliedTables DEF TypeInv
  <2>2. view' = Applied(view, Current(t))
    BY <1>2 DEF Executed
  <2>3. view' \in Tables
    BY <2>1, <2>2 DEF AppliedTo
  <2>4. /\ session' \in [Thread -> Session]
        /\ Becomes(t, Tail(session[t].todo), TRUE, TRUE, FALSE)
    BY <1>2, ExecutedBecomes DEF Executed, TypeInv
  <2>. QED
    BY <1>2, <2>1, <2>2, <2>3, <2>4 DEF Carried
<1>. QED
  BY <1>1, <1>2

CtlBecomes(stage, todo, listed, corrupted) ==
  /\ ctl' \in Controller
  /\ ctl'.stage = stage /\ ctl'.todo = todo /\ ctl'.listed = listed
  /\ ctl'.corrupted = corrupted

LEMMA CtlIdleTyped ==
  /\ CtlIdle \in Controller
  /\ CtlIdle.stage = "idle" /\ CtlIdle.todo = {} /\ CtlIdle.listed = {}
  /\ CtlIdle.corrupted = {}
  /\ CtlIdle.read = [k \in Kind |-> <<>>]
<1>1. [k \in Kind |-> <<>>] \in [Kind -> Seq(AnyLine)]
  OBVIOUS
<1>. QED
  BY <1>1 DEF CtlIdle, Controller

LEMMA StageSet ==
  ASSUME NEW c \in Controller,
         NEW stage \in {"idle", "reading", "replaced", "failed", "done"}
  PROVE  LET new == [c EXCEPT !.stage = stage]
         IN  /\ new \in Controller /\ new.stage = stage /\ new.todo = c.todo
             /\ new.listed = c.listed /\ new.corrupted = c.corrupted
             /\ new.read = c.read
  BY DEF Controller

\* The steps of the process that rebuilds.
LEMMA ScanDoes ==
  ASSUME TypeInv, RebuildScan
  PROVE  /\ CtlBecomes("reading", Listed, Listed, {})
         /\ ctl'.read = [k \in Kind |-> <<>>]
<1>. DEFINE c1 == [CtlIdle EXCEPT !.stage = "reading"]
            c2 == [c1 EXCEPT !.todo = Listed]
<1>1. /\ c1 \in Controller /\ c1.stage = "reading" /\ c1.corrupted = {}
      /\ c1.read = [k \in Kind |-> <<>>]
  BY CtlIdleTyped, StageSet
<1>2. Listed \in SUBSET File
  BY DEF Listed
<1>3. ctl' = [c2 EXCEPT !.listed = Listed]
  BY Zenon DEF RebuildScan
<1>. HIDE DEF c1
<1>4. /\ c2 \in Controller /\ c2.stage = "reading" /\ c2.corrupted = {}
      /\ c2.read = [k \in Kind |-> <<>>] /\ c2.todo = Listed
  BY <1>1, <1>2 DEF Controller
<1>. HIDE DEF c2
<1>. QED
  BY <1>2, <1>3, <1>4 DEF Controller, CtlBecomes

LEMMA ReadDoes ==
  ASSUME ConstantsAssumption, TypeInv, NEW f \in ctl.todo, RebuildRead(f)
  PROVE  /\ f \in File
         /\ CtlBecomes("reading", ctl.todo \ {f}, ctl.listed, ctl.corrupted)
         /\ ctl.stage = "reading"
         /\ \A k \in Kind : ctl'.read[k] \in Seq(Line(k))
         /\ \A k \in Kind \ {f.kind} : ctl'.read[k] = ctl.read[k]
         /\ ctl'.read[f.kind] = ctl.read[f.kind] \o Base(f.kind, f.day)
<1>. DEFINE c1 == [ctl EXCEPT !.todo = ctl.todo \ {f}]
            lines == ctl.read[f.kind] \o Base(f.kind, f.day)
            read == [ctl.read EXCEPT ![f.kind] = lines]
<1>1. /\ f \in File /\ f.kind \in Kind /\ f.day \in Day
      /\ ctl \in Controller /\ ctl.read[f.kind] \in Seq(Line(f.kind))
  BY DEF TypeInv, Controller, File
<1>2. /\ c1 \in Controller /\ c1.stage = ctl.stage /\ c1.todo = ctl.todo \ {f}
      /\ c1.listed = ctl.listed /\ c1.corrupted = ctl.corrupted /\ c1.read = ctl.read
  BY <1>1 DEF Controller
<1>3. ctl' = [c1 EXCEPT !.read[f.kind] = ctl.read[f.kind] \o Base(f.kind, f.day)]
  BY Zenon DEF RebuildRead
<1>4. lines \in Seq(Line(f.kind)) /\ lines \in Seq(AnyLine)
  <2>1. Base(f.kind, f.day) \in Seq(Line(f.kind))
    BY <1>1, BaseTyped DEF TypeInv
  <2>2. lines \in Seq(Line(f.kind))
    BY <1>1, <2>1
  <2>. QED
    BY <1>1, <2>2, Lines
<1>. HIDE DEF c1, lines
<1>5. ctl' = [c1 EXCEPT !.read = read]
  BY <1>2, <1>3, Zenon DEF lines
<1>6. /\ read \in [Kind -> Seq(AnyLine)] /\ read[f.kind] = lines
      /\ \A k \in Kind \ {f.kind} : read[k] = ctl.read[k]
  BY <1>1, <1>4 DEF Controller
<1>. HIDE DEF read
<1>7. /\ ctl' \in Controller /\ ctl'.read = read /\ ctl'.stage = ctl.stage
      /\ ctl'.todo = ctl.todo \ {f} /\ ctl'.listed = ctl.listed
      /\ ctl'.corrupted = ctl.corrupted
  BY <1>2, <1>5, <1>6 DEF Controller
<1>8. \A k \in Kind : read[k] \in Seq(Line(k))
  BY <1>4, <1>6 DEF TypeInv
<1>. QED
  BY <1>1, <1>6, <1>7, <1>8 DEF RebuildRead, ReadNext, CtlBecomes, lines

LEMMA SkipDoes ==
  ASSUME TypeInv, NEW f \in ctl.todo, RebuildSkip(f)
  PROVE  /\ CtlBecomes("reading", ctl.todo \ {f}, ctl.listed, ctl.corrupted \cup {f})
         /\ ctl.stage = "reading" /\ ctl'.read = ctl.read
<1>. DEFINE c1 == [ctl EXCEPT !.todo = ctl.todo \ {f}]
<1>1. f \in File /\ ctl \in Controller
  BY DEF TypeInv, Controller
<1>2. /\ c1 \in Controller /\ c1.stage = ctl.stage /\ c1.todo = ctl.todo \ {f}
      /\ c1.listed = ctl.listed /\ c1.corrupted = ctl.corrupted /\ c1.read = ctl.read
  BY <1>1 DEF Controller
<1>3. ctl' = [c1 EXCEPT !.corrupted = ctl.corrupted \cup {f}]
  BY Zenon DEF RebuildSkip
<1>. HIDE DEF c1
<1>4. ctl.corrupted \cup {f} \in SUBSET File
  BY <1>1 DEF Controller
<1>. QED
  BY <1>2, <1>3, <1>4 DEF Controller, CtlBecomes, RebuildSkip, ReadNext

\* The manifest counts no more lines than the base files have.
LEMMA ManifestTyped ==
  ASSUME ConstantsAssumption, TypeInv
  PROVE  /\ Manifest \in SUBSET Entry
         /\ \A m \in Manifest : m.count <= Len(Base(m.file.kind, m.file.day))
<1>1. SUFFICES ASSUME NEW f \in ctl.listed,
                      NEW m, m = LET lines == Base(f.kind, f.day)
                                 IN  IF f \in ctl.corrupted
                                     THEN [file |-> f, count |-> 0, checksum |-> <<>>]
                                     ELSE [file |-> f, count |-> Len(lines), checksum |-> lines]
               PROVE  m \in Entry /\ m.count <= Len(Base(m.file.kind, m.file.day))
  BY Zenon DEF Manifest
<1>2. f \in File /\ f.kind \in Kind /\ f.day \in Day
  BY DEF TypeInv, Controller, File
<1>3. Base(f.kind, f.day) \in Seq(Line(f.kind))
  BY <1>2, BaseTyped DEF TypeInv
<1>4. Base(f.kind, f.day) \in Seq(AnyLine) /\ Len(Base(f.kind, f.day)) \in Nat
  BY <1>2, <1>3, Lines
<1>5. CASE f \in ctl.corrupted
  <2>1. m = [file |-> f, count |-> 0, checksum |-> <<>>]
    BY <1>1, <1>5
  <2>. QED
    BY <1>2, <1>4, <2>1 DEF Entry
<1>6. CASE f \notin ctl.corrupted
  <2>1. m = [file |-> f, count |-> Len(Base(f.kind, f.day)), checksum |-> Base(f.kind, f.day)]
    BY <1>1, <1>6
  <2>. QED
    BY <1>2, <1>4, <2>1 DEF Entry
<1>. QED
  BY <1>5, <1>6

LEMMA ManifestSet ==
  ASSUME NEW T \in Tables, NEW entries \in SUBSET Entry
  PROVE  LET new == [T EXCEPT !.manifest = entries]
         IN  /\ new \in Tables /\ new.manifest = entries /\ new.items = T.items
             /\ new.rules = T.rules /\ new.intakes = T.intakes
  BY DEF Tables

LEMMA EmptyTables ==
  /\ EmptyIndex \in Tables
  /\ EmptyIndex.items = {} /\ EmptyIndex.rules = {} /\ EmptyIndex.intakes = {}
  /\ EmptyIndex.manifest = {}
  BY DEF EmptyIndex, Tables

LEMMA RebuildCommitDoes ==
  ASSUME ConstantsAssumption, TypeInv, RebuildCommit
  PROVE  /\ ctl.stage = "replaced" /\ view' = db' /\ db' \in Tables
         /\ db'.items = view.items /\ db'.rules = view.rules
         /\ db'.intakes = view.intakes /\ db'.manifest = Manifest
         /\ CtlBecomes("done", {}, {}, {})
         /\ ctl'.read = [k \in Kind |-> <<>>]
<1>1. /\ db' \in Tables /\ db'.items = view.items /\ db'.rules = view.rules
      /\ db'.intakes = view.intakes /\ db'.manifest = Manifest
  BY ManifestTyped, ManifestSet DEF RebuildCommit, TypeInv
<1>2. CtlBecomes("done", {}, {}, {}) /\ ctl'.read = [k \in Kind |-> <<>>]
  BY CtlIdleTyped, StageSet DEF RebuildCommit, CtlBecomes
<1>. QED
  BY <1>1, <1>2 DEF RebuildCommit

LEMMA RebuildApplyDoes ==
  ASSUME TypeInv, RebuildApply
  PROVE  /\ ctl.stage = "reading" /\ ctl.todo = {} /\ LockFree
         /\ view' = Rebuilt /\ view.intakes = {} /\ ~VersionTaken
         /\ CtlBecomes("replaced", ctl.todo, ctl.listed, ctl.corrupted)
         /\ ctl'.read = ctl.read
  BY StageSet DEF RebuildApply, CtlBecomes, TypeInv, Restricted

LEMMA RebuildEnds ==
  ASSUME TypeInv, RebuildFails \/ RebuildKilled
  PROVE  /\ CtlBecomes(ctl'.stage, {}, {}, {}) /\ ctl'.stage \in {"failed", "idle"}
         /\ ctl'.read = [k \in Kind |-> <<>>]
         /\ view' = IF ctl.stage = "replaced" THEN db ELSE view
<1>1. CASE RebuildFails
  BY <1>1, CtlIdleTyped, StageSet DEF RebuildFails, CtlBecomes
<1>2. CASE RebuildKilled
  BY <1>2, CtlIdleTyped DEF RebuildKilled, CtlBecomes
<1>. QED
  BY <1>1, <1>2

(***************************************************************************)
(* Types and locks                                                         *)
(***************************************************************************)
\* The record a statement of a session writes, and where.
LEMMA WriteStep ==
  ASSUME TypeInv, NEW t \in Thread, session[t].todo # <<>>,
         HasLine(Current(t)),
         WriteLine(Current(t))
  PROVE  LET s == Current(t)
         IN  /\ s \in Statement /\ s.kind \in Kind /\ s.row \in Record[s.kind]
             /\ DayOf(s) \in Day
             /\ ShardsTyped'
             /\ \/ Appends(s.kind, DayOf(s), s.row)
                \/ Spoils(s.kind, DayOf(s))
             /\ (\A n \in DOMAIN shards[s.kind][DayOf(s)] :
                    shards[s.kind][DayOf(s)][n] # Torn)
                  => Appends(s.kind, DayOf(s), s.row)
<1>1. PICK s \in Statement : s = Current(t)
  BY CurrentStatement
<1>2. s.kind \in Kind /\ s.row \in Record[s.kind] /\ DayOf(s) \in Day
  BY <1>1, LineGoesTo
<1>3. PICK k \in Kind, d \in Day : k = s.kind /\ d = DayOf(s)
  BY <1>2
<1>6. PICK row \in Record[k] : row = s.row
  BY <1>2, <1>3
<1>4. PICK new \in Written(shards[k][d], row) : shards' = [shards EXCEPT ![k][d] = new]
  BY <1>1, <1>3, <1>6 DEF WriteLine
<1>5. /\ ShardsTyped'
      /\ Appends(k, d, row) \/ Spoils(k, d)
      /\ (\A n \in DOMAIN shards[k][d] : shards[k][d][n] # Torn) => Appends(k, d, row)
  BY <1>4, Writes
<1>. QED
  BY <1>1, <1>2, <1>3, <1>5, <1>6

LEMMA FailedWriteStep ==
  ASSUME TypeInv, NEW t \in Thread, AppendFails(t)
  PROVE  LET s == Current(t)
         IN  /\ s.kind \in Kind /\ DayOf(s) \in Day
             /\ ShardsTyped'
             /\ shards' = shards \/ Appends(s.kind, DayOf(s), Torn)
<1>1. session[t].todo # <<>> /\ HasLine(Current(t))
  BY DEF AppendFails, Connected
<1>2. PICK s \in Statement : s = Current(t)
  BY <1>1, CurrentStatement
<1>3. PICK k \in Kind, d \in Day : k = s.kind /\ d = DayOf(s)
  BY <1>1, <1>2, LineGoesTo
<1>4. PICK new \in WrittenInPart(shards[k][d]) : shards' = [shards EXCEPT ![k][d] = new]
  BY <1>2, <1>3 DEF AppendFails, WriteLineInPart
<1>5. /\ ShardsTyped'
      /\ shards' = shards \/ Appends(k, d, Torn)
  BY <1>4, WritesInPart
<1>. QED
  BY <1>2, <1>3, <1>5

\* A commit appends at most one row to the history of items.
LEMMA Committing ==
  ASSUME TypeInv, NEW t \in Thread, Commit(t)
  PROVE  \/ committed' = committed
         \/ \E row \in view.items \ db.items : committed' = Append(committed, row)
<1>. DEFINE new == view.items \ db.items
            row == CHOOSE x \in new : TRUE
<1>1. new = {} \/ row \in new
  BY Zenon
<1>2. committed' = IF new = {} THEN committed ELSE Append(committed, row)
  BY DEF Commit
<1>. HIDE DEF new, row
<1>3. new = {} => committed' = committed
  BY <1>2
<1>4. new # {} => row \in new /\ committed' = Append(committed, row)
  BY <1>1, <1>2
<1>. QED
  BY <1>3, <1>4 DEF new

LEMMA NothingRead ==
  ASSUME NEW read, read = [k \in Kind |-> <<>>]
  PROVE  \A k \in Kind : read[k] = <<>> /\ read[k] \in Seq(Line(k))
  OBVIOUS

\* Every step keeps the types.
LEMMA TypeStep ==
  ASSUME ConstantsAssumption, TypeInv, \A r \in db.rules : r.key <= stamps + 1, Next
  PROVE  TypeInv'
<1>. USE DEF TypeInv, server, history
<1>1. ASSUME NEW t \in Thread, Operation(t)
      PROVE  TypeInv'
  <2>1. PICK todo : Planned(todo) /\ Begin(t, todo)
    BY <1>1, OperationPlans
  <2>2. session' \in [Thread -> Session]
    BY <2>1, BeginDoes
  <2>. QED
    BY <2>1, <2>2 DEF Begin, ConstantsAssumption
<1>2. ASSUME NEW t \in Thread, AppendLine(t)
      PROVE  TypeInv'
  <2>1. session' \in [Thread -> Session]
    BY <1>2, AppendBecomes DEF AppendLine
  <2>2. ShardsTyped'
    BY <1>2, WriteStep DEF AppendLine, Connected
  <2>. QED
    BY <1>2, <2>1, <2>2 DEF AppendLine, ShardsTyped
<1>3. ASSUME NEW t \in Thread, AppendFails(t)
      PROVE  TypeInv'
  <2>1. session' \in [Thread -> Session] /\ view' \in Tables
    BY <1>3, UndoneDoes DEF AppendFails
  <2>2. ShardsTyped'
    BY <1>3, FailedWriteStep
  <2>. QED
    BY <1>3, <2>1, <2>2 DEF AppendFails, ShardsTyped, ConstantsAssumption
<1>4. ASSUME NEW t \in Thread, Execute(t)
      PROVE  TypeInv'
  <2>1. session' \in [Thread -> Session] /\ view' \in Tables
    BY <1>4, ExecutedDoes DEF Execute, Connected
  <2>. QED
    BY <1>4, <2>1 DEF Execute
<1>5. ASSUME NEW t \in Thread, Save(t)
      PROVE  TypeInv'
  <2>1. session' \in [Thread -> Session] /\ view' \in Tables
    BY <1>5, ExecutedDoes DEF Save, Connected
  <2>2. ShardsTyped'
    BY <1>5, WriteStep DEF Save, Connected
  <2>. QED
    BY <1>5, <2>1, <2>2 DEF Save, ShardsTyped
<1>6. ASSUME NEW t \in Thread, Commit(t)
      PROVE  TypeInv'
  <2>1. session' \in [Thread -> Session]
    BY <1>6, UndoneBecomes DEF Commit
  <2>2. committed' \in Seq(Record.items)
    <3>1. view.items \subseteq Record.items
      BY DEF Tables
    <3>2. \A row \in view.items : Append(committed, row) \in Seq(Record.items)
      BY <3>1
    <3>. QED
      BY <1>6, <3>2, Committing
  <2>3. retired' \subseteq Nat
    <3>1. \A r \in view.rules : r.stamp \in Nat
      BY DEF Tables, Record
    <3>. QED
      BY <1>6, <3>1 DEF Commit
  <2>. QED
    BY <1>6, <2>1, <2>2, <2>3 DEF Commit
<1>7. ASSUME NEW t \in Thread, Rollback(t)
      PROVE  TypeInv'
  <2>1. session' \in [Thread -> Session] /\ view' \in Tables
    BY <1>7, UndoneDoes DEF Rollback
  <2>. QED
    BY <1>7, <2>1 DEF Rollback, ConstantsAssumption
<1>8. ASSUME NewDay
      PROVE  TypeInv'
  <2>1. day' \in Day
    BY <1>8 DEF NewDay, Day, ConstantsAssumption
  <2>. QED
    BY <1>8, <2>1 DEF NewDay
<1>9. ASSUME LoseIndex
      PROVE  TypeInv'
  <2>1. Idle \in Session
    BY DEF Idle, Session
  <2>2. session' \in [Thread -> Session]
    BY <1>9, <2>1 DEF LoseIndex
  <2>3. ctl' \in Controller /\ \A k \in Kind : ctl'.read[k] \in Seq(Line(k))
    BY <1>9, CtlIdleTyped DEF LoseIndex
  <2>4. recon' \in Reconciler
    BY <1>9 DEF LoseIndex, ReconIdle, Reconciler
  <2>5. db' \in Tables /\ view' \in Tables
    BY <1>9, EmptyTables DEF LoseIndex
  <2>. QED
    BY <1>9, <2>2, <2>3, <2>4, <2>5 DEF LoseIndex, ConstantsAssumption
<1>10. ASSUME RebuildScan
       PROVE  TypeInv'
  <2>1. ctl' \in Controller /\ \A k \in Kind : ctl'.read[k] \in Seq(Line(k))
    BY <1>10, ScanDoes, NothingRead DEF CtlBecomes
  <2>. QED
    BY <1>10, <2>1 DEF RebuildScan
<1>11. ASSUME NEW f \in ctl.todo, RebuildRead(f)
       PROVE  TypeInv'
  <2>1. ctl' \in Controller /\ \A k \in Kind : ctl'.read[k] \in Seq(Line(k))
    BY <1>11, ReadDoes DEF CtlBecomes
  <2>. QED
    BY <1>11, <2>1 DEF RebuildRead
<1>12. ASSUME NEW f \in ctl.todo, RebuildSkip(f)
       PROVE  TypeInv'
  <2>1. ctl' \in Controller /\ \A k \in Kind : ctl'.read[k] \in Seq(Line(k))
    BY <1>12, SkipDoes DEF CtlBecomes
  <2>. QED
    BY <1>12, <2>1 DEF RebuildSkip, ConstantsAssumption
<1>13. ASSUME RebuildFails \/ RebuildKilled
       PROVE  TypeInv'
  <2>1. ctl' \in Controller /\ \A k \in Kind : ctl'.read[k] \in Seq(Line(k))
    BY <1>13, RebuildEnds, NothingRead DEF CtlBecomes
  <2>2. view' \in Tables
    BY <1>13, RebuildEnds
  <2>. QED
    BY <1>13, <2>1, <2>2 DEF RebuildFails, RebuildKilled
<1>14. ASSUME RebuildApply
       PROVE  TypeInv'
  <2>1. ctl' \in Controller /\ \A k \in Kind : ctl'.read[k] \in Seq(Line(k))
    BY <1>14, RebuildApplyDoes DEF CtlBecomes
  <2>2. view' \in Tables
    BY <1>14, RebuildApplyDoes, RebuiltTables
  <2>. QED
    BY <1>14, <2>1, <2>2 DEF RebuildApply
<1>15. ASSUME RebuildCommit
       PROVE  TypeInv'
  <2>1. ctl' \in Controller /\ \A k \in Kind : ctl'.read[k] \in Seq(Line(k))
    BY <1>15, RebuildCommitDoes, NothingRead DEF CtlBecomes
  <2>2. view' \in Tables /\ db' \in Tables
    BY <1>15, RebuildCommitDoes
  <2>. QED
    BY <1>15, <2>1, <2>2 DEF RebuildCommit
<1>16. ASSUME Reconcile
       PROVE  TypeInv'
  <2>1. recon' \in Reconciler
    <3>1. CASE ReconcileScan
      <4>1. Listed \in SUBSET File /\ db.manifest \in SUBSET Entry
        BY DEF Listed, Tables
      <4>. QED
        BY <3>1, <4>1 DEF ReconcileScan, Reconciler
    <3>2. CASE ReconcileCompare
      BY <3>2 DEF ReconcileCompare, ReconIdle, Reconciler
    <3>. QED
      BY <1>16, <3>1, <3>2 DEF Reconcile
  <2>. QED
    BY <1>16, <2>1 DEF Reconcile, ReconcileScan, ReconcileCompare
<1>. QED
  BY <1>1, <1>2, <1>3, <1>4, <1>5, <1>6, <1>7, <1>8, <1>9, <1>10, <1>11, <1>12,
     <1>13, <1>14, <1>15, <1>16 DEF Next, Transaction, Rebuild

\* Every step keeps one holder of the connection and of the lock.
LEMMA LockStep ==
  ASSUME TypeInv, LockInv, Next
  PROVE  LockInv'
<1>. USE DEF server, history
<1>0. \A t \in Thread : session[t] \in Session /\ session[t].locked \in BOOLEAN
                        /\ session[t].open \in BOOLEAN /\ session[t].written \in BOOLEAN
  BY DEF TypeInv, Session
<1>1. ASSUME NEW t \in Thread, NEW todo, Planned(todo), Begin(t, todo)
      PROVE  LockInv'
  <2>1. /\ Becomes(t, todo, FALSE, FALSE, FALSE)
        /\ ~session[t].locked /\ \A u \in Thread : ~session[u].open
    BY <1>1, BeginDoes
  <2>2. UNCHANGED <<view, db, ctl>>
    BY <1>1 DEF Begin
  <2>. QED
    BY <2>1, <2>2 DEF LockInv, Becomes
<1>2. ASSUME NEW t \in Thread, AppendLine(t)
      PROVE  LockInv'
  <2>1. Becomes(t, session[t].todo, TRUE, session[t].locked, TRUE)
    BY <1>2, AppendBecomes DEF AppendLine, TypeInv
  <2>2. /\ UNCHANGED <<view, db, ctl>> /\ ~session[t].locked
        /\ HasLine(Head(session[t].todo)) /\ session[t].todo # <<>>
        /\ \A u \in Thread \ {t} : ~session[u].open
    BY <1>2 DEF AppendLine, Connected, Current
  <2>. QED
    BY <2>1, <2>2 DEF LockInv, Becomes
<1>3. ASSUME NEW t \in Thread, Becomes(t, <<>>, FALSE, FALSE, FALSE),
             view' = IF session[t].locked THEN db ELSE view, UNCHANGED <<db, ctl>>
      PROVE  LockInv'
  <2>1. \A u \in Thread : session'[u].locked => session[u].locked /\ u # t
    BY <1>3 DEF Becomes
  <2>2. (ctl.stage # "replaced" /\ \A u \in Thread : ~session'[u].locked) => view' = db
    <3>1. CASE session[t].locked
      BY <1>3, <3>1
    <3>2. CASE ~session[t].locked
      <4>1. (\A u \in Thread : ~session'[u].locked) => \A u \in Thread : ~session[u].locked
        BY <1>3, <3>2 DEF Becomes
      <4>. QED
        BY <1>3, <3>2, <4>1 DEF LockInv
    <3>. QED
      BY <3>1, <3>2
  <2>3. \A u \in Thread \ {t} : session'[u] = session[u]
    BY <1>3 DEF Becomes
  <2>. QED
    BY <1>3, <2>1, <2>2, <2>3 DEF LockInv, Becomes
<1>4. ASSUME NEW t \in Thread, Carried(t), UNCHANGED <<db, ctl>>,
             Connected(t), session[t].locked \/ LockFree
      PROVE  LockInv'
  <2>1. /\ Becomes(t, Tail(session[t].todo), TRUE, TRUE, FALSE)
        /\ \A u \in Thread \ {t} : ~session[u].open
    BY <1>4 DEF Connected, Carried
  <2>2. ctl.stage # "replaced"
    BY <1>4 DEF LockInv, LockFree
  <2>. QED
    BY <1>0, <1>4, <2>1, <2>2 DEF LockInv, Becomes
<1>5. ASSUME NEW t \in Thread, Commit(t)
      PROVE  LockInv'
  <2>1. /\ Becomes(t, <<>>, FALSE, FALSE, FALSE) /\ db' = view /\ view' = view /\ ctl' = ctl
        /\ session[t].locked
    BY <1>5, UndoneBecomes DEF Commit, TypeInv
  <2>. QED
    BY <1>0, <2>1 DEF LockInv, Becomes
<1>6. ASSUME LoseIndex
      PROVE  LockInv'
  <2>1. \A t \in Thread : session'[t] = Idle
    BY <1>6 DEF LoseIndex
  <2>. QED
    BY <1>6, <2>1, CtlIdleTyped DEF LockInv, LoseIndex, Idle
<1>7. ASSUME UNCHANGED <<session, view, db>>, ctl.stage # "replaced", ctl'.stage # "replaced"
      PROVE  LockInv'
  BY <1>7 DEF LockInv
<1>8. ASSUME RebuildKilled \/ RebuildFails
      PROVE  LockInv'
  <2>1. /\ ctl'.stage \in {"failed", "idle"}
        /\ view' = IF ctl.stage = "replaced" THEN db ELSE view
        /\ UNCHANGED <<session, db>>
    BY <1>8, RebuildEnds DEF RebuildKilled, RebuildFails
  <2>. QED
    BY <2>1 DEF LockInv
<1>9. ASSUME RebuildApply
      PROVE  LockInv'
  <2>1. ctl'.stage = "replaced" /\ UNCHANGED session /\ \A t \in Thread : ~session[t].locked
    BY <1>9, RebuildApplyDoes DEF RebuildApply, CtlBecomes, LockFree
  <2>. QED
    BY <2>1 DEF LockInv
<1>10. ASSUME RebuildCommit
       PROVE  LockInv'
  <2>1. ctl'.stage = "done" /\ UNCHANGED session /\ view' = db'
    BY <1>10 DEF RebuildCommit, CtlIdle
  <2>. QED
    BY <2>1 DEF LockInv
<1>11. ASSUME NEW t \in Thread, Operation(t)
       PROVE  LockInv'
  <2>1. \E todo : Begin(t, todo)
    BY <1>11 DEF Operation, Register, Change, Escalate, Reevaluate, Intake, CreateRule
  <2>2. /\ UNCHANGED <<view, db, ctl>>
        /\ \A u \in Thread : /\ session'[u].open = session[u].open
                             /\ session'[u].locked = session[u].locked
                             /\ session'[u].written = session[u].written
        /\ \A u \in Thread \ {t} : session'[u] = session[u]
        /\ ~session[t].written
    <3>1. PICK todo : Begin(t, todo)
      BY <2>1
    <3>2. /\ session' = [session EXCEPT ![t].todo = todo]
          /\ UNCHANGED <<view, db, ctl>> /\ session[t] = Idle
      BY <3>1 DEF Begin
    <3>3. \A u \in Thread : u # t => session'[u] = session[u]
      BY <3>2 DEF TypeInv
    <3>4. session'[t] = [Idle EXCEPT !.todo = todo]
      BY <3>2 DEF TypeInv
    <3>5. ~[Idle EXCEPT !.todo = todo].open /\ ~[Idle EXCEPT !.todo = todo].locked
          /\ ~[Idle EXCEPT !.todo = todo].written
          /\ ~Idle.open /\ ~Idle.locked /\ ~Idle.written
      BY DEF Idle
    <3>. QED
      BY <3>2, <3>3, <3>4, <3>5
  <2>. QED
    BY <2>2 DEF LockInv
<1>12. ASSUME NEW t \in Thread, AppendFails(t) \/ Rollback(t)
       PROVE  LockInv'
  BY <1>12, <1>3, UndoneDoes DEF AppendFails, Rollback
<1>13. ASSUME NEW t \in Thread, Execute(t) \/ Save(t)
       PROVE  LockInv'
  <2>1. Refused(t) \/ Carried(t)
    BY <1>13, ExecutedDoes DEF Execute, Save, Connected
  <2>2. /\ UNCHANGED <<db, ctl>> /\ Connected(t)
        /\ session[t].locked \/ LockFree
    BY <1>13 DEF Execute, Save
  <2>. QED
    BY <1>3, <1>4, <2>1, <2>2 DEF Refused
<1>14. ASSUME NewDay \/ Reconcile
       PROVE  LockInv'
  BY <1>14 DEF NewDay, Reconcile, ReconcileScan, ReconcileCompare, LockInv
<1>15. ASSUME RebuildScan \/ \E f \in ctl.todo : RebuildRead(f) \/ RebuildSkip(f)
       PROVE  LockInv'
  <2>1. CASE RebuildScan
    BY <1>7, <2>1, ScanDoes DEF RebuildScan, CtlBecomes
  <2>2. ASSUME NEW f \in ctl.todo, RebuildRead(f)
        PROVE  LockInv'
    <3>1. ctl'.stage = "reading"
      BY <2>2 DEF RebuildRead, ReadNext, TypeInv, Controller
    <3>. QED
      BY <1>7, <2>2, <3>1 DEF RebuildRead, ReadNext
  <2>3. ASSUME NEW f \in ctl.todo, RebuildSkip(f)
        PROVE  LockInv'
    BY <1>7, <2>3, SkipDoes DEF RebuildSkip, CtlBecomes
  <2>. QED
    BY <1>15, <2>1, <2>2, <2>3
<1>. QED
  BY <1>2, <1>5, <1>6, <1>8, <1>9, <1>10, <1>11, <1>12, <1>13, <1>14, <1>15
  DEF Next, Transaction, Rebuild

(***************************************************************************)
(* The files only grow                                                     *)
(***************************************************************************)
Grown(old, new) ==
  /\ Len(old) <= Len(new)
  /\ \A n \in DOMAIN old : \/ new[n] = old[n]
                           \/ old[n] = Torn /\ new[n] = Garbled

\* No step removes a line; only a torn one changes.
LEMMA FilesGrow ==
  ASSUME TypeInv, Next
  PROVE  \A k \in Kind, d \in Day : Grown(shards[k][d], shards'[k][d])
<1>0. \A k \in Kind, d \in Day : shards[k][d] \in Seq(Line(k))
  BY DEF TypeInv
<1>1. ASSUME shards' = shards
      PROVE  \A k \in Kind, d \in Day : Grown(shards[k][d], shards'[k][d])
  BY <1>0, <1>1 DEF Grown
<1>2. ASSUME NEW k \in Kind, NEW d \in Day, NEW x, Appends(k, d, x)
      PROVE  \A j \in Kind, e \in Day : Grown(shards[j][e], shards'[j][e])
  BY SMTT(20), <1>0, <1>2 DEF Grown, Appends, Appended, OthersKept
<1>3. ASSUME NEW k \in Kind, NEW d \in Day, Spoils(k, d)
      PROVE  \A j \in Kind, e \in Day : Grown(shards[j][e], shards'[j][e])
  BY <1>0, <1>3 DEF Grown, Spoils, Spoiled, OthersKept
<1>4. ASSUME NEW t \in Thread, AppendLine(t) \/ Save(t)
      PROVE  \A k \in Kind, d \in Day : Grown(shards[k][d], shards'[k][d])
  <2>1. /\ Current(t).kind \in Kind /\ DayOf(Current(t)) \in Day
        /\ \/ Appends(Current(t).kind, DayOf(Current(t)), Current(t).row)
           \/ Spoils(Current(t).kind, DayOf(Current(t)))
    BY <1>4, WriteStep DEF AppendLine, Save, Connected
  <2>. QED
    BY <1>2, <1>3, <2>1
<1>5. ASSUME NEW t \in Thread, AppendFails(t)
      PROVE  \A k \in Kind, d \in Day : Grown(shards[k][d], shards'[k][d])
  <2>1. /\ Current(t).kind \in Kind /\ DayOf(Current(t)) \in Day
        /\ shards' = shards \/ Appends(Current(t).kind, DayOf(Current(t)), Torn)
    BY <1>5, FailedWriteStep
  <2>. QED
    BY <1>1, <1>2, <2>1
<1>6. \/ shards' = shards
      \/ \E t \in Thread : AppendLine(t) \/ Save(t) \/ AppendFails(t)
  BY DEF Next, Operation, Register, Change, Escalate, Reevaluate, Intake, CreateRule, Begin,
     Transaction, Execute, Commit, Rollback, NewDay, LoseIndex, Rebuild, RebuildScan,
     RebuildRead, RebuildSkip, RebuildFails, RebuildApply, RebuildCommit, RebuildKilled,
     Reconcile, ReconcileScan, ReconcileCompare
<1>. QED
  BY <1>1, <1>4, <1>5, <1>6

\* So no base file gets shorter.
LEMMA BasesGrow ==
  ASSUME ConstantsAssumption, TypeInv, TypeInv', Next,
         NEW k \in Kind, NEW d \in Day
  PROVE  Len(Base(k, d)) <= Len(Base(k, d)')
<1>1. shards[k][d] \in Seq(Line(k)) /\ shards'[k][d] \in Seq(Line(k))
  BY DEF TypeInv
<1>2. Len(shards[k][d]) <= Len(shards'[k][d])
  BY FilesGrow DEF Grown
<1>3. Base(k, d) = Visible(shards[k][d]) /\ Base(k, d)' = Visible(shards'[k][d])
  BY DEF Base, Visible
<1>. QED
  BY <1>1, <1>2, <1>3, VisibleLines DEF ConstantsAssumption

(***************************************************************************)
(* What may happen to the tables                                           *)
(***************************************************************************)
TablesKept == view' \in {view, db} /\ db' = db

TablesCarried == db' = db /\ \E t \in Thread : Connected(t) /\ Carried(t)

TablesCommitted == db' = view /\ view' = view

\* The ways a step changes the tables.
LEMMA TablesMove ==
  ASSUME TypeInv, Next
  PROVE  \/ TablesKept \/ TablesCarried \/ TablesCommitted
         \/ LoseIndex \/ RebuildApply \/ RebuildCommit
<1>1. ASSUME NEW t \in Thread, Operation(t) \/ Transaction(t)
      PROVE  TablesKept \/ TablesCarried \/ TablesCommitted
  <2>1. CASE Operation(t) \/ AppendLine(t)
    BY <2>1 DEF TablesKept, Operation, Register, Change, Escalate, Reevaluate, Intake,
       CreateRule, Begin, AppendLine
  <2>2. CASE AppendFails(t) \/ Rollback(t)
    BY <2>2 DEF AppendFails, Rollback, Undone, TablesKept
  <2>3. CASE Execute(t) \/ Save(t)
    <3>1. (Refused(t) \/ Carried(t)) /\ Connected(t) /\ db' = db
      BY <2>3, ExecutedDoes DEF Execute, Save, Connected
    <3>. QED
      BY <3>1 DEF Refused, TablesKept, TablesCarried
  <2>4. CASE Commit(t)
    BY <2>4 DEF Commit, TablesCommitted
  <2>. QED
    BY <1>1, <2>1, <2>2, <2>3, <2>4 DEF Transaction
<1>2. ASSUME NewDay \/ RebuildScan \/ (\E f \in ctl.todo : RebuildRead(f) \/ RebuildSkip(f))
             \/ RebuildFails \/ RebuildKilled \/ Reconcile
      PROVE  TablesKept
  BY <1>2 DEF TablesKept, NewDay, RebuildScan, RebuildRead, RebuildSkip, RebuildFails,
     RebuildKilled, Reconcile, ReconcileScan, ReconcileCompare
<1>. QED
  BY <1>1, <1>2 DEF Next, Rebuild

(***************************************************************************)
(* The manifest counts no more than the files hold                         *)
(***************************************************************************)
LEMMA ManifestStep ==
  ASSUME ConstantsAssumption, TypeInv, TypeInv', ManifestInv, Next
  PROVE  ManifestInv'
<1>. DEFINE known == db.manifest \cup view.manifest \cup recon.manifest
<1>1. \A m \in known : m \in Entry /\ m.count <= Len(Base(m.file.kind, m.file.day))
  BY DEF TypeInv, Tables, Reconciler, ManifestInv
<1>2. \A m \in Manifest : m \in Entry /\ m.count <= Len(Base(m.file.kind, m.file.day))
  BY ManifestTyped
<1>3. db'.manifest \cup view'.manifest \subseteq known \cup Manifest
  <2>1. CASE TablesCarried
    BY <2>1 DEF TablesCarried, Carried, AppliedTo
  <2>2. CASE LoseIndex
    BY <2>2, EmptyTables DEF LoseIndex
  <2>3. CASE RebuildApply
    BY <2>3, RebuildApplyDoes, RebuiltTables DEF RebuildApply
  <2>4. CASE RebuildCommit
    BY <2>4, RebuildCommitDoes
  <2>. QED
    BY <2>1, <2>2, <2>3, <2>4, TablesMove DEF TablesKept, TablesCommitted
<1>4. recon'.manifest \subseteq known
  <2>1. recon' = recon \/ recon' = ReconIdle \/ recon'.manifest = db.manifest
    <3>1. CASE ReconcileScan
      <4>1. recon' = [stage |-> "listed", manifest |-> db.manifest, listed |-> Listed]
        BY <3>1 DEF ReconcileScan
      <4>. QED
        BY <4>1
    <3>2. CASE ReconcileCompare \/ LoseIndex
      BY <3>2 DEF ReconcileCompare, LoseIndex
    <3>3. CASE ~ReconcileScan /\ ~ReconcileCompare /\ ~LoseIndex
      BY ZenonT(40), <3>3 DEF Next, Operation, Register, Change, Escalate, Reevaluate, Intake,
         CreateRule, Begin, Transaction, AppendLine, AppendFails, Execute, Save, Commit,
         Rollback, NewDay, Rebuild, RebuildScan, RebuildRead, RebuildSkip, RebuildFails,
         RebuildApply, RebuildCommit, RebuildKilled, Reconcile
    <3>. QED
      BY <3>1, <3>2, <3>3
  <2>2. ReconIdle.manifest = {}
    BY DEF ReconIdle
  <2>. QED
    BY <2>1, <2>2
<1>5. \A m \in db'.manifest \cup view'.manifest \cup recon'.manifest : m \in known \cup Manifest
  BY <1>3, <1>4
<1>. HIDE DEF known
<1>6. ASSUME NEW m \in Entry, m.count <= Len(Base(m.file.kind, m.file.day))
      PROVE  m.count <= Len(Base(m.file.kind, m.file.day)')
  <2>1. PICK k \in Kind, d \in Day : k = m.file.kind /\ d = m.file.day
    BY DEF Entry, File
  <2>2. Len(Base(k, d)) <= Len(Base(k, d)')
    BY BasesGrow
  <2>3. /\ m.count \in Nat /\ Len(Base(k, d)) \in Nat /\ Len(Base(k, d)') \in Nat
    <3>1. shards[k][d] \in Seq(Line(k)) /\ shards'[k][d] \in Seq(Line(k))
      BY DEF TypeInv
    <3>2. Base(k, d) = Visible(shards[k][d]) /\ Base(k, d)' = Visible(shards'[k][d])
      BY DEF Base, Visible
    <3>3. Base(k, d) \in Seq(Line(k)) /\ Base(k, d)' \in Seq(Line(k))
      BY <3>1, <3>2, VisibleLines
    <3>. QED
      BY <3>3 DEF Entry
  <2>. QED
    BY <1>6, <2>1, <2>2, <2>3
<1>7. \A m \in known \cup Manifest : m.count <= Len(Base(m.file.kind, m.file.day)')
  BY <1>1, <1>2, <1>6 DEF known
<1>. QED
  BY <1>5, <1>7 DEF ManifestInv

\* A file that is listed has at least the lines its manifest counted.
LEMMA NothingMissing ==
  ASSUME TypeInv, ManifestInv
  PROVE  NoFalseMissing
<1>1. SUFFICES ASSUME recon.stage = "listed", NEW f \in recon.listed,
                      "missing" \in Differences(f)
               PROVE  FALSE
  BY DEF NoFalseMissing
<1>2. PICK m \in recon.manifest : m.file = f /\ CountOf(Base(f.kind, f.day)) < m.count
  <2>. DEFINE lines == Base(f.kind, f.day)
              entry == {m \in recon.manifest : m.file = f}
              a == IF entry = {} \/ \E m \in entry : CountOf(lines) > m.count
                   THEN {"orphaned"} ELSE {}
              b == IF \E m \in entry : CountOf(lines) < m.count
                   THEN {"missing"} ELSE {}
              c == IF \E m \in entry : m.checksum # <<>> /\ m.checksum # lines
                   THEN {"checksum"} ELSE {}
  <2>1. Differences(f) = a \cup b \cup c
    BY DEF Differences
  <2>2. "missing" \notin a /\ "missing" \notin c
    OBVIOUS
  <2>3. "missing" \in b
    BY <1>1, <2>1, <2>2
  <2>4. \E m \in entry : CountOf(lines) < m.count
    BY <2>3
  <2>. QED
    BY <2>4
<1>3. m.count <= Len(Base(m.file.kind, m.file.day))
  BY DEF ManifestInv
<1>4. m \in Entry /\ f \in File
  BY DEF TypeInv, Reconciler
<1>5. m.count \in Nat /\ f.kind \in Kind /\ f.day \in Day
  BY <1>4 DEF Entry, File
<1>6. Base(f.kind, f.day) \in Seq(Line(f.kind))
  BY <1>5, BaseTyped, ConstantsAssumption DEF TypeInv
<1>7. Len(Base(f.kind, f.day)) \in Nat
  BY <1>6
<1>. QED
  BY <1>2, <1>3, <1>5, <1>7 DEF CountOf

(***************************************************************************)
(* What refers to a suggestion does not lose it                            *)
(***************************************************************************)
LEMMA KeysKept ==
  ASSUME NEW T \in Tables, NEW s \in Statement, NEW new,
         ~Violates(T, s), AppliedTo(T, s, new)
  PROVE  /\ Keys(T.items) \subseteq Keys(new.items)
         /\ Keys(T.rules) \subseteq Keys(new.rules)
<1>1. T.rules \in SUBSET Record.rules
  BY DEF Tables
<1>2. Keys(T.rules) \subseteq Keys(new.rules)
  <2>1. CASE s.op = "supersede_rule"
    <3>1. PICK versions : versions = {s.version}
      OBVIOUS
    <3>2. new.rules = Retire(T.rules, versions)
      BY <2>1, <3>1 DEF AppliedTo
    <3>3. \A q \in T.rules : \E r \in new.rules : r.key = q.key
      BY <1>1, <3>2, RetiredRules
    <3>. QED
      BY <3>3 DEF Keys
  <2>2. CASE AddsRule(s)
    BY <2>2 DEF AppliedTo, Keys
  <2>3. CASE ~AddsRule(s) /\ s.op # "supersede_rule"
    BY <2>3 DEF AppliedTo, Keys
  <2>. QED
    BY <2>1, <2>2, <2>3
<1>3. Keys(T.items) \subseteq Keys(new.items)
  <2>1. CASE s.op = "update"
    BY <2>1 DEF AppliedTo, Keys
  <2>2. CASE AddsItem(s)
    BY <2>2 DEF AppliedTo, Keys
  <2>3. CASE ~WritesItem(s)
    BY <2>3 DEF AppliedTo
  <2>. QED
    BY <2>1, <2>2, <2>3, PlannedTexts
<1>. QED
  BY <1>2, <1>3

\* No step leaves an intake without its suggestion.
LEMMA IntakeStep ==
  ASSUME ConstantsAssumption, TypeInv, LockInv, IntakeInv, Next
  PROVE  IntakeInv'
<1>1. CASE TablesCarried
  <2>1. PICK t \in Thread : Connected(t) /\ Carried(t)
    BY <1>1 DEF TablesCarried
  <2>2. PICK s \in Statement : s = Current(t)
    BY <2>1, CurrentStatement DEF Connected
  <2>3. AppliedTo(view, s, view') /\ ~Violates(view, s) /\ db' = db
    BY <1>1, <2>1, <2>2 DEF Carried, TablesCarried
  <2>4. Keys(view.items) \subseteq Keys(view'.items)
    BY <2>3, KeysKept DEF TypeInv
  <2>5. s.op = "bind" => s.item \in Keys(view.items)
    BY <2>3 DEF Violates
  <2>. QED
    BY <2>3, <2>4, <2>5 DEF IntakeInv, AppliedTo
<1>2. CASE LoseIndex
  BY <1>2, EmptyTables DEF LoseIndex, IntakeInv
<1>3. CASE RebuildApply
  BY <1>3, RebuildApplyDoes, RebuiltTables DEF RebuildApply, IntakeInv
<1>4. CASE RebuildCommit
  BY <1>4, RebuildCommitDoes DEF IntakeInv
<1>5. CASE TablesKept
  BY <1>5 DEF TablesKept, IntakeInv
<1>6. CASE TablesCommitted
  BY <1>6 DEF TablesCommitted, IntakeInv
<1>. QED
  BY <1>1, <1>2, <1>3, <1>4, <1>5, <1>6, TablesMove

(***************************************************************************)
(* The rows that files, tables and the rebuild hold                        *)
(***************************************************************************)
LEMMA SeenTyped ==
  ASSUME TypeInv
  PROVE  /\ \A r \in ItemsSeen : r \in Record["items"] /\ r.key \in Nat /\ r.stamp \in Nat
         /\ \A x \in RulesSeen : x[1] \in Nat /\ x[2] \in Nat
         /\ \A a \in AuditSeen : a \in Record["audit"] /\ a.key \in Nat
<1>1. ASSUME NEW k \in Kind
      PROVE  LinesOf(k) \subseteq Record[k] /\ Readable(ctl.read[k]) \subseteq Record[k]
  <2>1. \A d \in Day : shards[k][d] \in Seq(Line(k))
    BY DEF TypeInv
  <2>2. ctl.read[k] \in Seq(Line(k))
    BY DEF TypeInv
  <2>. QED
    BY <2>1, <2>2, ReadableLines DEF LinesOf
<1>2. {"items", "rules", "audit"} \subseteq Kind
  BY DEF Kind
<1>3. /\ view.items \subseteq Record["items"] /\ db.items \subseteq Record["items"]
      /\ view.rules \subseteq Record["rules"] /\ db.rules \subseteq Record["rules"]
      /\ \A i \in DOMAIN committed : committed[i] \in Record["items"]
  BY DEF TypeInv, Tables
<1>4. ItemsSeen \subseteq Record["items"]
  BY <1>1, <1>2, <1>3 DEF ItemsSeen
<1>5. LinesOf("rules") \cup Readable(ctl.read["rules"]) \cup view.rules \cup db.rules
        \subseteq Record["rules"]
  BY <1>1, <1>2, <1>3
<1>6. AuditSeen \subseteq Record["audit"]
  BY <1>1, <1>2 DEF AuditSeen
<1>7. \A r \in Record["rules"] : r.stamp \in Nat /\ r.key \in Nat
  BY DEF Record
<1>8. \A x \in RulesSeen : x[1] \in Nat /\ x[2] \in Nat
  BY <1>5, <1>7 DEF RulesSeen, Ids
<1>9. \A r \in Record["items"] : r.stamp \in Nat /\ r.key \in Nat
  BY DEF Record
<1>10. \A r \in Record["audit"] : r.key \in Nat
  BY DEF Record
<1>. QED
  BY <1>4, <1>6, <1>8, <1>9, <1>10

\* A line that is added is readable if it is a record; damage adds none.
LEMMA ReadableGrow ==
  ASSUME NEW k \in Kind, NEW old \in Seq(Line(k)), NEW new \in Seq(Line(k))
  PROVE  /\ \A x : Appended(old, new, x) => Readable(new) \subseteq Readable(old) \cup {x}
         /\ Appended(old, new, Torn) \/ Spoiled(old, new) => Readable(new) \subseteq Readable(old)
<1>0. ~Decodable(Torn) /\ ~Decodable(Garbled)
  BY Damaged
<1>1. ASSUME NEW x, Appended(old, new, x)
      PROVE  \A n \in DOMAIN new : new[n] = x \/ (n \in DOMAIN old /\ new[n] = old[n])
  BY <1>1 DEF Appended
<1>2. ASSUME Spoiled(old, new)
      PROVE  \A n \in DOMAIN new : new[n] = Garbled \/ (n \in DOMAIN old /\ new[n] = old[n])
  BY <1>2 DEF Spoiled
<1>. QED
  BY <1>0, <1>1, <1>2 DEF Readable

LEMMA ReadableConcat ==
  ASSUME NEW k \in Kind, NEW a \in Seq(Line(k)), NEW b \in Seq(Line(k))
  PROVE  Readable(a \o b) \subseteq Readable(a) \cup Readable(b)
<1>1. \A n \in DOMAIN (a \o b) :
        \/ n \in DOMAIN a /\ (a \o b)[n] = a[n]
        \/ n - Len(a) \in DOMAIN b /\ (a \o b)[n] = b[n - Len(a)]
  BY ConcatProperties
<1>. QED
  BY <1>1 DEF Readable

LEMMA ReadableVisible ==
  ASSUME ConstantsAssumption, NEW k \in Kind, NEW lines \in Seq(Line(k))
  PROVE  Readable(Visible(lines)) \subseteq Readable(lines)
<1>1. /\ Visible(lines) \in Seq(Line(k)) /\ Len(Visible(lines)) <= Len(lines)
      /\ \A n \in 1..Len(Visible(lines)) : Visible(lines)[n] = lines[n]
  BY VisibleLines
<1>. QED
  BY <1>1 DEF Readable

\* What one statement adds to them.
Works(t) == AppendLine(t) \/ Execute(t) \/ Save(t)

ItemOf(t) == IF WritesItem(Current(t)) THEN {Current(t).row} ELSE {}
RuleOf(t) ==
  IF AddsRule(Current(t)) THEN {<<Current(t).row.stamp, Current(t).row.key>>} ELSE {}
AuditOf(t) == IF AddsAudit(Current(t)) THEN {Current(t).row} ELSE {}

SeenWithin(items, rules, audit) ==
  /\ ItemsSeen' \subseteq ItemsSeen \cup items
  /\ RulesSeen' \subseteq RulesSeen \cup rules
  /\ AuditSeen' \subseteq AuditSeen \cup audit

Unseen == SeenWithin({}, {}, {})

FilesWithin(items, rules, audit) ==
  /\ LinesOf("items")' \subseteq LinesOf("items") \cup items
  /\ {<<r.stamp, r.key>> : r \in LinesOf("rules")'}
       \subseteq {<<r.stamp, r.key>> : r \in LinesOf("rules")} \cup rules
  /\ LinesOf("audit")' \subseteq LinesOf("audit") \cup audit

ReadWithin ==
  \A k \in Kind : Readable(ctl'.read[k]) \subseteq Readable(ctl.read[k]) \cup LinesOf(k)

TablesWithin(items, rules) ==
  /\ view'.items \cup db'.items \subseteq ItemsSeen \cup items
  /\ Ids(view'.rules \cup db'.rules) \subseteq RulesSeen \cup rules
  /\ {committed'[i] : i \in DOMAIN committed'} \subseteq ItemsSeen \cup items

\* What is known grows by what files, reads and tables bring.
LEMMA SeenParts ==
  ASSUME NEW items, NEW rules, NEW audit,
         FilesWithin(items, rules, audit), ReadWithin, TablesWithin(items, rules)
  PROVE  SeenWithin(items, rules, audit)
<1>0. "items" \in Kind /\ "rules" \in Kind /\ "audit" \in Kind
  BY DEF Kind
<1>1. ItemsSeen' \subseteq ItemsSeen \cup items
  <2>1. ItemsSeen' = LinesOf("items")' \cup Readable(ctl'.read["items"]) \cup view'.items
          \cup db'.items \cup {committed'[i] : i \in DOMAIN committed'}
    BY DEF ItemsSeen, Readable
  <2>2. LinesOf("items") \cup Readable(ctl.read["items"]) \subseteq ItemsSeen
    BY DEF ItemsSeen
  <2>. QED
    BY <1>0, <2>1, <2>2 DEF FilesWithin, ReadWithin, TablesWithin
<1>2. RulesSeen' \subseteq RulesSeen \cup rules
  <2>1. RulesSeen' = Ids(LinesOf("rules")' \cup Readable(ctl'.read["rules"]) \cup view'.rules
          \cup db'.rules)
    BY DEF RulesSeen, Readable, Ids
  <2>2. RulesSeen = Ids(LinesOf("rules") \cup Readable(ctl.read["rules"]) \cup view.rules
          \cup db.rules)
    BY DEF RulesSeen
  <2>3. Readable(ctl'.read["rules"]) \subseteq Readable(ctl.read["rules"]) \cup LinesOf("rules")
    BY <1>0 DEF ReadWithin
  <2>. QED
    BY <2>1, <2>2, <2>3 DEF FilesWithin, TablesWithin, Ids
<1>3. AuditSeen' \subseteq AuditSeen \cup audit
  <2>1. AuditSeen' = LinesOf("audit")' \cup Readable(ctl'.read["audit"])
    BY DEF AuditSeen, Readable
  <2>. QED
    BY <1>0, <2>1 DEF FilesWithin, ReadWithin, AuditSeen
<1>. QED
  BY <1>1, <1>2, <1>3 DEF SeenWithin

LEMMA FilesSame ==
  ASSUME shards' = shards, NEW items, NEW rules, NEW audit
  PROVE  FilesWithin(items, rules, audit)
  BY DEF FilesWithin, LinesOf, Readable

LEMMA ReadSame ==
  ASSUME ctl'.read = ctl.read \/ ctl'.read = [k \in Kind |-> <<>>]
  PROVE  ReadWithin
<1>1. \A k \in Kind : ctl'.read[k] = ctl.read[k] \/ ctl'.read[k] = <<>>
  OBVIOUS
<1>. QED
  BY <1>1 DEF ReadWithin, Readable

LEMMA TablesSame ==
  ASSUME view' \in {view, db}, db' \in {view, db}, committed' = committed,
         NEW items, NEW rules
  PROVE  TablesWithin(items, rules)
  BY DEF TablesWithin, ItemsSeen, RulesSeen, Ids

\* A file that grows by a record, or is damaged.
LEMMA LinesGrow ==
  ASSUME TypeInv, TypeInv', NEW k \in Kind, NEW d \in Day, NEW x,
         Appends(k, d, x) \/ Spoils(k, d)
  PROVE  /\ \A j \in Kind \ {k} : LinesOf(j)' = LinesOf(j)
         /\ LinesOf(k)' \subseteq LinesOf(k) \cup {x}
         /\ x = Torn \/ Spoils(k, d) => LinesOf(k)' \subseteq LinesOf(k)
<1>1. \A j \in Kind, e \in Day : j # k \/ e # d => shards'[j][e] = shards[j][e]
  BY DEF Appends, Spoils, OthersKept
<1>2. \A j \in Kind : LinesOf(j)' = UNION {Readable(shards'[j][e]) : e \in Day}
  BY DEF LinesOf, Readable
<1>3. \A j \in Kind : LinesOf(j) = UNION {Readable(shards[j][e]) : e \in Day}
  BY DEF LinesOf
<1>4. \A j \in Kind \ {k} : LinesOf(j)' = LinesOf(j)
  BY <1>1, <1>2, <1>3
<1>5. shards[k][d] \in Seq(Line(k)) /\ shards'[k][d] \in Seq(Line(k))
  BY DEF TypeInv
<1>6. /\ Readable(shards'[k][d]) \subseteq Readable(shards[k][d]) \cup {x}
      /\ x = Torn \/ Spoils(k, d) => Readable(shards'[k][d]) \subseteq Readable(shards[k][d])
  BY <1>5, ReadableGrow DEF Appends, Spoils
<1>7. \A y \in LinesOf(k)' : \E e \in Day : y \in Readable(shards'[k][e])
  BY <1>2
<1>8. \A e \in Day : Readable(shards[k][e]) \subseteq LinesOf(k)
  BY <1>3
<1>. QED
  BY <1>1, <1>4, <1>6, <1>7, <1>8

\* A statement brings its own row to the files.
LEMMA FilesGrowBy ==
  ASSUME TypeInv, TypeInv', NEW t \in Thread, session[t].todo # <<>>, HasLine(Current(t)),
         WriteLine(Current(t))
  PROVE  FilesWithin(ItemOf(t), RuleOf(t), AuditOf(t))
<1>1. PICK s \in Statement : s = Current(t)
  BY CurrentStatement
<1>2. PICK k \in Kind, d \in Day : k = s.kind /\ d = DayOf(s)
  BY <1>1, LineGoesTo
<1>3. Appends(k, d, s.row) \/ Spoils(k, d)
  BY <1>1, <1>2, WriteStep
<1>4. /\ \A j \in Kind \ {k} : LinesOf(j)' = LinesOf(j)
      /\ LinesOf(k)' \subseteq LinesOf(k) \cup {s.row}
  BY <1>3, LinesGrow
<1>5. /\ k = "items" => ItemOf(t) = {s.row}
      /\ k = "rules" => RuleOf(t) = {<<s.row.stamp, s.row.key>>}
      /\ k = "audit" => AuditOf(t) = {s.row}
  BY <1>1, <1>2, Statements DEF ItemOf, RuleOf, AuditOf, WritesItem, AddsRule, AddsAudit, HasLine
<1>6. "items" \in Kind /\ "rules" \in Kind /\ "audit" \in Kind
  BY DEF Kind
<1>. QED
  BY <1>4, <1>5, <1>6 DEF FilesWithin

\* And to the tables.
LEMMA TablesGrowBy ==
  ASSUME TypeInv, NEW t \in Thread, Connected(t), Refused(t) \/ Carried(t),
         db' = db, committed' = committed
  PROVE  TablesWithin(ItemOf(t), RuleOf(t))
<1>1. PICK s \in Statement : s = Current(t)
  BY CurrentStatement DEF Connected
<1>2. CASE Refused(t)
  BY <1>2, TablesSame DEF Refused
<1>3. CASE Carried(t)
  <2>1. AppliedTo(view, s, view')
    BY <1>1, <1>3 DEF Carried
  <2>2. view'.items \subseteq view.items \cup ItemOf(t)
    <3>1. WritesItem(s) => ItemOf(t) = {s.row}
      BY <1>1 DEF ItemOf
    <3>2. WritesItem(s) <=> s.op = "update" \/ AddsItem(s)
      BY PlannedTexts
    <3>. QED
      BY <2>1, <3>1, <3>2 DEF AppliedTo
  <2>3. \A r \in view'.rules : \/ \E q \in view.rules : r.key = q.key /\ r.stamp = q.stamp
                               \/ <<r.stamp, r.key>> \in RuleOf(t)
    <3>1. CASE s.op = "supersede_rule"
      <4>1. PICK versions : versions = {s.version}
        OBVIOUS
      <4>2. view'.rules = Retire(view.rules, versions)
        BY <2>1, <3>1, <4>1 DEF AppliedTo
      <4>3. view.rules \in SUBSET Record.rules
        BY DEF TypeInv, Tables
      <4>. QED
        BY <4>2, <4>3, RetiredRules
    <3>2. CASE AddsRule(s)
      BY <1>1, <2>1, <3>2 DEF AppliedTo, RuleOf
    <3>3. CASE ~AddsRule(s) /\ s.op # "supersede_rule"
      BY <2>1, <3>3 DEF AppliedTo
    <3>. QED
      BY <3>1, <3>2, <3>3
  <2>. QED
    BY <2>2, <2>3 DEF TablesWithin, ItemsSeen, RulesSeen, Ids
<1>. QED
  BY <1>2, <1>3

\* A rebuild brings nothing that was not known.
LEMMA RebuiltSeen ==
  ASSUME TypeInv, view' = Rebuilt, db' = db, committed' = committed
  PROVE  TablesWithin({}, {})
<1>1. "items" \in Kind /\ "rules" \in Kind /\ ctl.read["items"] \in Seq(Line("items"))
      /\ ctl.read["rules"] \in Seq(Line("rules"))
  BY DEF TypeInv, Kind
<1>2. view'.items \subseteq Readable(ctl.read["items"])
  BY <1>1, RebuiltTables, ReadableLines
<1>3. PICK rules : rules = view.rules \cup Latest(ctl.read["rules"])
  OBVIOUS
<1>4. PICK versions : versions = {a.rule : a \in Latest(ctl.read["audit"])}
  OBVIOUS
<1>5. view'.rules = Retire(rules, versions)
  BY <1>3, <1>4, RebuiltTables
<1>6. Latest(ctl.read["rules"]) \subseteq Readable(ctl.read["rules"])
      /\ Readable(ctl.read["rules"]) \in SUBSET Record["rules"]
  BY <1>1, ReadableLines
<1>7. rules \in SUBSET Record.rules
  BY <1>3, <1>6 DEF TypeInv, Tables
<1>8. \A r \in view'.rules : \E q \in rules : r.key = q.key /\ r.stamp = q.stamp
  BY <1>5, <1>7, RetiredRules
<1>9. Ids(view'.rules) \subseteq RulesSeen
  BY <1>3, <1>6, <1>8 DEF Ids, RulesSeen
<1>. QED
  BY <1>2, <1>9 DEF TablesWithin, ItemsSeen, RulesSeen, Ids

(***************************************************************************)
(* What a step does to the sessions and to the rows that are known         *)
(***************************************************************************)
Plans ==
  \E t \in Thread : \E todo :
    /\ Planned(todo) /\ Begin(t, todo) /\ Becomes(t, todo, FALSE, FALSE, FALSE)
    /\ session[t].todo = <<>> /\ ~session[t].locked /\ ~session[t].written
    /\ Unseen

\* The first statement of t is done, or its line is.
Advances(t) ==
  \/ Becomes(t, Tail(session[t].todo), TRUE, TRUE, FALSE)
  \/ /\ Becomes(t, session[t].todo, TRUE, FALSE, TRUE)
     /\ HasLine(Current(t)) /\ ~session[t].locked

Proceeds ==
  \E t \in Thread :
    /\ Connected(t) /\ Works(t) /\ Advances(t)
    /\ SeenWithin(ItemOf(t), RuleOf(t), AuditOf(t))
    /\ stamps' = stamps /\ day' = day /\ retired' = retired

\* Sessions stay as they are or have no statements any more.
Dwindle ==
  \A u \in Thread : \/ session'[u] = session[u]
                    \/ session'[u].todo = <<>> /\ ~session'[u].locked /\ ~session'[u].written

\* A statement is refused once its line was written.
Fails ==
  \E t \in Thread :
    /\ Connected(t) /\ Works(t) /\ Becomes(t, <<>>, FALSE, FALSE, FALSE)
    /\ SeenWithin(ItemOf(t), RuleOf(t), AuditOf(t))
    /\ stamps' = stamps /\ day' = day /\ retired' = retired

Rests ==
  /\ Dwindle /\ Unseen
  /\ stamps' = stamps /\ day <= day'
  /\ \/ retired' = retired
     \/ /\ retired' \subseteq retired \cup {r.stamp : r \in view.rules}
        /\ \A u \in Thread : session[u].open => session'[u].todo = <<>>

\* Every step plans, proceeds, fails or rests in the sense above.
LEMMA Moves ==
  ASSUME ConstantsAssumption, TypeInv, TypeInv', LockInv,
         \A r \in db.rules : r.key <= stamps + 1, Next
  PROVE  Plans \/ Proceeds \/ Fails \/ Rests
<1>. USE DEF server, history
<1>0. \A e, f, g : shards' = shards => FilesWithin(e, f, g)
  BY FilesSame
<1>d. day \in Nat
  BY DEF TypeInv, Day
<1>k. session' = session => Dwindle
  BY DEF Dwindle
<1>1. ASSUME NEW t \in Thread, Operation(t)
      PROVE  Plans
  <2>1. PICK todo : Planned(todo) /\ Begin(t, todo)
    BY <1>1, OperationPlans
  <2>2. /\ Becomes(t, todo, FALSE, FALSE, FALSE)
        /\ session[t].todo = <<>> /\ ~session[t].locked /\ ~session[t].written
    BY <2>1, BeginDoes
  <2>3. UNCHANGED <<shards, view, db, ctl, committed>>
    BY <2>1 DEF Begin
  <2>4. FilesWithin({}, {}, {}) /\ ReadWithin /\ TablesWithin({}, {})
    BY <1>0, <2>3, ReadSame, TablesSame
  <2>5. Unseen
    BY <2>4, SeenParts DEF Unseen
  <2>. QED
    BY <2>1, <2>2, <2>5 DEF Plans
<1>2. ASSUME NEW t \in Thread, AppendLine(t)
      PROVE  Proceeds
  <2>1. Becomes(t, session[t].todo, TRUE, FALSE, TRUE)
    <3>1. session[t].locked = FALSE
      BY <1>2 DEF AppendLine, TypeInv, Session
    <3>2. Becomes(t, session[t].todo, TRUE, session[t].locked, TRUE)
      BY <1>2, AppendBecomes DEF AppendLine, TypeInv
    <3>. QED
      BY <3>1, <3>2 DEF Becomes
  <2>2. /\ Connected(t) /\ HasLine(Current(t)) /\ session[t].todo # <<>>
        /\ ~session[t].locked
        /\ UNCHANGED <<view, db, ctl, committed, stamps, day, retired>>
    BY <1>2 DEF AppendLine, Connected
  <2>3. FilesWithin(ItemOf(t), RuleOf(t), AuditOf(t))
    BY <1>2, <2>2, FilesGrowBy DEF AppendLine
  <2>4. SeenWithin(ItemOf(t), RuleOf(t), AuditOf(t))
    BY <2>2, <2>3, ReadSame, TablesSame, SeenParts
  <2>. QED
    BY <1>2, <2>1, <2>2, <2>4 DEF Proceeds, Works, Advances
<1>3. ASSUME NEW t \in Thread, Execute(t) \/ Save(t)
      PROVE  Proceeds \/ Fails
  <2>1. /\ Connected(t) /\ session[t].todo # <<>>
        /\ UNCHANGED <<db, ctl, committed, stamps, day, retired>>
    BY <1>3 DEF Execute, Save, Connected
  <2>2. Refused(t) \/ Carried(t)
    BY <1>3, <2>1, ExecutedDoes DEF Execute, Save
  <2>3. FilesWithin(ItemOf(t), RuleOf(t), AuditOf(t))
    <3>1. CASE Execute(t)
      BY <1>0, <3>1 DEF Execute
    <3>2. CASE Save(t)
      BY <2>1, <3>2, FilesGrowBy DEF Save
    <3>. QED
      BY <1>3, <3>1, <3>2
  <2>4. TablesWithin(ItemOf(t), RuleOf(t))
    BY <2>1, <2>2, TablesGrowBy
  <2>5. SeenWithin(ItemOf(t), RuleOf(t), AuditOf(t))
    BY <2>1, <2>3, <2>4, ReadSame, SeenParts
  <2>. QED
    BY <1>3, <2>1, <2>2, <2>5 DEF Proceeds, Fails, Works, Advances, Carried, Refused
<1>4. ASSUME FilesWithin({}, {}, {}), ReadWithin, TablesWithin({}, {}), Dwindle,
             UNCHANGED <<stamps, retired>>, day' = day \/ day' = day + 1
      PROVE  Rests
  <2>1. Unseen
    BY <1>4, SeenParts DEF Unseen
  <2>. QED
    BY <1>4, <1>d, <2>1 DEF Rests
<1>5. ASSUME NEW t \in Thread, Commit(t)
      PROVE  Rests
  <2>1. Becomes(t, <<>>, FALSE, FALSE, FALSE) /\ session[t].locked
    BY <1>5, UndoneBecomes DEF Commit, TypeInv
  <2>2. UNCHANGED <<shards, ctl, stamps, day, view>> /\ db' = view
    BY <1>5 DEF Commit
  <2>3. TablesWithin({}, {})
    <3>1. {committed'[i] : i \in DOMAIN committed'} \subseteq ItemsSeen
      <4>1. CASE committed' = committed
        BY <4>1 DEF ItemsSeen
      <4>2. ASSUME NEW row \in view.items \ db.items, committed' = Append(committed, row)
            PROVE  {committed'[i] : i \in DOMAIN committed'} \subseteq ItemsSeen
        <5>1. committed \in Seq(Record.items) /\ row \in Record.items
          BY DEF TypeInv, Tables
        <5>2. \A i \in DOMAIN committed' :
                committed'[i] = row \/ (i \in DOMAIN committed /\ committed'[i] = committed[i])
          BY <4>2, <5>1
        <5>. QED
          BY <5>2 DEF ItemsSeen
      <4>. QED
        BY <1>5, <4>1, <4>2, Committing
    <3>. QED
      BY <2>2, <3>1 DEF TablesWithin, ItemsSeen, RulesSeen, Ids
  <2>4. Unseen
    BY <1>0, <2>2, <2>3, ReadSame, SeenParts DEF Unseen
  <2>5. \A u \in Thread : session[u].open => u = t
    BY <2>1 DEF LockInv
  <2>6. retired' \subseteq retired \cup {r.stamp : r \in view.rules}
    BY <1>5 DEF Commit
  <2>7. Dwindle /\ \A u \in Thread : session[u].open => session'[u].todo = <<>>
    BY <2>1, <2>5 DEF Dwindle, Becomes
  <2>. QED
    BY <1>d, <2>2, <2>4, <2>6, <2>7 DEF Rests
<1>6. ASSUME NEW t \in Thread, AppendFails(t)
      PROVE  Rests
  <2>1. Dwindle /\ view' = IF session[t].locked THEN db ELSE view
    BY <1>6, UndoneDoes DEF AppendFails, Dwindle, Becomes
  <2>2. /\ Current(t).kind \in Kind /\ DayOf(Current(t)) \in Day
        /\ shards' = shards \/ Appends(Current(t).kind, DayOf(Current(t)), Torn)
    BY <1>6, FailedWriteStep
  <2>3. FilesWithin({}, {}, {})
    <3>1. ASSUME NEW k \in Kind, NEW d \in Day, Appends(k, d, Torn)
          PROVE  \A j \in Kind : LinesOf(j)' \subseteq LinesOf(j)
      BY <3>1, LinesGrow
    <3>2. shards' = shards \/ \A j \in Kind : LinesOf(j)' \subseteq LinesOf(j)
      BY <2>2, <3>1
    <3>3. "items" \in Kind /\ "rules" \in Kind /\ "audit" \in Kind
      BY DEF Kind
    <3>. QED
      BY <1>0, <3>2, <3>3 DEF FilesWithin
  <2>4. UNCHANGED <<db, ctl, committed, stamps, day, retired>> /\ view' \in {view, db}
    BY <1>6, <2>1 DEF AppendFails
  <2>. QED
    BY <1>4, <2>1, <2>3, <2>4, ReadSame, TablesSame
<1>7. ASSUME NEW t \in Thread, Rollback(t)
      PROVE  Rests
  <2>1. Dwindle /\ view' = IF session[t].locked THEN db ELSE view
    BY <1>7, UndoneDoes DEF Rollback, Dwindle, Becomes
  <2>2. /\ UNCHANGED <<shards, db, ctl, committed, stamps, day, retired>>
        /\ view' \in {view, db}
    BY <1>7, <2>1 DEF Rollback
  <2>. QED
    BY <1>0, <1>4, <2>1, <2>2, ReadSame, TablesSame
<1>8. ASSUME NewDay \/ Reconcile
      PROVE  Rests
  BY <1>0, <1>4, <1>8, <1>k, ReadSame, TablesSame
  DEF NewDay, Reconcile, ReconcileScan, ReconcileCompare
<1>9. ASSUME LoseIndex
      PROVE  Rests
  <2>1. Idle.todo = <<>> /\ ~Idle.locked /\ ~Idle.written
    BY DEF Idle
  <2>2. \A u \in Thread : session'[u] = Idle
    BY <1>9 DEF LoseIndex
  <2>3. Dwindle
    BY <2>1, <2>2 DEF Dwindle
  <2>4. ctl'.read = [k \in Kind |-> <<>>]
    BY <1>9, CtlIdleTyped DEF LoseIndex
  <2>5. UNCHANGED <<shards, committed, stamps, day, retired>>
        /\ view' = EmptyIndex /\ db' = EmptyIndex
    BY <1>9 DEF LoseIndex
  <2>6. TablesWithin({}, {})
    BY <2>5, EmptyTables DEF TablesWithin, Ids, ItemsSeen
  <2>. QED
    BY <1>0, <1>4, <2>3, <2>4, <2>5, <2>6, ReadSame
<1>10. ASSUME RebuildScan \/ RebuildFails \/ RebuildKilled
       PROVE  Rests
  <2>1. /\ UNCHANGED <<shards, db, session, stamps, day, committed, retired>>
        /\ view' \in {view, db}
    BY <1>10 DEF RebuildScan, RebuildFails, RebuildKilled
  <2>2. ctl'.read = [k \in Kind |-> <<>>]
    BY <1>10, ScanDoes, RebuildEnds
  <2>. QED
    BY <1>0, <1>4, <1>k, <2>1, <2>2, ReadSame, TablesSame
<1>11. ASSUME NEW f \in ctl.todo, RebuildRead(f)
       PROVE  Rests
  <2>1. UNCHANGED <<shards, db, view, session, stamps, day, committed, retired>>
    BY <1>11 DEF RebuildRead
  <2>2. /\ f \in File
        /\ \A k \in Kind \ {f.kind} : ctl'.read[k] = ctl.read[k]
        /\ ctl'.read[f.kind] = ctl.read[f.kind] \o Base(f.kind, f.day)
    BY <1>11, ReadDoes
  <2>3. PICK j \in Kind, d \in Day : j = f.kind /\ d = f.day
    BY <2>2 DEF File
  <2>4. ctl.read[j] \in Seq(Line(j)) /\ shards[j][d] \in Seq(Line(j)) /\ Base(j, d) \in Seq(Line(j))
    BY BaseTyped DEF TypeInv
  <2>5. Readable(Base(j, d)) \subseteq LinesOf(j)
    BY <2>4, BaseIsVisible, ReadableVisible DEF LinesOf
  <2>6. Readable(ctl.read[j] \o Base(j, d)) \subseteq Readable(ctl.read[j]) \cup LinesOf(j)
    BY <2>4, <2>5, ReadableConcat
  <2>7. ReadWithin
    BY <2>2, <2>3, <2>6 DEF ReadWithin
  <2>. QED
    BY <1>0, <1>4, <1>k, <2>1, <2>7, TablesSame
<1>12. ASSUME NEW f \in ctl.todo, RebuildSkip(f)
       PROVE  Rests
  <2>1. UNCHANGED <<shards, db, view, session, stamps, day, committed, retired>>
        /\ ctl'.read = ctl.read
    BY <1>12, SkipDoes DEF RebuildSkip
  <2>. QED
    BY <1>0, <1>4, <1>k, <2>1, TablesSame, ReadSame
<1>13. ASSUME RebuildApply
       PROVE  Rests
  <2>1. UNCHANGED <<shards, db, session, stamps, day, committed, retired>>
        /\ ctl'.read = ctl.read /\ view' = Rebuilt
    BY <1>13, RebuildApplyDoes DEF RebuildApply
  <2>. QED
    BY <1>0, <1>4, <1>k, <2>1, RebuiltSeen, ReadSame
<1>14. ASSUME RebuildCommit
       PROVE  Rests
  <2>1. UNCHANGED <<shards, session, stamps, day, committed, retired>>
        /\ ctl'.read = [k \in Kind |-> <<>>] /\ view' = db'
        /\ db'.items = view.items /\ db'.rules = view.rules
    BY <1>14, RebuildCommitDoes DEF RebuildCommit
  <2>2. TablesWithin({}, {})
    BY <2>1 DEF TablesWithin, ItemsSeen, RulesSeen, Ids
  <2>. QED
    BY <1>0, <1>4, <1>k, <2>1, <2>2, ReadSame
<1>. QED
  BY <1>1, <1>2, <1>3, <1>5, <1>6, <1>7, <1>8, <1>9, <1>10, <1>11, <1>12, <1>13, <1>14
  DEF Next, Transaction, Rebuild

(***************************************************************************)
(* Stamps and keys are taken in order                                      *)
(***************************************************************************)
LEMMA PlannedSeq == \A todo : Planned(todo) => todo \in Seq(Statement)
  BY DEF Planned

LEMMA PlannedTodo ==
  ASSUME NEW todo, Planned(todo), NEW i \in DOMAIN todo
  PROVE  todo \in Seq(Statement) /\ todo[i] \in Statement
  BY DEF Planned

\* A statement a session still has after the step, in terms of those before it.
LEMMA TodoKept ==
  ASSUME TypeInv, NEW t \in Thread, session[t].todo # <<>>, Advances(t)
  PROVE  /\ \A u \in Thread \ {t} : session'[u] = session[u]
         /\ \A i \in DOMAIN session'[t].todo : \E j \in DOMAIN session[t].todo :
              /\ session'[t].todo[i] = session[t].todo[j]
              /\ j \in {i, i + 1}
              /\ Waiting(session'[t], i) => j > 1
         /\ \A i, k \in DOMAIN session'[t].todo : \E j, l \in DOMAIN session[t].todo :
              /\ session'[t].todo[i] = session[t].todo[j]
              /\ session'[t].todo[k] = session[t].todo[l]
              /\ j = l => i = k
              /\ j > l <=> i > k
<1>1. /\ DOMAIN session[t].todo = 1..Len(session[t].todo)
      /\ DOMAIN Tail(session[t].todo) = 1..(Len(session[t].todo) - 1)
      /\ \A i \in DOMAIN Tail(session[t].todo) :
           /\ Tail(session[t].todo)[i] = session[t].todo[i + 1]
           /\ i + 1 \in DOMAIN session[t].todo
  BY CurrentStatement
<1>2. CASE Becomes(t, Tail(session[t].todo), TRUE, TRUE, FALSE)
  <2>1. /\ \A i \in DOMAIN session'[t].todo :
             session'[t].todo[i] = session[t].todo[i + 1] /\ i + 1 \in DOMAIN session[t].todo
                /\ i \in Nat /\ i > 0
        /\ \A u \in Thread \ {t} : session'[u] = session[u]
    BY <1>1, <1>2 DEF Becomes
  <2>. QED
    BY <2>1
<1>3. CASE Becomes(t, session[t].todo, TRUE, FALSE, TRUE)
  <2>1. /\ session'[t].todo = session[t].todo /\ session'[t].written
        /\ \A u \in Thread \ {t} : session'[u] = session[u]
        /\ \A i \in DOMAIN session[t].todo : i \in Nat /\ i > 0
    BY <1>1, <1>3 DEF Becomes
  <2>. QED
    BY <2>1 DEF Waiting
<1>. QED
  BY <1>2, <1>3 DEF Advances

StampedTodo(todo, bound) ==
  \A i \in DOMAIN todo :
    LET s == todo[i] IN
    /\ WritesItem(s) => s.row.stamp <= bound /\ s.row.key <= bound
    /\ AddsRule(s) => s.row.stamp <= bound /\ s.row.key <= bound + 1 /\ s.row.active
    /\ AddsAudit(s) => s.row.key <= bound

\* A bound on stamps and keys holds for a higher stamp.
LEMMA StampedLater ==
  ASSUME NEW todo \in Seq(Statement), NEW b \in Nat, StampedTodo(todo, b)
  PROVE  StampedTodo(todo, b + 1)
<1>1. \A i \in DOMAIN todo : todo[i] \in Statement
  OBVIOUS
<1>2. \A s \in Statement :
        /\ WritesItem(s) => s.row.stamp \in Nat /\ s.row.key \in Nat
        /\ AddsRule(s) => s.row.stamp \in Nat /\ s.row.key \in Nat
        /\ AddsAudit(s) => s.row.key \in Nat
  <2>1. \A s \in Statement :
          /\ WritesItem(s) => s.row \in Record["items"]
          /\ AddsRule(s) => s.row \in Record["rules"]
          /\ AddsAudit(s) => s.row \in Record["audit"]
    BY Statements DEF WritesItem, AddsRule, AddsAudit, HasLine
  <2>2. /\ \A r \in Record["items"] : r.stamp \in Nat /\ r.key \in Nat
        /\ \A r \in Record["rules"] : r.stamp \in Nat /\ r.key \in Nat
        /\ \A r \in Record["audit"] : r.key \in Nat
    BY DEF Record
  <2>. QED
    BY <2>1, <2>2
<1>. QED
  BY <1>1, <1>2 DEF StampedTodo

SeenStamped(bound) ==
  /\ \A r \in ItemsSeen : r.stamp <= bound /\ r.key <= bound
  /\ \A x \in RulesSeen : x[1] <= bound /\ x[2] <= bound + 1
  /\ \A a \in AuditSeen : a.key <= bound
  /\ \A x \in retired : x <= bound

LEMMA StampParts ==
  StampInv <=> SeenStamped(stamps) /\ \A t \in Thread : StampedTodo(session[t].todo, stamps)
  BY DEF StampInv, SeenStamped, StampedTodo

\* No stamp or key is ahead of the operations that have begun.
LEMMA StampStep ==
  ASSUME ConstantsAssumption, TypeInv, TypeInv', LockInv, StampInv,
         Plans \/ Proceeds \/ Fails \/ Rests
  PROVE  StampInv'
<1>0. /\ stamps \in Nat
      /\ \A u \in Thread : session[u].todo \in Seq(Statement)
      /\ \A u \in Thread : StampedTodo(session[u].todo, stamps)
      /\ SeenStamped(stamps)
      /\ \A x \in retired : x \in Nat
  BY StampParts DEF TypeInv, Session
<1>1. CASE Plans
  <2>1. PICK t \in Thread, todo \in Seq(Statement) :
          /\ Planned(todo) /\ Begin(t, todo) /\ Becomes(t, todo, FALSE, FALSE, FALSE) /\ Unseen
    BY <1>1, PlannedSeq DEF Plans
  <2>2. stamps' = stamps + 1 /\ retired' = retired
    BY <2>1 DEF Begin, history
  <2>3. StampedTodo(todo, stamps + 1)
    <3>1. Fresh = stamps + 1 /\ todo \in Seq(Statement)
      BY <2>1 DEF Fresh, Planned
    <3>2. ASSUME NEW i \in DOMAIN todo, WritesItem(todo[i])
          PROVE  todo[i].row.stamp <= stamps + 1 /\ todo[i].row.key <= stamps + 1
      <4>1. todo[i].row.stamp = stamps + 1
        BY <2>1, <3>1, <3>2 DEF Planned
      <4>2. AddsItem(todo[i]) => todo[i].row.key = stamps + 1
        BY <2>1, <3>1, <3>2 DEF Planned
      <4>3. ~AddsItem(todo[i]) => todo[i].row.key \in Keys(db.items)
        BY <2>1, <3>1, <3>2 DEF Planned
      <4>4. \A k \in Keys(db.items) : k \in Nat /\ k <= stamps
        BY <1>0, SeenTyped DEF Keys, ItemsSeen, SeenStamped
      <4>. QED
        BY <1>0, <4>1, <4>2, <4>3, <4>4
    <3>3. ASSUME NEW i \in DOMAIN todo, AddsRule(todo[i])
          PROVE  /\ todo[i].row.stamp <= stamps + 1 /\ todo[i].row.key <= (stamps + 1) + 1
                 /\ todo[i].row.active
      BY <1>0, <2>1, <3>1, <3>3 DEF Planned
    <3>4. ASSUME NEW i \in DOMAIN todo, AddsAudit(todo[i])
          PROVE  todo[i].row.key <= stamps + 1
      BY <1>0, <2>1, <3>1, <3>4 DEF Planned
    <3>. QED
      BY <3>2, <3>3, <3>4 DEF StampedTodo
  <2>4. \A u \in Thread : StampedTodo(session'[u].todo, stamps')
    BY <1>0, <2>1, <2>2, <2>3, StampedLater DEF Becomes
  <2>5. SeenStamped(stamps)'
    BY <1>0, <2>1, <2>2, SeenTyped DEF SeenStamped, Unseen, SeenWithin
  <2>. QED
    BY <2>4, <2>5 DEF StampInv, SeenStamped, StampedTodo
<1>2. ASSUME NEW t \in Thread, Connected(t), SeenWithin(ItemOf(t), RuleOf(t), AuditOf(t)),
             stamps' = stamps, retired' = retired
      PROVE  SeenStamped(stamps)'
  <2>1. StampedTodo(session[t].todo, stamps) /\ 1 \in DOMAIN session[t].todo
        /\ Current(t) = session[t].todo[1]
    BY <1>0, <1>2, CurrentStatement DEF Connected
  <2>2. /\ \A r \in ItemOf(t) : r.stamp <= stamps /\ r.key <= stamps
        /\ \A x \in RuleOf(t) : x[1] <= stamps /\ x[2] <= stamps + 1
        /\ \A a \in AuditOf(t) : a.key <= stamps
    BY <2>1 DEF StampedTodo, ItemOf, RuleOf, AuditOf
  <2>. QED
    BY <1>0, <1>2, <2>2 DEF SeenStamped, SeenWithin
<1>3. CASE Proceeds
  <2>1. PICK t \in Thread :
          /\ Connected(t) /\ Advances(t)
          /\ SeenWithin(ItemOf(t), RuleOf(t), AuditOf(t))
          /\ stamps' = stamps /\ retired' = retired
    BY <1>3 DEF Proceeds
  <2>2. SeenStamped(stamps)'
    BY <1>2, <2>1
  <2>3. session[t].todo # <<>>
    BY <2>1 DEF Connected
  <2>4. StampedTodo(session'[t].todo, stamps)
    BY <1>0, <2>1, <2>3, TodoKept DEF StampedTodo
  <2>5. \A u \in Thread : StampedTodo(session'[u].todo, stamps)
    BY <1>0, <2>1, <2>3, <2>4, TodoKept
  <2>. QED
    BY <2>1, <2>2, <2>5 DEF StampInv, SeenStamped, StampedTodo
<1>4. ASSUME Dwindle, stamps' = stamps
      PROVE  \A u \in Thread : StampedTodo(session'[u].todo, stamps')
  BY <1>0, <1>4 DEF Dwindle, StampedTodo
<1>5. CASE Fails
  <2>1. PICK t \in Thread :
          /\ Connected(t) /\ Becomes(t, <<>>, FALSE, FALSE, FALSE)
          /\ SeenWithin(ItemOf(t), RuleOf(t), AuditOf(t))
          /\ stamps' = stamps /\ retired' = retired
    BY <1>5 DEF Fails
  <2>2. SeenStamped(stamps)'
    BY <1>2, <2>1
  <2>3. Dwindle
    BY <2>1 DEF Dwindle, Becomes
  <2>. QED
    BY <1>4, <2>1, <2>2, <2>3 DEF StampInv, SeenStamped, StampedTodo
<1>6. CASE Rests
  <2>1. /\ Dwindle /\ Unseen /\ stamps' = stamps
        /\ retired' \subseteq retired \cup {r.stamp : r \in view.rules}
    BY <1>6 DEF Rests
  <2>2. \A r \in view.rules : r.stamp <= stamps
    <3>1. \A r \in view.rules : <<r.stamp, r.key>> \in RulesSeen
      BY DEF RulesSeen, Ids
    <3>. QED
      BY <1>0, <3>1 DEF SeenStamped
  <2>3. SeenStamped(stamps)'
    BY <1>0, <2>1, <2>2 DEF SeenStamped, Unseen, SeenWithin
  <2>4. \A u \in Thread : StampedTodo(session'[u].todo, stamps')
    BY <1>4, <2>1
  <2>. QED
    BY <2>3, <2>4 DEF StampInv, SeenStamped, StampedTodo
<1>. QED
  BY <1>1, <1>3, <1>5, <1>6

(***************************************************************************)
(* What is still to be written is new                                      *)
(***************************************************************************)
\* For one statement of a session.
ItemNew(s) ==
  /\ \A r \in ItemsSeen : r.stamp # s.row.stamp
  /\ AddsItem(s) => \A r \in ItemsSeen : r.key # s.row.key
RuleNew(s) == \A x \in RulesSeen : x[1] # s.row.stamp
AuditNew(s) == \A a \in AuditSeen : a.key # s.row.key

LEMMA FreshParts ==
  FreshInv <=>
    \A t \in Thread : \A i \in DOMAIN session[t].todo :
       LET s == session[t].todo[i] IN
       /\ WritesItem(s) /\ Waiting(session[t], i) => ItemNew(s)
       /\ AddsRule(s) /\ Waiting(session[t], i) => RuleNew(s)
       /\ AddsRule(s) => s.row.stamp \notin retired
       /\ AddsAudit(s) /\ Waiting(session[t], i) => AuditNew(s)
  BY DEF FreshInv, ItemFresh, RuleFresh, AuditFresh, ItemNew, RuleNew, AuditNew

\* A planned statement is new: its stamp is the next one.
LEMMA PlannedNew ==
  ASSUME TypeInv, StampInv, NEW todo, Planned(todo), NEW i \in DOMAIN todo
  PROVE  /\ WritesItem(todo[i]) => ItemNew(todo[i])
         /\ AddsRule(todo[i]) => RuleNew(todo[i]) /\ todo[i].row.stamp \notin retired
         /\ AddsAudit(todo[i]) => AuditNew(todo[i])
<1>1. Fresh = stamps + 1 /\ stamps \in Nat
  BY DEF Fresh, TypeInv
<1>2. SeenStamped(stamps)
  BY StampParts
<1>3. /\ \A r \in ItemsSeen : r.stamp # stamps + 1 /\ r.key # stamps + 1
      /\ \A x \in RulesSeen : x[1] # stamps + 1
      /\ \A a \in AuditSeen : a.key # stamps + 1
      /\ \A x \in retired : x # stamps + 1
  <2>1. \A x \in retired : x \in Nat
    BY DEF TypeInv
  <2>. QED
    BY <1>1, <1>2, <2>1, SeenTyped DEF SeenStamped
<1>. QED
  BY <1>1, <1>3 DEF Planned, ItemNew, RuleNew, AuditNew

\* What one session writes leaves the statements of the others new.
LEMMA ApartNew ==
  ASSUME ApartInv, TypeInv, NEW t \in Thread, session[t].todo # <<>>,
         SeenWithin(ItemOf(t), RuleOf(t), AuditOf(t)),
         NEW u \in Thread, NEW i \in DOMAIN session[u].todo,
         u # t \/ i > 1, Waiting(session[u], i)
  PROVE  LET s == session[u].todo[i]
         IN  /\ WritesItem(s) /\ ItemNew(s) =>
                  /\ \A r \in ItemsSeen' : r.stamp # s.row.stamp
                  /\ AddsItem(s) => \A r \in ItemsSeen' : r.key # s.row.key
             /\ AddsRule(s) /\ RuleNew(s) => \A x \in RulesSeen' : x[1] # s.row.stamp
             /\ AddsAudit(s) /\ AuditNew(s) => \A a \in AuditSeen' : a.key # s.row.key
<1>1. 1 \in DOMAIN session[t].todo /\ Current(t) = session[t].todo[1]
  BY CurrentStatement
<1>. DEFINE s == session[u].todo[i]
            q == session[t].todo[1]
<1>2. CASE u = t
  <2>1. i \in DOMAIN session[t].todo /\ i # 1 /\ s = session[t].todo[i]
    BY <1>2
  <2>2. /\ WritesItem(s) => ~WritesItem(q)
        /\ AddsRule(s) => ~AddsRule(q)
        /\ AddsAudit(s) => ~AddsAudit(q)
    BY <1>1, <2>1 DEF ApartInv
  <2>3. /\ WritesItem(s) => ItemOf(t) = {}
        /\ AddsRule(s) => RuleOf(t) = {}
        /\ AddsAudit(s) => AuditOf(t) = {}
    BY <1>1, <2>2 DEF ItemOf, RuleOf, AuditOf
  <2>. QED
    BY <2>3 DEF SeenWithin, ItemNew, RuleNew, AuditNew
<1>3. CASE u # t
  <2>1. /\ WritesItem(s) /\ WritesItem(q) => s.row.stamp # q.row.stamp
        /\ AddsItem(s) /\ WritesItem(q) => s.row.key # q.row.key
        /\ AddsRule(s) /\ AddsRule(q) => s.row.stamp # q.row.stamp
        /\ AddsAudit(s) /\ AddsAudit(q) => s.row.key # q.row.key
    BY <1>1, <1>3 DEF ApartInv
  <2>2. /\ WritesItem(s) => \A r \in ItemOf(t) : r.stamp # s.row.stamp
        /\ AddsItem(s) => \A r \in ItemOf(t) : r.key # s.row.key
        /\ AddsRule(s) => \A x \in RuleOf(t) : x[1] # s.row.stamp
        /\ AddsAudit(s) => \A a \in AuditOf(t) : a.key # s.row.key
    BY SMTT(40), <1>1, <2>1 DEF ItemOf, RuleOf, AuditOf
  <2>. QED
    BY <2>2 DEF SeenWithin, ItemNew, RuleNew, AuditNew
<1>. QED
  BY <1>2, <1>3

\* A row that waits to be written is nowhere yet, whatever others do.
LEMMA FreshStep ==
  ASSUME ConstantsAssumption, TypeInv, LockInv, StampInv, FreshInv, ApartInv,
         Plans \/ Proceeds \/ Fails \/ Rests
  PROVE  FreshInv'
<1>0. \A t \in Thread : \A i \in DOMAIN session[t].todo :
       LET s == session[t].todo[i] IN
       /\ WritesItem(s) /\ Waiting(session[t], i) => ItemNew(s)
       /\ AddsRule(s) /\ Waiting(session[t], i) => RuleNew(s)
       /\ AddsRule(s) => s.row.stamp \notin retired
       /\ AddsAudit(s) /\ Waiting(session[t], i) => AuditNew(s)
  BY FreshParts
<1>u. ASSUME NEW s, Unseen
      PROVE  /\ ItemNew(s) =>
                  /\ \A r \in ItemsSeen' : r.stamp # s.row.stamp
                  /\ AddsItem(s) => \A r \in ItemsSeen' : r.key # s.row.key
             /\ RuleNew(s) => \A x \in RulesSeen' : x[1] # s.row.stamp
             /\ AuditNew(s) => \A a \in AuditSeen' : a.key # s.row.key
  BY <1>u DEF Unseen, SeenWithin, ItemNew, RuleNew, AuditNew
<1>. DEFINE Good(u, i) ==
       LET s == session'[u].todo[i] IN
       /\ WritesItem(s) /\ Waiting(session'[u], i) =>
            /\ \A r \in ItemsSeen' : r.stamp # s.row.stamp
            /\ AddsItem(s) => \A r \in ItemsSeen' : r.key # s.row.key
       /\ AddsRule(s) /\ Waiting(session'[u], i) => \A x \in RulesSeen' : x[1] # s.row.stamp
       /\ AddsRule(s) => s.row.stamp \notin retired'
       /\ AddsAudit(s) /\ Waiting(session'[u], i) => \A a \in AuditSeen' : a.key # s.row.key
<1>q. (\A u \in Thread : \A i \in DOMAIN session'[u].todo : Good(u, i)) => FreshInv'
  BY DEF FreshInv, ItemFresh, RuleFresh, AuditFresh
<1>1. CASE Plans
  <2>1. PICK t \in Thread, todo \in Seq(Statement) :
          /\ Planned(todo) /\ Begin(t, todo) /\ Becomes(t, todo, FALSE, FALSE, FALSE) /\ Unseen
    BY <1>1, PlannedSeq DEF Plans
  <2>2. retired' = retired
    BY <2>1 DEF Begin, history
  <2>3. ASSUME NEW i \in DOMAIN session'[t].todo
        PROVE  Good(t, i)
    <3>1. session'[t].todo = todo
      BY <2>1 DEF Becomes
    <3>. QED
      BY <1>u, <2>1, <2>2, <2>3, <3>1, PlannedNew
  <2>4. ASSUME NEW u \in Thread \ {t}, NEW i \in DOMAIN session'[u].todo
        PROVE  Good(u, i)
    <3>1. session'[u] = session[u]
      BY <2>1 DEF Becomes
    <3>. QED
      BY <1>0, <1>u, <2>1, <2>2, <3>1
  <2>. QED
    BY <1>q, <2>3, <2>4
<1>2. ASSUME NEW t \in Thread, Connected(t), SeenWithin(ItemOf(t), RuleOf(t), AuditOf(t)),
             retired' = retired,
             NEW u \in Thread, NEW j \in DOMAIN session[u].todo,
             NEW i \in DOMAIN session'[u].todo, session'[u].todo[i] = session[u].todo[j],
             Waiting(session'[u], i) => Waiting(session[u], j) /\ (u # t \/ j > 1)
      PROVE  Good(u, i)
  <2>1. session[t].todo # <<>>
    BY <1>2 DEF Connected
  <2>2. CASE Waiting(session'[u], i)
    BY <1>0, <1>2, <2>1, <2>2, ApartNew
  <2>3. CASE ~Waiting(session'[u], i)
    BY <1>0, <1>2, <2>3
  <2>. QED
    BY <2>2, <2>3
<1>3. CASE Proceeds
  <2>1. PICK t \in Thread :
          /\ Connected(t) /\ Advances(t)
          /\ SeenWithin(ItemOf(t), RuleOf(t), AuditOf(t)) /\ retired' = retired
    BY <1>3 DEF Proceeds
  <2>2. session[t].todo # <<>>
    BY <2>1 DEF Connected
  <2>3. ASSUME NEW i \in DOMAIN session'[t].todo
        PROVE  Good(t, i)
    <3>1. PICK j \in DOMAIN session[t].todo :
            /\ session'[t].todo[i] = session[t].todo[j]
            /\ Waiting(session'[t], i) => j > 1
      BY <2>1, <2>2, <2>3, TodoKept
    <3>2. j > 1 => Waiting(session[t], j)
      BY DEF Waiting
    <3>. QED
      BY <1>2, <2>1, <3>1, <3>2
  <2>4. ASSUME NEW u \in Thread \ {t}, NEW i \in DOMAIN session'[u].todo
        PROVE  Good(u, i)
    <3>1. session'[u] = session[u]
      BY <2>1, <2>2, TodoKept
    <3>. QED
      BY <1>2, <2>1, <2>4, <3>1
  <2>. QED
    BY <1>q, <2>3, <2>4
<1>4. CASE Fails
  <2>1. PICK t \in Thread :
          /\ Connected(t) /\ Becomes(t, <<>>, FALSE, FALSE, FALSE)
          /\ SeenWithin(ItemOf(t), RuleOf(t), AuditOf(t)) /\ retired' = retired
    BY <1>4 DEF Fails
  <2>2. DOMAIN session'[t].todo = {}
    BY <2>1 DEF Becomes
  <2>4. ASSUME NEW u \in Thread \ {t}, NEW i \in DOMAIN session'[u].todo
        PROVE  Good(u, i)
    <3>1. session'[u] = session[u]
      BY <2>1 DEF Becomes
    <3>. QED
      BY <1>2, <2>1, <2>4, <3>1
  <2>. QED
    BY <1>q, <2>2, <2>4
<1>5. CASE Rests
  <2>1. /\ Dwindle /\ Unseen
        /\ \/ retired' = retired
           \/ /\ retired' \subseteq retired \cup {r.stamp : r \in view.rules}
              /\ \A u \in Thread : session[u].open => session'[u].todo = <<>>
    BY <1>5 DEF Rests
  <2>2. ASSUME NEW u \in Thread, NEW i \in DOMAIN session'[u].todo
        PROVE  Good(u, i)
    <3>1. session'[u] = session[u] /\ session'[u].todo # <<>>
      BY <2>1, <2>2 DEF Dwindle
    <3>2. ASSUME AddsRule(session[u].todo[i])
          PROVE  session[u].todo[i].row.stamp \notin retired'
      <4>1. CASE retired' = retired
        BY <1>0, <2>2, <3>1, <3>2, <4>1
      <4>2. CASE retired' # retired
        <5>1. ~session[u].open
          BY <2>1, <3>1, <4>2
        <5>2. Waiting(session[u], i)
          BY <2>2, <3>1, <5>1 DEF Waiting, LockInv
        <5>3. RuleNew(session[u].todo[i]) /\ session[u].todo[i].row.stamp \notin retired
          BY <1>0, <2>2, <3>1, <3>2, <5>2
        <5>4. \A r \in view.rules : r.stamp # session[u].todo[i].row.stamp
          <6>1. \A r \in view.rules : <<r.stamp, r.key>> \in RulesSeen
            BY DEF RulesSeen, Ids
          <6>2. \A x \in RulesSeen : x[1] # session[u].todo[i].row.stamp
            BY <5>3 DEF RuleNew
          <6>3. \A r \in view.rules : <<r.stamp, r.key>>[1] = r.stamp
            OBVIOUS
          <6>. QED
            BY <6>1, <6>2, <6>3
        <5>. QED
          BY <2>1, <4>2, <5>3, <5>4
      <4>. QED
        BY <4>1, <4>2
    <3>. QED
      BY <1>0, <1>u, <2>1, <2>2, <3>1, <3>2
  <2>. QED
    BY <1>q, <2>2
<1>. QED
  BY <1>1, <1>3, <1>4, <1>5

\* The statements of the sessions do not get into each other's way.
Apart(s, q, waits) ==
  /\ WritesItem(s) /\ WritesItem(q) => s.row.stamp # q.row.stamp
  /\ AddsItem(s) /\ waits /\ WritesItem(q) => s.row.key # q.row.key
  /\ AddsRule(s) /\ AddsRule(q) => s.row.stamp # q.row.stamp
  /\ AddsAudit(s) /\ AddsAudit(q) => s.row.key # q.row.key

OneOfAKind(todo) ==
  \A i, j \in DOMAIN todo :
    LET s == todo[i]
        q == todo[j]
    IN  /\ WritesItem(s) /\ WritesItem(q) => i = j
        /\ AddsRule(s) /\ AddsRule(q) => i = j
        /\ AddsAudit(s) /\ AddsAudit(q) => i = j

AddedBy(todo, d) == \A i \in DOMAIN todo : AddsItem(todo[i]) => todo[i].day <= d

LEMMA ApartParts ==
  ApartInv <=>
    /\ \A t, u \in Thread : t # u =>
         \A i \in DOMAIN session[t].todo, j \in DOMAIN session[u].todo :
           Apart(session[t].todo[i], session[u].todo[j], Waiting(session[t], i))
    /\ \A t \in Thread : OneOfAKind(session[t].todo)
    /\ \A t \in Thread : AddedBy(session[t].todo, day)
  BY DEF ApartInv, Apart, OneOfAKind, AddedBy

\* No two statements under way write the same row.
LEMMA ApartStep ==
  ASSUME ConstantsAssumption, TypeInv, TypeInv', LockInv, StampInv, FreshInv, ApartInv,
         Plans \/ Proceeds \/ Fails \/ Rests
  PROVE  ApartInv'
<1>0. /\ \A t, u \in Thread : t # u =>
           \A i \in DOMAIN session[t].todo, j \in DOMAIN session[u].todo :
             Apart(session[t].todo[i], session[u].todo[j], Waiting(session[t], i))
      /\ \A t \in Thread : OneOfAKind(session[t].todo)
      /\ \A t \in Thread : AddedBy(session[t].todo, day)
  BY ApartParts
<1>q. SUFFICES
        /\ \A t, u \in Thread : t # u =>
             \A i \in DOMAIN session'[t].todo, j \in DOMAIN session'[u].todo :
               Apart(session'[t].todo[i], session'[u].todo[j], Waiting(session'[t], i))
        /\ \A t \in Thread : OneOfAKind(session'[t].todo)
        /\ \A t \in Thread : AddedBy(session'[t].todo, day')
  BY DEF ApartInv, Apart, OneOfAKind, AddedBy
<1>e. \A todo, d : todo = <<>> => OneOfAKind(todo) /\ AddedBy(todo, d)
  BY DEF OneOfAKind, AddedBy
<1>1. CASE Plans
  <2>1. PICK t \in Thread, todo \in Seq(Statement) :
          /\ Planned(todo) /\ Begin(t, todo) /\ Becomes(t, todo, FALSE, FALSE, FALSE)
    BY <1>1, PlannedSeq DEF Plans
  <2>2. day' = day /\ session'[t].todo = todo /\ \A u \in Thread \ {t} : session'[u] = session[u]
    BY <2>1 DEF Begin, Becomes
  <2>3. Fresh = stamps + 1 /\ stamps \in Nat
    BY DEF Fresh, TypeInv
  <2>4. \A u \in Thread : StampedTodo(session[u].todo, stamps) /\ session[u].todo \in Seq(Statement)
    BY StampParts DEF TypeInv, Session
  <2>5. ASSUME NEW u \in Thread, NEW i \in DOMAIN todo, NEW j \in DOMAIN session[u].todo,
               NEW waits
        PROVE  /\ Apart(todo[i], session[u].todo[j], waits)
               /\ Waiting(session[u], j) => Apart(session[u].todo[j], todo[i], TRUE)
               /\ ~Waiting(session[u], j) => Apart(session[u].todo[j], todo[i], FALSE)
    <3>. DEFINE s == todo[i]
                q == session[u].todo[j]
    <3>1. q \in Statement
      BY <2>4, <2>5
    <3>2. /\ WritesItem(q) => q.row.stamp \in Nat /\ q.row.key \in Nat
          /\ AddsRule(q) => q.row.stamp \in Nat
          /\ AddsAudit(q) => q.row.key \in Nat
      <4>1. /\ WritesItem(q) => q.row \in Record["items"]
            /\ AddsRule(q) => q.row \in Record["rules"]
            /\ AddsAudit(q) => q.row \in Record["audit"]
        BY <3>1, Statements DEF WritesItem, AddsRule, AddsAudit, HasLine
      <4>. QED
        BY <4>1 DEF Record
    <3>3. /\ WritesItem(q) => q.row.stamp # stamps + 1 /\ q.row.key # stamps + 1
          /\ AddsRule(q) => q.row.stamp # stamps + 1
          /\ AddsAudit(q) => q.row.key # stamps + 1
      BY <2>3, <2>4, <2>5, <3>2 DEF StampedTodo
    <3>4. /\ WritesItem(s) => s.row.stamp = stamps + 1
          /\ AddsItem(s) => s.row.key = stamps + 1
          /\ AddsRule(s) => s.row.stamp = stamps + 1
          /\ AddsAudit(s) => s.row.key = stamps + 1
      BY <2>1, <2>3, <2>5 DEF Planned, AddsItem, WritesItem, HasLine
    <3>5. ASSUME AddsItem(q), Waiting(session[u], j), WritesItem(s)
          PROVE  q.row.key # s.row.key
      <4>1. AddsItem(s) => s.row.key = stamps + 1
        BY <3>4
      <4>2. WritesItem(q)
        BY <3>5 DEF AddsItem, WritesItem, HasLine
      <4>3. ~AddsItem(s) => s.row.key \in Keys(db.items)
        BY <2>1, <2>5, <3>5 DEF Planned
      <4>4. \A r \in db.items : r.key # q.row.key
        BY <2>5, <3>5, <4>2, FreshParts DEF ItemNew, ItemsSeen
      <4>. QED
        BY <3>3, <4>1, <4>2, <4>3, <4>4 DEF Keys
    <3>. HIDE DEF s, q
    <3>6. Apart(s, q, waits)
      BY <3>3, <3>4 DEF Apart
    <3>7. Waiting(session[u], j) => Apart(q, s, TRUE)
      BY <3>3, <3>4, <3>5 DEF Apart
    <3>8. Apart(q, s, FALSE)
      BY <3>3, <3>4 DEF Apart
    <3>. QED
      BY <3>6, <3>7, <3>8 DEF s, q
  <2>6. OneOfAKind(todo)
    BY <2>1 DEF Planned, OneOfAKind
  <2>7. AddedBy(todo, day)
    <3>1. \A i \in DOMAIN todo : AddsItem(todo[i]) => WritesItem(todo[i])
      BY DEF AddsItem, WritesItem, HasLine
    <3>2. \A i \in DOMAIN todo : AddsItem(todo[i]) => todo[i].day = day
      BY <2>1, <3>1 DEF Planned
    <3>3. day \in Nat
      BY DEF TypeInv, Day
    <3>. QED
      BY <3>2, <3>3 DEF AddedBy
  <2>8. ASSUME NEW v \in Thread, NEW u \in Thread, v # u,
               NEW i \in DOMAIN session'[v].todo, NEW j \in DOMAIN session'[u].todo
        PROVE  Apart(session'[v].todo[i], session'[u].todo[j], Waiting(session'[v], i))
    <3>1. CASE v = t
      BY <2>2, <2>5, <2>8, <3>1
    <3>2. CASE u = t
      <4>1. session'[v] = session[v] /\ i \in DOMAIN session[v].todo /\ j \in DOMAIN todo
        BY <2>2, <2>8, <3>2
      <4>2. PICK w \in BOOLEAN : w = Waiting(session[v], i)
        BY DEF Waiting
      <4>3. CASE w = TRUE
        BY ZenonT(40), <2>2, <2>5, <3>2, <4>1, <4>2, <4>3
      <4>4. CASE w = FALSE
        BY <2>2, <2>5, <3>2, <4>1, <4>2, <4>4
      <4>. QED
        BY <4>2, <4>3, <4>4
    <3>3. CASE v # t /\ u # t
      BY <1>0, <2>2, <2>8, <3>3
    <3>. QED
      BY <3>1, <3>2, <3>3
  <2>. QED
    BY <1>0, <2>2, <2>6, <2>7, <2>8
<1>2. CASE Proceeds
  <2>1. PICK t \in Thread : Connected(t) /\ Advances(t) /\ day' = day
    BY <1>2 DEF Proceeds
  <2>2. session[t].todo # <<>> /\ \A u \in Thread \ {t} : session'[u] = session[u]
    BY <2>1, TodoKept DEF Connected
  <2>3. ASSUME NEW v \in Thread, NEW i \in DOMAIN session'[v].todo
        PROVE  \E k \in DOMAIN session[v].todo :
                 /\ session'[v].todo[i] = session[v].todo[k]
                 /\ Waiting(session'[v], i) => Waiting(session[v], k)
    <3>1. CASE v = t
      <4>1. PICK k \in DOMAIN session[t].todo :
              /\ session'[t].todo[i] = session[t].todo[k]
              /\ Waiting(session'[t], i) => k > 1
        BY <2>1, <2>2, <2>3, <3>1, TodoKept
      <4>. QED
        BY <3>1, <4>1 DEF Waiting
    <3>2. CASE v # t
      BY <2>2, <2>3, <3>2
    <3>. QED
      BY <3>1, <3>2
  <2>4. ASSUME NEW v \in Thread, NEW u \in Thread, v # u,
               NEW i \in DOMAIN session'[v].todo, NEW j \in DOMAIN session'[u].todo
        PROVE  Apart(session'[v].todo[i], session'[u].todo[j], Waiting(session'[v], i))
    <3>1. PICK k \in DOMAIN session[v].todo :
            /\ session'[v].todo[i] = session[v].todo[k]
            /\ Waiting(session'[v], i) => Waiting(session[v], k)
      BY <2>3, <2>4
    <3>2. PICK l \in DOMAIN session[u].todo : session'[u].todo[j] = session[u].todo[l]
      BY <2>3, <2>4
    <3>3. Apart(session[v].todo[k], session[u].todo[l], Waiting(session[v], k))
      BY <1>0, <2>4
    <3>. QED
      BY <3>1, <3>2, <3>3 DEF Apart
  <2>5. OneOfAKind(session'[t].todo)
    <3>1. OneOfAKind(session[t].todo)
      BY <1>0
    <3>. QED
      BY <2>1, <2>2, <3>1, TodoKept DEF OneOfAKind
  <2>6. AddedBy(session'[t].todo, day)
    <3>1. AddedBy(session[t].todo, day)
      BY <1>0
    <3>. QED
      BY <2>1, <2>2, <3>1, TodoKept DEF AddedBy
  <2>. QED
    BY <1>0, <2>1, <2>2, <2>4, <2>5, <2>6
<1>3. ASSUME Dwindle, day <= day'
      PROVE  /\ \A t, u \in Thread : t # u =>
                 \A i \in DOMAIN session'[t].todo, j \in DOMAIN session'[u].todo :
                   Apart(session'[t].todo[i], session'[u].todo[j], Waiting(session'[t], i))
             /\ \A t \in Thread : OneOfAKind(session'[t].todo)
             /\ \A t \in Thread : AddedBy(session'[t].todo, day')
  <2>1. \A t \in Thread : session'[t] = session[t] \/ session'[t].todo = <<>>
    BY <1>3 DEF Dwindle
  <2>2. ASSUME NEW t \in Thread
        PROVE  AddedBy(session[t].todo, day')
    <3>1. /\ AddedBy(session[t].todo, day) /\ day \in Nat /\ day' \in Nat
          /\ \A i \in DOMAIN session[t].todo : session[t].todo[i] \in Statement
      BY <1>0 DEF TypeInv, Session, Day
    <3>2. \A s \in Statement : AddsItem(s) => s.day \in Nat
      BY Statements DEF AddsItem, Day
    <3>. QED
      BY <1>3, <3>1, <3>2 DEF AddedBy
  <2>. QED
    BY <1>0, <1>e, <2>1, <2>2
<1>4. CASE Fails
  <2>1. PICK t \in Thread : Becomes(t, <<>>, FALSE, FALSE, FALSE) /\ day' = day
    BY <1>4 DEF Fails
  <2>2. Dwindle
    BY <2>1 DEF Dwindle, Becomes
  <2>3. day \in Nat
    BY DEF TypeInv, Day
  <2>. QED
    BY <1>3, <2>1, <2>2, <2>3
<1>5. CASE Rests
  BY <1>3, <1>5 DEF Rests
<1>. QED
  BY <1>1, <1>2, <1>4, <1>5

(***************************************************************************)
(* Where the rows of items stand on the shards                             *)
(***************************************************************************)
PlacesIn(files, row) ==
  UNION {{<<d, n>> : n \in {m \in DOMAIN files[d] : files[d][m] = row}} : d \in Day}

Items == shards["items"]

LEMMA PlacesAre == \A row : Places(row) = PlacesIn(Items, row)
  BY DEF Places, PlacesIn, Items

\* A place is a day and a line.
LEMMA PlacesMember ==
  ASSUME NEW files, NEW row, NEW p
  PROVE  p \in PlacesIn(files, row) <=>
           \E d \in Day : \E n \in DOMAIN files[d] : files[d][n] = row /\ p = <<d, n>>
  BY DEF PlacesIn

ItemFiles(files) == \A d \in Day : files[d] \in Seq(Line("items"))

LEMMA ItemsTyped ==
  ASSUME TypeInv
  PROVE  ItemFiles(Items) /\ "items" \in Kind /\ day \in Nat
<1>1. "items" \in Kind /\ day \in Nat
  BY DEF TypeInv, Kind, Day
<1>2. \A d \in Day : shards["items"][d] \in Seq(Line("items"))
  BY <1>1 DEF TypeInv
<1>. QED
  BY <1>1, <1>2 DEF ItemFiles, Items

SameItems(old, new) == \A d \in Day : new[d] = old[d]

\* One file has one more line, or its torn last line is spoiled.
MoreItems(old, new, d, x) ==
  /\ \A e \in Day : e # d => new[e] = old[e]
  /\ Appended(old[d], new[d], x)

SpoiltItems(old, new, d) ==
  /\ \A e \in Day : e # d => new[e] = old[e]
  /\ Spoiled(old[d], new[d])

LEMMA PlacesSame ==
  ASSUME NEW old, NEW new, SameItems(old, new), NEW row
  PROVE  PlacesIn(new, row) = PlacesIn(old, row)
<1>1. \A p : p \in PlacesIn(new, row) <=> p \in PlacesIn(old, row)
  BY PlacesMember DEF SameItems
<1>. QED
  BY <1>1

\* A record that is appended has one place more.
LEMMA PlacesMore ==
  ASSUME NEW old, NEW new, ItemFiles(old), ItemFiles(new), NEW d \in Day, NEW x,
         MoreItems(old, new, d, x), NEW row
  PROVE  /\ row # x => PlacesIn(new, row) = PlacesIn(old, row)
         /\ row = x => PlacesIn(new, row) = PlacesIn(old, row) \cup {<<d, Len(old[d]) + 1>>}
<1>1. /\ DOMAIN new[d] = 1..(Len(old[d]) + 1) /\ DOMAIN old[d] = 1..Len(old[d])
      /\ Len(old[d]) \in Nat
      /\ new[d][Len(old[d]) + 1] = x
      /\ \A n \in 1..Len(old[d]) : new[d][n] = old[d][n]
  BY DEF MoreItems, Appended, ItemFiles
<1>2. \A e \in Day : e # d => new[e] = old[e]
  BY DEF MoreItems
<1>. DEFINE k == Len(old[d]) + 1
<1>3. \A e \in Day : \A n : (n \in DOMAIN new[e] /\ new[e][n] = row) <=>
        \/ n \in DOMAIN old[e] /\ old[e][n] = row
        \/ e = d /\ n = k /\ row = x
  BY SMTT(20), <1>1, <1>2
<1>. HIDE DEF k
<1>4. \A p : p \in PlacesIn(new, row) <=>
        p \in PlacesIn(old, row) \/ (row = x /\ p = <<d, k>>)
  BY <1>3, PlacesMember
<1>. QED
  BY <1>4 DEF k

\* A torn line that is spoiled is the only place that changes.
LEMMA PlacesSpoilt ==
  ASSUME NEW old, NEW new, ItemFiles(old), ItemFiles(new), NEW d \in Day,
         SpoiltItems(old, new, d), NEW row, row # Torn
  PROVE  /\ row # Garbled => PlacesIn(new, row) = PlacesIn(old, row)
         /\ row = Garbled => /\ PlacesIn(new, row) = PlacesIn(old, row) \cup {<<d, Len(old[d])>>}
                             /\ <<d, Len(old[d])>> \notin PlacesIn(old, row)
<1>1. /\ DOMAIN new[d] = 1..Len(old[d]) /\ DOMAIN old[d] = 1..Len(old[d])
      /\ Len(old[d]) \in Nat /\ Len(old[d]) # 0
      /\ new[d][Len(old[d])] = Garbled /\ old[d][Len(old[d])] = Torn
      /\ \A n \in 1..(Len(old[d]) - 1) : new[d][n] = old[d][n]
  BY DEF SpoiltItems, Spoiled, ItemFiles
<1>2. \A e \in Day : e # d => new[e] = old[e]
  BY DEF SpoiltItems
<1>. DEFINE k == Len(old[d])
<1>3. \A e \in Day : \A n : (n \in DOMAIN new[e] /\ new[e][n] = row) <=>
        \/ n \in DOMAIN old[e] /\ old[e][n] = row
        \/ e = d /\ n = k /\ row = Garbled
  BY <1>1, <1>2, Damaged
<1>4. k \in DOMAIN old[d] /\ old[d][k] # Garbled
  BY <1>1, Damaged
<1>. HIDE DEF k
<1>5. \A p : p \in PlacesIn(new, row) <=>
        p \in PlacesIn(old, row) \/ (row = Garbled /\ p = <<d, k>>)
  BY <1>3, PlacesMember
<1>6. row = Garbled => <<d, k>> \notin PlacesIn(old, row)
  BY <1>4, PlacesMember
<1>. QED
  BY <1>5, <1>6 DEF k

\* A row that no file holds has no place.
LEMMA PlacesOfUnseen ==
  ASSUME TypeInv, NEW row \in Record["items"], row \notin ItemsSeen
  PROVE  Places(row) = {}
<1>1. Decodable(row)
  BY Records DEF Kind
<1>2. \A d \in Day : \A n \in DOMAIN Items[d] : Items[d][n] # row
  BY <1>1 DEF ItemsSeen, LinesOf, Readable, Items
<1>3. PlacesIn(Items, row) = {}
  BY <1>2, PlacesMember
<1>. QED
  BY <1>3, PlacesAre

(***************************************************************************)
(* What a step does to the files of items                                  *)
(***************************************************************************)
WritesLine(t) == AppendLine(t) \/ Save(t)

\* A row is written behind the others, or lost behind a torn line.
ItemGoes(t, d) ==
  /\ Connected(t) /\ WritesLine(t) /\ WritesItem(Current(t)) /\ d = DayOf(Current(t))
  /\ ~session[t].written /\ day' = day
  /\ MoreItems(Items, Items', d, Current(t).row) \/ SpoiltItems(Items, Items', d)

ItemTorn(t, d) ==
  /\ AppendFails(t) /\ WritesItem(Current(t)) /\ d = DayOf(Current(t)) /\ day' = day
  /\ MoreItems(Items, Items', d, Torn)

\* The ways a step changes the files of items.
LEMMA ItemsMove ==
  ASSUME TypeInv, LockInv, Next
  PROVE  \/ SameItems(Items, Items')
         \/ \E t \in Thread : \E d \in Day : ItemGoes(t, d) \/ ItemTorn(t, d)
<1>0. "items" \in Kind
  BY DEF Kind
<1>k. \A x : \A k \in Kind, d \in Day :
        /\ k # "items" /\ (Appends(k, d, x) \/ Spoils(k, d)) => SameItems(Items, Items')
        /\ k = "items" /\ Appends(k, d, x) => MoreItems(Items, Items', d, x)
        /\ k = "items" /\ Spoils(k, d) => SpoiltItems(Items, Items', d)
  BY <1>0 DEF Appends, Spoils, OthersKept, SameItems, MoreItems, SpoiltItems, Items
<1>1. ASSUME NEW t \in Thread, AppendLine(t) \/ Save(t)
      PROVE  SameItems(Items, Items') \/ \E d \in Day : ItemGoes(t, d)
  <2>1. /\ Connected(t) /\ HasLine(Current(t)) /\ session[t].todo # <<>>
        /\ ~session[t].written /\ day' = day
    BY <1>1 DEF AppendLine, Save, Connected, LockInv
  <2>2. PICK k \in Kind, d \in Day : k = Current(t).kind /\ d = DayOf(Current(t))
    BY <2>1, CurrentStatement, LineGoesTo
  <2>3. Appends(k, d, Current(t).row) \/ Spoils(k, d)
    BY <1>1, <2>1, <2>2, WriteStep DEF AppendLine, Save
  <2>4. CASE k = "items"
    <3>1. WritesItem(Current(t))
      BY <2>1, <2>2, <2>4 DEF WritesItem
    <3>. QED
      BY <1>1, <1>k, <2>1, <2>2, <2>3, <2>4, <3>1 DEF ItemGoes, WritesLine
  <2>5. CASE k # "items"
    BY <1>k, <2>3, <2>5
  <2>. QED
    BY <2>4, <2>5
<1>2. ASSUME NEW t \in Thread, AppendFails(t)
      PROVE  SameItems(Items, Items') \/ \E d \in Day : ItemTorn(t, d)
  <2>1. HasLine(Current(t)) /\ day' = day
    BY <1>2 DEF AppendFails
  <2>2. PICK k \in Kind, d \in Day : k = Current(t).kind /\ d = DayOf(Current(t))
    BY <1>2, FailedWriteStep
  <2>3. shards' = shards \/ Appends(k, d, Torn)
    BY <1>2, <2>2, FailedWriteStep
  <2>4. CASE k = "items" /\ shards' # shards
    BY <1>2, <1>k, <2>1, <2>2, <2>3, <2>4 DEF ItemTorn, WritesItem
  <2>5. CASE k # "items" /\ shards' # shards
    BY <1>k, <2>3, <2>5
  <2>6. CASE shards' = shards
    BY <2>6 DEF SameItems, Items
  <2>. QED
    BY <2>4, <2>5, <2>6
<1>3. \/ shards' = shards
      \/ \E t \in Thread : AppendLine(t) \/ Save(t) \/ AppendFails(t)
  BY DEF Next, Operation, Register, Change, Escalate, Reevaluate, Intake, CreateRule, Begin,
     Transaction, Execute, Commit, Rollback, NewDay, LoseIndex, Rebuild, RebuildScan,
     RebuildRead, RebuildSkip, RebuildFails, RebuildApply, RebuildCommit, RebuildKilled,
     Reconcile, ReconcileScan, ReconcileCompare
<1>4. shards' = shards => SameItems(Items, Items')
  BY DEF SameItems, Items
<1>. QED
  BY <1>1, <1>2, <1>3, <1>4

\* The row that is written is new, and no later day has a line.
LEMMA ItemGoesNew ==
  ASSUME ConstantsAssumption, TypeInv, FreshInv, ApartInv, NEW t \in Thread, NEW d \in Day,
         Connected(t), WritesItem(Current(t)), d = DayOf(Current(t))
  PROVE  /\ Current(t) \in Statement
         /\ Current(t).row \in Record["items"]
         /\ d <= day
         /\ ~AddsItem(Current(t)) => d = day
         /\ ~session[t].written =>
              /\ ItemNew(Current(t)) /\ Current(t).row \notin ItemsSeen
              /\ Places(Current(t).row) = {}
<1>1. /\ Current(t) \in Statement /\ Current(t) = session[t].todo[1]
      /\ 1 \in DOMAIN session[t].todo
  BY CurrentStatement DEF Connected
<1>2. Current(t).row \in Record["items"]
  BY <1>1, Statements DEF WritesItem
<1>3. /\ AddsItem(Current(t)) => d <= day
      /\ ~AddsItem(Current(t)) => d = day
  <2>1. Current(t).op = "update" \/ AddsItem(Current(t))
    BY <1>1, PlannedTexts
  <2>2. AddsItem(Current(t)) => Current(t).day <= day
    BY <1>1 DEF ApartInv
  <2>3. AddsItem(Current(t)) => d = Current(t).day
    BY DEF DayOf, AddsItem
  <2>4. Current(t).op = "update" => d = day
    BY DEF DayOf
  <2>. QED
    BY <2>1, <2>2, <2>3, <2>4
<1>4. ASSUME ~session[t].written
      PROVE  ItemNew(Current(t)) /\ Current(t).row \notin ItemsSeen
  <2>1. Waiting(session[t], 1)
    BY <1>1, <1>4 DEF Waiting
  <2>2. ItemNew(Current(t))
    BY <1>1, <2>1, FreshParts
  <2>. QED
    BY <2>2 DEF ItemNew
<1>5. day \in Nat /\ d \in Nat
  BY ItemsTyped DEF Day
<1>. QED
  BY <1>1, <1>2, <1>3, <1>4, <1>5, PlacesOfUnseen

\* Seen rows keep their places; of the others only the one that is written gets one.
LEMMA PlacesKept ==
  ASSUME ConstantsAssumption, TypeInv, TypeInv', LockInv, FreshInv, ApartInv, Next,
         NEW row \in Record["items"]
  PROVE  \/ PlacesIn(Items', row) = PlacesIn(Items, row)
         \/ \E t \in Thread : \E d \in Day :
              /\ ItemGoes(t, d) /\ row = Current(t).row /\ row \notin ItemsSeen
              /\ PlacesIn(Items, row) = {}
              /\ PlacesIn(Items', row) = {<<d, Len(Items[d]) + 1>>}
<1>1. ItemFiles(Items) /\ ItemFiles(Items')
  BY ItemsTyped DEF TypeInv, ItemFiles, Items, Kind
<1>2. row # Torn /\ row # Garbled
  BY Damaged, Records DEF Kind
<1>3. ASSUME NEW t \in Thread, NEW d \in Day, ItemGoes(t, d)
      PROVE  \/ PlacesIn(Items', row) = PlacesIn(Items, row)
             \/ /\ row = Current(t).row /\ row \notin ItemsSeen
                /\ PlacesIn(Items, row) = {}
                /\ PlacesIn(Items', row) = {<<d, Len(Items[d]) + 1>>}
  <2>1. CASE SpoiltItems(Items, Items', d)
    BY ZenonT(40), <1>1, <1>2, <2>1, PlacesSpoilt
  <2>2. CASE MoreItems(Items, Items', d, Current(t).row)
    <3>1. row = Current(t).row => row \notin ItemsSeen /\ PlacesIn(Items, row) = {}
      BY <1>3, ItemGoesNew, PlacesAre DEF ItemGoes
    <3>2. /\ row # Current(t).row => PlacesIn(Items', row) = PlacesIn(Items, row)
          /\ row = Current(t).row =>
               PlacesIn(Items', row) = PlacesIn(Items, row) \cup {<<d, Len(Items[d]) + 1>>}
      BY <1>1, <2>2, PlacesMore
    <3>. QED
      BY <3>1, <3>2
  <2>. QED
    BY <1>3, <2>1, <2>2 DEF ItemGoes
<1>4. ASSUME NEW t \in Thread, NEW d \in Day, ItemTorn(t, d)
      PROVE  PlacesIn(Items', row) = PlacesIn(Items, row)
  BY <1>1, <1>2, <1>4, PlacesMore DEF ItemTorn
<1>5. SameItems(Items, Items') => PlacesIn(Items', row) = PlacesIn(Items, row)
  BY PlacesSame
<1>. QED
  BY <1>3, <1>4, <1>5, ItemsMove

\* Every row keeps a single place.
LEMMA OnceStep ==
  ASSUME ConstantsAssumption, TypeInv, TypeInv', LockInv, FreshInv, ApartInv, OnceInv, Next
  PROVE  OnceInv'
<1>1. ASSUME NEW row \in Record["items"], NEW p \in Places(row)', NEW q \in Places(row)'
      PROVE  p = q
  <2>1. Places(row)' = PlacesIn(Items', row) /\ Places(row) = PlacesIn(Items, row)
    BY PlacesAre DEF Places, PlacesIn, Items
  <2>2. \/ PlacesIn(Items', row) = PlacesIn(Items, row)
        \/ \E x : PlacesIn(Items', row) = {x}
    BY PlacesKept
  <2>. QED
    BY <1>1, <2>1, <2>2 DEF OnceInv
<1>2. ASSUME NEW d \in Day, d > day'
      PROVE  shards'["items"][d] = <<>>
  <2>1. day' = day \/ day' = day + 1
    BY ZenonT(40) DEF Next, Operation, Register, Change, Escalate, Reevaluate, Intake, CreateRule, Begin,
       Transaction, AppendLine, AppendFails, Execute, Save, Commit, Rollback, NewDay, LoseIndex,
       Rebuild, RebuildScan, RebuildRead, RebuildSkip, RebuildFails, RebuildApply,
       RebuildCommit, RebuildKilled, Reconcile, ReconcileScan, ReconcileCompare
  <2>2. day \in Nat /\ day' \in Nat /\ d \in Nat
    BY DEF TypeInv, Day
  <2>3. d > day /\ Items[d] = <<>>
    BY <1>2, <2>1, <2>2 DEF OnceInv, Items
  <2>4. ASSUME NEW t \in Thread, NEW e \in Day, ItemGoes(t, e) \/ ItemTorn(t, e)
        PROVE  Items'[d] = Items[d]
    <3>1. /\ Connected(t) /\ WritesItem(Current(t)) /\ e = DayOf(Current(t))
          /\ \A f \in Day : f # e => Items'[f] = Items[f]
      BY <2>4 DEF ItemGoes, ItemTorn, MoreItems, SpoiltItems, AppendFails
    <3>2. e <= day
      BY <3>1, ItemGoesNew
    <3>3. e # d
      BY <2>2, <2>3, <3>2 DEF Day
    <3>. QED
      BY <3>1, <3>3
  <2>5. Items'[d] = Items[d]
    BY <2>4, ItemsMove DEF SameItems
  <2>. QED
    BY <2>3, <2>5 DEF Items
<1>. QED
  BY <1>1, <1>2 DEF OnceInv

(***************************************************************************)
(* The rows under way                                                      *)
(***************************************************************************)
TodoRows(s) == {s.todo[i].row : i \in {j \in DOMAIN s.todo : WritesItem(s.todo[j])}}

InFlightOf(s, new) == TodoRows(s) \cup (IF s.locked THEN new ELSE {})

PlacedOf(s, new) ==
  (IF s.written /\ WritesItem(Head(s.todo)) THEN {Head(s.todo).row} ELSE {})
    \cup (IF s.locked THEN new ELSE {})

LEMMA UnderWay ==
  /\ \A t : InFlight(t) = InFlightOf(session[t], view.items \ db.items)
  /\ \A t : Placed(t) = PlacedOf(session[t], view.items \ db.items)
  BY DEF InFlight, InFlightOf, TodoRows, Placed, PlacedOf

LEMMA InFlightTyped ==
  ASSUME TypeInv, LockInv, NEW t \in Thread
  PROVE  InFlight(t) \subseteq Record["items"] /\ Placed(t) \subseteq Record["items"]
<1>1. /\ \A i \in DOMAIN session[t].todo : session[t].todo[i] \in Statement
      /\ view.items \subseteq Record["items"]
  BY DEF TypeInv, Session, Tables
<1>2. \A s \in Statement : WritesItem(s) => s.row \in Record["items"]
  BY Statements DEF WritesItem
<1>3. TodoRows(session[t]) \subseteq Record["items"]
  BY <1>1, <1>2 DEF TodoRows
<1>4. InFlight(t) \subseteq Record["items"]
  BY <1>1, <1>3, UnderWay DEF InFlightOf
<1>5. session[t].written /\ WritesItem(Head(session[t].todo)) =>
        Head(session[t].todo).row \in Record["items"]
  <2>1. session[t].todo # <<>> => Head(session[t].todo) \in Statement
    BY DEF TypeInv, Session
  <2>2. session[t].written => session[t].todo # <<>>
    BY DEF LockInv
  <2>. QED
    BY <1>2, <2>1, <2>2
<1>. QED
  BY <1>1, <1>4, <1>5, UnderWay DEF PlacedOf

\* What a step adds to the rows under way of one thread, and of all others.
LEMMA NothingUnderWay ==
  ASSUME NEW s, NEW new, s.todo = <<>>, ~s.locked, ~s.written
  PROVE  InFlightOf(s, new) = {} /\ PlacedOf(s, new) = {}
  BY DEF InFlightOf, PlacedOf, TodoRows

InFlightNext(u) == InFlightOf(session'[u], view'.items \ db'.items)
PlacedNext(u) == PlacedOf(session'[u], view'.items \ db'.items)

NewRow(row) == row \in Record["items"] /\ row \notin ItemsSeen /\ shards' = shards

UnderWayMoves(u) ==
  /\ \A row \in InFlightNext(u) : row \in InFlight(u) \/ NewRow(row)
  /\ \A row \in PlacedNext(u) :
       \/ row \in Placed(u)
       \/ WritesLine(u) /\ WritesItem(Current(u)) /\ row = Current(u).row

LEMMA SameUnderWay ==
  ASSUME NEW u \in Thread, session'[u] = session[u],
         (view' = view /\ db' = db) \/ ~session[u].locked
  PROVE  UnderWayMoves(u)
<1>1. InFlightNext(u) = InFlight(u)
  BY UnderWay DEF InFlightNext, InFlightOf
<1>2. PlacedNext(u) = Placed(u)
  BY UnderWay DEF PlacedNext, PlacedOf
<1>. QED
  BY <1>1, <1>2 DEF UnderWayMoves

LEMMA IdleUnderWay ==
  ASSUME NEW u \in Thread, session'[u].todo = <<>>, ~session'[u].locked, ~session'[u].written
  PROVE  UnderWayMoves(u)
<1>1. InFlightNext(u) = {} /\ PlacedNext(u) = {}
  BY NothingUnderWay DEF InFlightNext, PlacedNext
<1>. QED
  BY <1>1 DEF UnderWayMoves

LEMMA OthersUnderWay ==
  ASSUME LockInv, NEW t \in Thread, session[t].open \/ Connected(t),
         \A u \in Thread \ {t} : session'[u] = session[u]
  PROVE  \A u \in Thread \ {t} : UnderWayMoves(u)
<1>1. SUFFICES ASSUME NEW u \in Thread, u # t
               PROVE  UnderWayMoves(u)
  OBVIOUS
<1>2. ~session[u].open
  BY <1>1 DEF LockInv, Connected
<1>3. ~session[u].locked /\ session'[u] = session[u]
  BY <1>1, <1>2 DEF LockInv
<1>. QED
  BY <1>3, SameUnderWay

LEMMA CarriedUnderWay ==
  ASSUME TypeInv, LockInv, NEW t \in Thread, Execute(t) \/ Save(t), Carried(t)
  PROVE  UnderWayMoves(t)
<1>1. /\ Connected(t) /\ session[t].todo # <<>> /\ db' = db
      /\ session[t].locked \/ LockFree
  BY DEF Execute, Save, Connected
<1>2. /\ Becomes(t, Tail(session[t].todo), TRUE, TRUE, FALSE)
      /\ AppliedTo(view, Current(t), view')
  BY DEF Carried
<1>3. /\ Current(t) \in Statement /\ Current(t) = session[t].todo[1]
      /\ 1 \in DOMAIN session[t].todo
      /\ \A i \in DOMAIN Tail(session[t].todo) :
           /\ Tail(session[t].todo)[i] = session[t].todo[i + 1]
           /\ i + 1 \in DOMAIN session[t].todo
  BY <1>1, CurrentStatement
<1>4. view'.items \ db'.items \subseteq (view.items \ db.items) \cup ItemOf(t)
  <2>1. WritesItem(Current(t)) <=> Current(t).op = "update" \/ AddsItem(Current(t))
    BY <1>3, PlannedTexts
  <2>2. WritesItem(Current(t)) => ItemOf(t) = {Current(t).row}
    BY DEF ItemOf
  <2>. QED
    BY <1>1, <1>2, <2>1, <2>2 DEF AppliedTo
<1>5. ~session[t].locked => view.items \ db.items = {}
  <2>1. ~session[t].locked => view = db
    BY <1>1 DEF LockFree, LockInv
  <2>. QED
    BY <2>1
<1>7. TodoRows(session'[t]) \subseteq TodoRows(session[t])
  <2>1. session'[t].todo = Tail(session[t].todo)
    BY <1>2 DEF Becomes
  <2>. QED
    BY <1>3, <2>1 DEF TodoRows
<1>8. ItemOf(t) \subseteq TodoRows(session[t])
  BY <1>3 DEF ItemOf, TodoRows
<1>9. InFlightNext(t) \subseteq InFlight(t)
  <2>1. InFlightNext(t) \subseteq TodoRows(session'[t]) \cup (view'.items \ db'.items)
    BY DEF InFlightNext, InFlightOf
  <2>2. view.items \ db.items \subseteq InFlight(t) /\ TodoRows(session[t]) \subseteq InFlight(t)
    BY <1>5, UnderWay DEF InFlightOf
  <2>. QED
    BY <1>4, <1>7, <1>8, <2>1, <2>2
<1>10. \A row \in PlacedNext(t) :
         row \in Placed(t) \/ (WritesLine(t) /\ WritesItem(Current(t)) /\ row = Current(t).row)
  <2>1. PlacedNext(t) \subseteq view'.items \ db'.items
    BY <1>2 DEF PlacedNext, PlacedOf, Becomes
  <2>2. view.items \ db.items \subseteq Placed(t)
    BY <1>5, UnderWay DEF PlacedOf
  <2>3. ASSUME NEW row \in ItemOf(t)
        PROVE  row \in Placed(t) \/ (WritesLine(t) /\ WritesItem(Current(t)) /\ row = Current(t).row)
    <3>1. WritesItem(Current(t)) /\ row = Current(t).row
      BY <2>3 DEF ItemOf
    <3>2. CASE Save(t)
      BY <3>1, <3>2 DEF WritesLine
    <3>3. CASE Execute(t)
      <4>1. session[t].written
        BY <3>1, <3>3 DEF Execute, WritesItem
      <4>. QED
        BY <3>1, <4>1, UnderWay DEF PlacedOf, Current
    <3>. QED
      BY <3>2, <3>3
  <2>. QED
    BY <1>4, <2>1, <2>2, <2>3
<1>. QED
  BY <1>9, <1>10 DEF UnderWayMoves

\* A row is under way since before the step, or is written by it, or new.
LEMMA UnderWayStep ==
  ASSUME ConstantsAssumption, TypeInv, LockInv, StampInv, Next
  PROVE  \A u \in Thread : UnderWayMoves(u)
<1>. USE DEF server, history
<1>1. ASSUME NEW t \in Thread, Operation(t)
      PROVE  \A u \in Thread : UnderWayMoves(u)
  <2>1. \A r \in db.rules : r.key <= stamps + 1
    <3>1. \A r \in db.rules : <<r.stamp, r.key>> \in RulesSeen
      BY DEF RulesSeen, Ids
    <3>2. \A x \in RulesSeen : x[2] <= stamps + 1
      BY DEF StampInv
    <3>. QED
      BY <3>1, <3>2
  <2>2. PICK todo : Planned(todo) /\ Begin(t, todo)
    BY <1>1, <2>1, OperationPlans
  <2>3. /\ Becomes(t, todo, FALSE, FALSE, FALSE) /\ session'[t].todo = todo
        /\ ~session'[t].locked /\ ~session'[t].written
        /\ UNCHANGED <<view, db, shards>>
    BY <2>2, BeginDoes DEF Begin, Becomes
  <2>4. \A u \in Thread \ {t} : UnderWayMoves(u)
    BY <2>3, SameUnderWay DEF Becomes
  <2>5. ASSUME NEW row \in InFlightNext(t)
        PROVE  NewRow(row)
    <3>1. row \in TodoRows(session'[t])
      BY <2>3, <2>5 DEF InFlightNext, InFlightOf
    <3>2. PICK i \in DOMAIN todo : WritesItem(todo[i]) /\ row = todo[i].row
      BY <2>3, <3>1 DEF TodoRows
    <3>3. ItemNew(todo[i]) /\ todo[i] \in Statement
      BY <2>2, <3>2, PlannedNew, PlannedTodo
    <3>. QED
      BY <2>3, <3>2, <3>3, Statements DEF NewRow, ItemNew, WritesItem
  <2>6. PlacedNext(t) = {}
    BY <2>3 DEF PlacedNext, PlacedOf
  <2>7. UnderWayMoves(t)
    BY <2>5, <2>6 DEF UnderWayMoves
  <2>. QED
    BY <2>4, <2>7
<1>2. ASSUME NEW t \in Thread, AppendLine(t)
      PROVE  \A u \in Thread : UnderWayMoves(u)
  <2>1. /\ Becomes(t, session[t].todo, TRUE, session[t].locked, TRUE) /\ Connected(t)
        /\ ~session[t].locked /\ UNCHANGED <<view, db>>
    BY <1>2, AppendBecomes DEF AppendLine, TypeInv
  <2>2. InFlightNext(t) = InFlight(t)
    BY <2>1, UnderWay DEF InFlightNext, InFlightOf, TodoRows, Becomes
  <2>3. PlacedNext(t) \subseteq ItemOf(t)
    BY <2>1 DEF PlacedNext, PlacedOf, ItemOf, Current, Becomes
  <2>4. UnderWayMoves(t)
    BY <1>2, <2>2, <2>3 DEF UnderWayMoves, ItemOf, WritesLine
  <2>. QED
    BY <2>1, <2>4, OthersUnderWay DEF Becomes
<1>3. ASSUME NEW t \in Thread, session[t].open \/ Connected(t),
             Becomes(t, <<>>, FALSE, FALSE, FALSE)
      PROVE  \A u \in Thread : UnderWayMoves(u)
  <2>1. UnderWayMoves(t)
    BY <1>3, IdleUnderWay DEF Becomes
  <2>. QED
    BY <1>3, <2>1, OthersUnderWay DEF Becomes
<1>4. ASSUME NEW t \in Thread, AppendFails(t) \/ Rollback(t) \/ Commit(t)
      PROVE  \A u \in Thread : UnderWayMoves(u)
  <2>1. session[t].open \/ Connected(t)
    BY <1>4 DEF AppendFails, Rollback, Commit, LockInv
  <2>2. Becomes(t, <<>>, FALSE, FALSE, FALSE)
    BY <1>4, UndoneDoes, UndoneBecomes DEF AppendFails, Rollback, Commit, TypeInv
  <2>. QED
    BY <1>3, <2>1, <2>2
<1>5. ASSUME NEW t \in Thread, Execute(t) \/ Save(t)
      PROVE  \A u \in Thread : UnderWayMoves(u)
  <2>1. Connected(t) /\ (Refused(t) \/ Carried(t))
    BY <1>5, ExecutedDoes DEF Execute, Save, Connected
  <2>2. CASE Refused(t)
    BY <1>3, <2>1, <2>2 DEF Refused
  <2>3. CASE Carried(t)
    BY <1>5, <2>1, <2>3, CarriedUnderWay, OthersUnderWay DEF Carried, Becomes
  <2>. QED
    BY <2>1, <2>2, <2>3
<1>6. ASSUME UNCHANGED <<session, view, db>>
      PROVE  \A u \in Thread : UnderWayMoves(u)
  BY <1>6, SameUnderWay
<1>7. ASSUME UNCHANGED session, \A u \in Thread : ~session[u].locked
      PROVE  \A u \in Thread : UnderWayMoves(u)
  BY <1>7, SameUnderWay
<1>8. ASSUME LoseIndex
      PROVE  \A u \in Thread : UnderWayMoves(u)
  <2>1. Idle.todo = <<>> /\ ~Idle.locked /\ ~Idle.written
    BY DEF Idle
  <2>2. \A u \in Thread : session'[u] = Idle
    BY <1>8 DEF LoseIndex
  <2>. QED
    BY <2>1, <2>2, IdleUnderWay
<1>9. ASSUME NewDay \/ Reconcile \/ RebuildScan \/ RebuildFails
             \/ \E f \in ctl.todo : RebuildRead(f) \/ RebuildSkip(f)
      PROVE  \A u \in Thread : UnderWayMoves(u)
  BY <1>6, <1>9 DEF NewDay, Reconcile, ReconcileScan, ReconcileCompare, RebuildScan, RebuildFails,
     RebuildRead, RebuildSkip
<1>10. ASSUME RebuildApply \/ RebuildCommit
       PROVE  \A u \in Thread : UnderWayMoves(u)
  BY <1>7, <1>10 DEF RebuildApply, RebuildCommit, LockFree, LockInv
<1>11. ASSUME RebuildKilled
       PROVE  \A u \in Thread : UnderWayMoves(u)
  BY <1>6, <1>7, <1>11 DEF RebuildKilled, LockInv
<1>. QED
  BY <1>1, <1>2, <1>4, <1>5, <1>8, <1>9, <1>10, <1>11 DEF Next, Transaction, Rebuild

(***************************************************************************)
(* The shards give the changes in the order of the commits                 *)
(***************************************************************************)
Commits(t, row) ==
  /\ Commit(t) /\ row \in view.items \ db.items
  /\ committed' = Append(committed, row)

\* What a step adds to the history of commits.
LEMMA CommittedMoves ==
  ASSUME TypeInv, Next
  PROVE  committed' = committed \/ \E t \in Thread : \E row : Commits(t, row)
<1>1. ASSUME NEW t \in Thread, Commit(t)
      PROVE  committed' = committed \/ \E row : Commits(t, row)
  BY <1>1, Committing DEF Commits
<1>2. committed' = committed \/ \E t \in Thread : Commit(t)
  BY DEF history, Next, Operation, Register, Change, Escalate, Reevaluate, Intake, CreateRule,
     Begin, Transaction, AppendLine, AppendFails, Execute, Save, Rollback, NewDay, LoseIndex,
     Rebuild, RebuildScan, RebuildRead, RebuildSkip, RebuildFails, RebuildApply, RebuildCommit,
     RebuildKilled, Reconcile, ReconcileScan, ReconcileCompare
<1>. QED
  BY <1>1, <1>2

\* The rows of one commit, and what the others have under way then.
LEMMA CommitDoes ==
  ASSUME TypeInv, LockInv, NEW t \in Thread, NEW row, Commits(t, row)
  PROVE  /\ row \in InFlight(t) /\ row \in Placed(t) /\ row \in Record["items"]
         /\ InFlightNext(t) = {} /\ PlacedNext(t) = {}
         /\ \A u \in Thread \ {t} : /\ ~session[u].open /\ session'[u] = session[u]
                                    /\ PlacedNext(u) = {}
                                    /\ InFlightNext(u) = TodoRows(session[u])
         /\ shards' = shards
         /\ committed \in Seq(Record["items"])
         /\ DOMAIN committed' = 1..(Len(committed) + 1)
         /\ Len(committed) \in Nat
         /\ committed'[Len(committed) + 1] = row
         /\ \A i \in DOMAIN committed : /\ committed'[i] = committed[i]
                                        /\ i \in DOMAIN committed' /\ i < Len(committed) + 1
         /\ \A i \in DOMAIN committed' : i \in DOMAIN committed \/ i = Len(committed) + 1
<1>1. /\ session[t].locked /\ Becomes(t, <<>>, FALSE, FALSE, FALSE)
      /\ shards' = shards
  BY UndoneBecomes DEF Commits, Commit, TypeInv
<1>2. row \in InFlight(t) /\ row \in Placed(t)
  BY <1>1, UnderWay DEF InFlightOf, PlacedOf, Commits
<1>3. InFlightNext(t) = {} /\ PlacedNext(t) = {}
  BY <1>1, NothingUnderWay DEF InFlightNext, PlacedNext, Becomes
<1>4. ASSUME NEW u \in Thread \ {t}
      PROVE  /\ ~session[u].open /\ session'[u] = session[u] /\ PlacedNext(u) = {}
             /\ InFlightNext(u) = TodoRows(session[u])
  <2>1. ~session[u].open /\ session'[u] = session[u]
    BY <1>1 DEF LockInv, Becomes
  <2>2. ~session[u].locked /\ ~session[u].written
    BY <2>1 DEF LockInv
  <2>. QED
    BY <2>1, <2>2 DEF InFlightNext, PlacedNext, InFlightOf, PlacedOf
<1>5. committed \in Seq(Record["items"]) /\ row \in Record["items"]
  BY DEF TypeInv, Tables, Commits
<1>6. committed' = Append(committed, row)
  BY DEF Commits
<1>7. /\ DOMAIN committed' = 1..(Len(committed) + 1) /\ Len(committed) \in Nat
      /\ committed'[Len(committed) + 1] = row
      /\ \A i \in DOMAIN committed : /\ committed'[i] = committed[i]
                                     /\ i \in DOMAIN committed' /\ i < Len(committed) + 1
      /\ \A i \in DOMAIN committed' : i \in DOMAIN committed \/ i = Len(committed) + 1
  BY <1>5, <1>6
<1>. QED
  BY <1>1, <1>2, <1>3, <1>4, <1>5, <1>7

\* Rows that no session has written yet have no place.
LEMMA UnwrittenHasNoPlace ==
  ASSUME TypeInv, LockInv, FreshInv, NEW u \in Thread, ~session[u].open,
         NEW row \in TodoRows(session[u])
  PROVE  Places(row) = {} /\ row \in Record["items"]
<1>1. PICK i \in DOMAIN session[u].todo :
        WritesItem(session[u].todo[i]) /\ row = session[u].todo[i].row
  BY DEF TodoRows
<1>2. Waiting(session[u], i)
  BY DEF Waiting, LockInv
<1>3. ItemNew(session[u].todo[i])
  BY <1>1, <1>2, FreshParts
<1>4. session[u].todo[i] \in Statement
  BY DEF TypeInv, Session
<1>5. row \in Record["items"]
  BY <1>1, <1>4, Statements DEF WritesItem
<1>6. row \notin ItemsSeen
  BY <1>1, <1>3 DEF ItemNew
<1>. QED
  BY <1>5, <1>6, PlacesOfUnseen

\* A line that is written now stands behind what is there.
LEMMA WrittenBehind ==
  ASSUME ConstantsAssumption, TypeInv, LockInv, FreshInv, ApartInv, OnceInv,
         NEW t \in Thread, NEW d \in Day, ItemGoes(t, d),
         NEW c \in ItemsSeen, c.key = Current(t).row.key,
         NEW p \in PlacesIn(Items, c)
  PROVE  Before(p, <<d, Len(Items[d]) + 1>>)
<1>1. Connected(t) /\ WritesItem(Current(t)) /\ d = DayOf(Current(t)) /\ ~session[t].written
  BY DEF ItemGoes
<1>2. ItemNew(Current(t)) /\ (~AddsItem(Current(t)) => d = day)
  BY <1>1, ItemGoesNew
<1>3. d = day
  BY <1>2 DEF ItemNew
<1>4a. PICK e \in Day : \E n \in DOMAIN Items[e] : p = <<e, n>>
  BY PlacesMember
<1>4. PICK n \in DOMAIN Items[e] : p = <<e, n>>
  BY <1>4a
<1>5. e <= day
  <2>1. Items[e] # <<>>
    BY <1>4
  <2>2. e \in Nat /\ day \in Nat
    BY ItemsTyped DEF Day
  <2>. QED
    BY <2>1, <2>2 DEF OnceInv, Items
<1>6. Items[d] \in Seq(Line("items")) /\ e \in Nat /\ d \in Nat
  BY ItemsTyped DEF ItemFiles, Day
<1>7. CASE e = d
  <2>1. n <= Len(Items[d]) /\ n \in Nat
    BY <1>4, <1>6, <1>7
  <2>2. n < Len(Items[d]) + 1
    BY <1>6, <2>1
  <2>. QED
    BY <1>4, <1>7, <2>2 DEF Before
<1>8. CASE e # d
  <2>1. e < d
    BY <1>3, <1>5, <1>6, <1>8
  <2>. QED
    BY <1>4, <2>1 DEF Before
<1>. QED
  BY <1>7, <1>8

OrderedRows(files, c, row) ==
  c.key = row.key => \A p \in PlacesIn(files, c), q \in PlacesIn(files, row) : Before(p, q)

LEMMA OrderParts ==
  /\ OrderInv <=> \A t \in Thread : \A row \in InFlight(t) : \A i \in DOMAIN committed :
                    OrderedRows(Items, committed[i], row)
  /\ ReplayOrder <=> \A i, j \in DOMAIN committed :
                       i < j => OrderedRows(Items, committed[i], committed[j])
  BY PlacesAre DEF OrderInv, ReplayOrder, OrderedRows

LEMMA OrderPartsNext ==
  /\ (\A t \in Thread : \A row \in InFlightNext(t) : \A i \in DOMAIN committed' :
        OrderedRows(Items', committed'[i], row)) => OrderInv'
  /\ (\A i, j \in DOMAIN committed' :
        i < j => OrderedRows(Items', committed'[i], committed'[j])) => ReplayOrder'
  BY DEF OrderInv, ReplayOrder, OrderedRows, InFlight, InFlightNext, InFlightOf, TodoRows,
     Places, PlacesIn, Items

\* What is under way stands behind what was committed, so commits are in order.
LEMMA OrderStep ==
  ASSUME ConstantsAssumption, TypeInv, TypeInv', LockInv, LockInv', StampInv, FreshInv, ApartInv,
         OnceInv, OrderInv, ReplayOrder, Next
  PROVE  OrderInv' /\ ReplayOrder'
<1>1. \A i \in DOMAIN committed : committed[i] \in ItemsSeen /\ committed[i] \in Record["items"]
  BY DEF ItemsSeen, TypeInv
<1>2. \A c \in ItemsSeen : PlacesIn(Items', c) = PlacesIn(Items, c)
  BY PlacesKept, SeenTyped
<1>3. ASSUME NEW t \in Thread, NEW row \in InFlightNext(t), NEW i \in DOMAIN committed
      PROVE  OrderedRows(Items', committed[i], row)
  <2>1. row \in InFlight(t) \/ NewRow(row)
    BY <1>3, UnderWayStep DEF UnderWayMoves
  <2>2. row \in Record["items"]
    BY <2>1, InFlightTyped DEF NewRow
  <2>3. CASE PlacesIn(Items', row) = PlacesIn(Items, row)
    <3>1. CASE row \in InFlight(t)
      BY <1>1, <1>2, <1>3, <2>3, <3>1, OrderParts DEF OrderedRows
    <3>2. CASE NewRow(row)
      <4>1. PlacesIn(Items', row) = {}
        BY <2>3, <3>2, PlacesOfUnseen, PlacesAre DEF NewRow
      <4>. QED
        BY <4>1 DEF OrderedRows
    <3>. QED
      BY <2>1, <3>1, <3>2
  <2>4. ASSUME NEW u \in Thread, NEW d \in Day, ItemGoes(u, d), row = Current(u).row,
               PlacesIn(Items', row) = {<<d, Len(Items[d]) + 1>>}
        PROVE  OrderedRows(Items', committed[i], row)
    <3>1. ASSUME committed[i].key = row.key, NEW p \in PlacesIn(Items, committed[i])
          PROVE  Before(p, <<d, Len(Items[d]) + 1>>)
      BY <1>1, <1>3, <2>4, <3>1, WrittenBehind
    <3>. QED
      BY <1>1, <1>2, <1>3, <2>4, <3>1 DEF OrderedRows
  <2>. QED
    BY <2>2, <2>3, <2>4, PlacesKept
<1>4. ASSUME NEW i \in DOMAIN committed, NEW j \in DOMAIN committed, i < j
      PROVE  OrderedRows(Items', committed[i], committed[j])
  BY <1>1, <1>2, <1>4, OrderParts DEF OrderedRows
<1>5. CASE committed' = committed
  BY <1>3, <1>4, <1>5, OrderPartsNext
<1>6. ASSUME NEW t \in Thread, NEW row, Commits(t, row)
      PROVE  OrderInv' /\ ReplayOrder'
  <2>1. /\ row \in InFlight(t) /\ row \in Record["items"] /\ InFlightNext(t) = {}
        /\ \A u \in Thread \ {t} : ~session[u].open /\ InFlightNext(u) = TodoRows(session[u])
        /\ Items' = Items
        /\ Len(committed) \in Nat
        /\ committed'[Len(committed) + 1] = row
        /\ \A i \in DOMAIN committed : committed'[i] = committed[i] /\ i \in DOMAIN committed'
                                        /\ i < Len(committed) + 1
        /\ \A i \in DOMAIN committed' : i \in DOMAIN committed \/ i = Len(committed) + 1
    BY <1>6, CommitDoes DEF Items
  <2>2. ASSUME NEW u \in Thread, NEW r \in InFlightNext(u), NEW i \in DOMAIN committed'
        PROVE  OrderedRows(Items', committed'[i], r)
    <3>1. u # t /\ r \in TodoRows(session[u]) /\ ~session[u].open
      BY <2>1, <2>2
    <3>2. PlacesIn(Items', r) = {}
      BY <2>1, <3>1, UnwrittenHasNoPlace, PlacesAre
    <3>. QED
      BY <3>2 DEF OrderedRows
  <2>3. ASSUME NEW i \in DOMAIN committed', NEW j \in DOMAIN committed', i < j
        PROVE  OrderedRows(Items', committed'[i], committed'[j])
    <3>1. CASE j \in DOMAIN committed
      <4>1. i \in DOMAIN committed
        <5>1. \A k \in DOMAIN committed : k \in Nat
          BY DEF TypeInv
        <5>. QED
          BY <2>1, <2>3, <3>1, <5>1
      <4>. QED
        BY <1>4, <2>1, <2>3, <3>1, <4>1
    <3>2. CASE j = Len(committed) + 1
      <4>1. i \in DOMAIN committed
        BY <2>1, <2>3, <3>2
      <4>2. OrderedRows(Items, committed[i], row)
        BY <2>1, <4>1, OrderParts
      <4>. QED
        BY <2>1, <3>2, <4>1, <4>2
    <3>. QED
      BY <2>1, <2>3, <3>1, <3>2
  <2>. QED
    BY <2>2, <2>3, OrderPartsNext
<1>. QED
  BY <1>5, <1>6, CommittedMoves

(***************************************************************************)
(* A torn line costs at most one record                                    *)
(***************************************************************************)
LostIn(files, rows) == {i \in DOMAIN rows : PlacesIn(files, rows[i]) = {}}

Spoilt(files) == PlacesIn(files, Garbled)

LEMMA LostParts ==
  /\ LostInv <=>
       /\ IsFiniteSet(Spoilt(Items))
       /\ \A t \in Thread : \A row \in Placed(t) : PlacesIn(Items, row) = {} =>
            Cardinality(LostIn(Items, committed)) + 1 <= Cardinality(Spoilt(Items))
  /\ CommittedOnShards <=>
       Cardinality(LostIn(Items, committed)) <= Cardinality(Spoilt(Items))
<1>1. Lost = LostIn(Items, committed) /\ Places(Garbled) = Spoilt(Items)
  BY PlacesAre DEF Lost, LostIn, Spoilt
<1>2. {i \in DOMAIN committed : Places(committed[i]) = {}} = LostIn(Items, committed)
  BY PlacesAre DEF LostIn
<1>. QED
  BY <1>1, <1>2, PlacesAre DEF LostInv, CommittedOnShards

LEMMA LostPartsNext ==
  /\ (/\ IsFiniteSet(Spoilt(Items'))
      /\ \A t \in Thread : \A row \in PlacedNext(t) : PlacesIn(Items', row) = {} =>
           Cardinality(LostIn(Items', committed')) + 1 <= Cardinality(Spoilt(Items')))
     => LostInv'
  /\ Cardinality(LostIn(Items', committed')) <= Cardinality(Spoilt(Items'))
     => CommittedOnShards'
<1>1. Lost' = LostIn(Items', committed') /\ Places(Garbled)' = Spoilt(Items')
  BY DEF Lost, LostIn, Spoilt, Places, PlacesIn, Items
<1>2. {i \in DOMAIN committed' : Places(committed[i])' = {}} = LostIn(Items', committed')
  BY DEF LostIn, Places, PlacesIn, Items
<1>3. \A row : Places(row)' = PlacesIn(Items', row)
  BY DEF Places, PlacesIn, Items
<1>4. \A t \in Thread : Placed(t)' = PlacedNext(t)
  BY DEF Placed, PlacedNext, PlacedOf
<1>5. (/\ IsFiniteSet(Spoilt(Items'))
       /\ \A t \in Thread : \A row \in PlacedNext(t) : PlacesIn(Items', row) = {} =>
           Cardinality(LostIn(Items', committed')) + 1 <= Cardinality(Spoilt(Items')))
     => LostInv'
  BY <1>1, <1>3, <1>4 DEF LostInv
<1>6. Cardinality(LostIn(Items', committed')) <= Cardinality(Spoilt(Items'))
     => CommittedOnShards'
  BY <1>1, <1>2 DEF CommittedOnShards
<1>. QED
  BY <1>5, <1>6

\* A line of items that is written goes to some day.
LEMMA ItemWrite ==
  ASSUME TypeInv, LockInv, NEW t \in Thread, WritesLine(t), WritesItem(Current(t))
  PROVE  \E d \in Day : ItemGoes(t, d)
<1>1. /\ Connected(t) /\ HasLine(Current(t)) /\ session[t].todo # <<>>
      /\ ~session[t].written /\ day' = day
  BY DEF WritesLine, AppendLine, Save, Connected, LockInv
<1>2. PICK k \in Kind, d \in Day : k = Current(t).kind /\ d = DayOf(Current(t))
  BY <1>1, CurrentStatement, LineGoesTo
<1>3. Appends(k, d, Current(t).row) \/ Spoils(k, d)
  BY <1>1, <1>2, WriteStep DEF WritesLine, AppendLine, Save
<1>4. k = "items"
  BY <1>2 DEF WritesItem
<1>5. MoreItems(Items, Items', d, Current(t).row) \/ SpoiltItems(Items, Items', d)
  BY <1>3, <1>4 DEF Appends, Spoils, OthersKept, MoreItems, SpoiltItems, Items
<1>. QED
  BY <1>1, <1>2, <1>5 DEF ItemGoes

\* A record lost to a torn line is paid for by a garbled one.
LEMMA SpoiltMoves ==
  ASSUME ConstantsAssumption, TypeInv, TypeInv', LockInv, FreshInv, ApartInv, Next,
         IsFiniteSet(Spoilt(Items))
  PROVE  /\ IsFiniteSet(Spoilt(Items'))
         /\ Cardinality(Spoilt(Items)) \in Nat
         /\ Cardinality(Spoilt(Items')) \in Nat
         /\ Cardinality(Spoilt(Items)) <= Cardinality(Spoilt(Items'))
         /\ \A t \in Thread, d \in Day : ItemGoes(t, d) =>
              \/ PlacesIn(Items', Current(t).row) # {}
              \/ Cardinality(Spoilt(Items')) = Cardinality(Spoilt(Items)) + 1
<1>. DEFINE before == Spoilt(Items)
            after == Spoilt(Items')
<1>1. ItemFiles(Items) /\ ItemFiles(Items')
  BY ItemsTyped DEF TypeInv, ItemFiles, Items, Kind
<1>2. Garbled # Torn
  BY Damaged
<1>3. Cardinality(before) \in Nat
  BY FS_CardinalityType
<1>4. ASSUME after = before \/ \E x : x \notin before /\ after = before \cup {x}
      PROVE  /\ IsFiniteSet(after) /\ Cardinality(after) \in Nat
             /\ after # before => Cardinality(after) = Cardinality(before) + 1
             /\ Cardinality(before) <= Cardinality(after)
  <2>1. CASE after = before
    BY <1>3, <2>1
  <2>2. ASSUME NEW x, x \notin before, after = before \cup {x}
        PROVE  /\ IsFiniteSet(after) /\ Cardinality(after) = Cardinality(before) + 1
    <3>. HIDE DEF before, after
    <3>1. IsFiniteSet(before)
      BY DEF before
    <3>. QED
      BY <2>2, <3>1, FS_AddElement
  <2>. QED
    BY <1>3, <1>4, <2>1, <2>2
<1>5. ASSUME NEW t \in Thread, NEW d \in Day, ItemGoes(t, d)
      PROVE  /\ after = before \/ \E x : x \notin before /\ after = before \cup {x}
             /\ PlacesIn(Items', Current(t).row) # {} \/ after # before
  <2>1. Current(t).row \in Record["items"]
    BY <1>5, ItemGoesNew DEF ItemGoes
  <2>2. Current(t).row # Garbled
    BY <2>1, Damaged, Records DEF Kind
  <2>3. CASE MoreItems(Items, Items', d, Current(t).row)
    <3>1. after = before
      BY <1>1, <2>2, <2>3, PlacesMore DEF Spoilt
    <3>2. PlacesIn(Items', Current(t).row) # {}
      <4>1. PICK row : row = Current(t).row
        OBVIOUS
      <4>2. MoreItems(Items, Items', d, row)
        BY <2>3, <4>1
      <4>3. PlacesIn(Items', row) = PlacesIn(Items, row) \cup {<<d, Len(Items[d]) + 1>>}
        BY <1>1, <4>2, PlacesMore
      <4>. QED
        BY <4>1, <4>3
    <3>. QED
      BY <3>1, <3>2
  <2>4. CASE SpoiltItems(Items, Items', d)
    <3>1. PICK x : x = <<d, Len(Items[d])>>
      OBVIOUS
    <3>2. /\ PlacesIn(Items', Garbled) = PlacesIn(Items, Garbled) \cup {<<d, Len(Items[d])>>}
          /\ <<d, Len(Items[d])>> \notin PlacesIn(Items, Garbled)
      BY <1>1, <1>2, <2>4, PlacesSpoilt
    <3>3. after = before \cup {x} /\ x \notin before
      BY <3>1, <3>2 DEF Spoilt
    <3>. HIDE DEF before, after
    <3>. QED
      BY <3>3
  <2>. QED
    BY <1>5, <2>3, <2>4 DEF ItemGoes
<1>6. after = before \/ \E x : x \notin before /\ after = before \cup {x}
  <2>1. ASSUME NEW t \in Thread, NEW d \in Day, ItemTorn(t, d)
        PROVE  after = before
    BY <1>1, <1>2, <2>1, PlacesMore DEF ItemTorn, Spoilt
  <2>2. SameItems(Items, Items') => after = before
    BY PlacesSame DEF Spoilt
  <2>. QED
    BY <1>5, <2>1, <2>2, ItemsMove
<1>. HIDE DEF before, after
<1>7. /\ IsFiniteSet(after) /\ Cardinality(after) \in Nat
      /\ after # before => Cardinality(after) = Cardinality(before) + 1
      /\ Cardinality(before) <= Cardinality(after)
  BY <1>4, <1>6
<1>. QED
  BY <1>3, <1>5, <1>7 DEF before, after

\* No more rows are lost than lines are garbled.
LEMMA LostStep ==
  ASSUME ConstantsAssumption, TypeInv, TypeInv', LockInv, StampInv, FreshInv, ApartInv,
         LostInv, CommittedOnShards, Next
  PROVE  LostInv' /\ CommittedOnShards'
<1>. DEFINE lost == LostIn(Items, committed)
            lostNext == LostIn(Items', committed')
            spoilt == Cardinality(Spoilt(Items))
            spoiltNext == Cardinality(Spoilt(Items'))
<1>1. /\ IsFiniteSet(Spoilt(Items)) /\ Cardinality(lost) <= spoilt
      /\ \A t \in Thread : \A row \in Placed(t) : PlacesIn(Items, row) = {} =>
           Cardinality(lost) + 1 <= spoilt
  BY LostParts
<1>2. /\ IsFiniteSet(Spoilt(Items')) /\ spoilt \in Nat /\ spoiltNext \in Nat
      /\ spoilt <= spoiltNext
      /\ \A t \in Thread, d \in Day : ItemGoes(t, d) =>
           PlacesIn(Items', Current(t).row) # {} \/ spoiltNext = spoilt + 1
  BY <1>1, SpoiltMoves
<1>3. \A row \in Record["items"] : PlacesIn(Items', row) = {} => PlacesIn(Items, row) = {}
  BY PlacesKept
<1>4. committed \in Seq(Record["items"]) /\ Len(committed) \in Nat
      /\ DOMAIN committed = 1..Len(committed)
      /\ \A i \in DOMAIN committed : committed[i] \in Record["items"]
  BY DEF TypeInv
<1>5. IsFiniteSet(lost) /\ Cardinality(lost) \in Nat
  <2>1. lost \in SUBSET (1..Len(committed))
    BY <1>4 DEF LostIn
  <2>2. IsFiniteSet(1..Len(committed))
    BY <1>4, FS_Interval
  <2>. HIDE DEF lost
  <2>. QED
    BY <2>1, <2>2, FS_Subset, FS_CardinalityType
<1>6. CASE committed' = committed
  <2>1. lostNext \in SUBSET lost
    BY <1>3, <1>4, <1>6 DEF LostIn
  <2>2. Cardinality(lostNext) <= Cardinality(lost) /\ Cardinality(lostNext) \in Nat
    <3>. HIDE DEF lost, lostNext
    <3>. QED
      BY <1>5, <2>1, FS_Subset, FS_CardinalityType
  <2>3. ASSUME NEW t \in Thread, NEW row \in PlacedNext(t), PlacesIn(Items', row) = {}
        PROVE  Cardinality(lostNext) + 1 <= spoiltNext
    <3>1. CASE row \in Placed(t)
      <4>1. PlacesIn(Items, row) = {}
        BY <1>3, <2>3, <3>1, InFlightTyped
      <4>2. Cardinality(lost) + 1 <= spoilt
        BY <1>1, <3>1, <4>1
      <4>. HIDE DEF lost, lostNext, spoilt, spoiltNext
      <4>. QED
        BY <1>2, <1>5, <2>2, <4>2
    <3>2. CASE WritesLine(t) /\ WritesItem(Current(t)) /\ row = Current(t).row
      <4>1. PICK d \in Day : ItemGoes(t, d)
        BY <3>2, ItemWrite
      <4>2. spoiltNext = spoilt + 1
        BY <1>2, <2>3, <3>2, <4>1
      <4>. HIDE DEF lost, lostNext, spoilt, spoiltNext
      <4>. QED
        BY <1>1, <1>2, <1>5, <2>2, <4>2
    <3>. QED
      BY <2>3, <3>1, <3>2, UnderWayStep DEF UnderWayMoves
  <2>4. Cardinality(lostNext) <= spoiltNext
    <3>. HIDE DEF lost, lostNext, spoilt, spoiltNext
    <3>. QED
      BY <1>1, <1>2, <1>5, <2>2
  <2>. QED
    BY <1>2, <2>3, <2>4, LostPartsNext
<1>7. ASSUME NEW t \in Thread, NEW row, Commits(t, row)
      PROVE  LostInv' /\ CommittedOnShards'
  <2>1. /\ row \in Placed(t) /\ PlacedNext(t) = {} /\ Items' = Items
        /\ \A u \in Thread \ {t} : PlacedNext(u) = {}
        /\ committed'[Len(committed) + 1] = row
        /\ \A i \in DOMAIN committed : committed'[i] = committed[i]
        /\ \A i \in DOMAIN committed' : i \in DOMAIN committed \/ i = Len(committed) + 1
    BY <1>7, CommitDoes DEF Items
  <2>2. \A u \in Thread : PlacedNext(u) = {}
    BY <2>1
  <2>3. lostNext \subseteq lost \cup {Len(committed) + 1}
    BY <2>1 DEF LostIn
  <2>4. Cardinality(lostNext) <= spoilt
    <3>1. CASE PlacesIn(Items, row) = {}
      <4>1. Cardinality(lost) + 1 <= spoilt
        BY <1>1, <2>1, <3>1
      <4>. HIDE DEF lost, lostNext, spoilt
      <4>n. PICK n : n = Len(committed) + 1
        OBVIOUS
      <4>2. PICK more : more = lost \cup {n}
        OBVIOUS
      <4>3. IsFiniteSet(more) /\ Cardinality(more) <= Cardinality(lost) + 1
        <5>1. /\ IsFiniteSet(lost \cup {n})
              /\ Cardinality(lost \cup {n}) =
                   IF n \in lost THEN Cardinality(lost) ELSE Cardinality(lost) + 1
          BY <1>5, FS_AddElement
        <5>2. Cardinality(more) = Cardinality(lost) \/ Cardinality(more) = Cardinality(lost) + 1
          BY <4>2, <5>1
        <5>. QED
          BY <1>5, <4>2, <5>1, <5>2
      <4>4. /\ Cardinality(lostNext) <= Cardinality(more)
            /\ Cardinality(lostNext) \in Nat /\ Cardinality(more) \in Nat
        <5>1. lostNext \in SUBSET more
          BY <2>3, <4>n, <4>2
        <5>. QED
          BY <4>3, <5>1, FS_Subset, FS_CardinalityType
      <4>. QED
        BY <1>2, <1>5, <4>1, <4>3, <4>4 DEF spoilt
    <3>2. CASE PlacesIn(Items, row) # {}
      <4>1. lostNext \in SUBSET lost
        BY <2>1, <2>3, <3>2 DEF LostIn
      <4>. HIDE DEF lost, lostNext, spoilt
      <4>2. Cardinality(lostNext) <= Cardinality(lost) /\ Cardinality(lostNext) \in Nat
        BY <1>5, <4>1, FS_Subset, FS_CardinalityType
      <4>. QED
        BY <1>1, <1>2, <1>5, <4>2 DEF spoilt
    <3>. QED
      BY <3>1, <3>2
  <2>5. Cardinality(lostNext) <= spoiltNext
    BY <2>1, <2>4
  <2>. QED
    BY <1>2, <2>2, <2>5, LostPartsNext
<1>. QED
  BY <1>6, <1>7, CommittedMoves

(***************************************************************************)
(* A rebuild keeps the latest row it has read                              *)
(***************************************************************************)
ReadOrdered(files, read, todo) ==
  /\ \A n \in DOMAIN read : Decodable(read[n]) => PlacesIn(files, read[n]) # {}
  /\ \A m, n \in DOMAIN read : m < n /\ Decodable(read[m]) /\ Decodable(read[n]) =>
       \A p \in PlacesIn(files, read[m]), q \in PlacesIn(files, read[n]) : Before(p, q)
  /\ \A n \in DOMAIN read, f \in todo : f.kind = "items" /\ Decodable(read[n]) =>
       \A p \in PlacesIn(files, read[n]) : p[1] < f.day

LEMMA ReadParts ==
  ReadInv <=>
    /\ ReadOrdered(Items, ctl.read["items"], ctl.todo)
    /\ ctl.stage = "replaced" => view.items = Latest(ctl.read["items"])
  BY PlacesAre DEF ReadInv, ReadOrdered

LEMMA ReadPartsNext ==
  ASSUME ReadOrdered(Items', ctl'.read["items"], ctl'.todo),
         ctl'.stage = "replaced" => view'.items = Latest(ctl'.read["items"])
  PROVE  ReadInv'
  BY DEF ReadInv, ReadOrdered, Places, PlacesIn, Items, Latest

\* While the tables are replaced nothing else happens to them.
LEMMA ReplacedStays ==
  ASSUME TypeInv, LockInv, Next, ctl'.stage = "replaced"
  PROVE  RebuildApply \/ (ctl' = ctl /\ view' = view /\ ctl.stage = "replaced")
<1>1. ASSUME NEW t \in Thread, Operation(t) \/ Transaction(t)
      PROVE  ctl' = ctl /\ view' = view
  <2>1. ctl' = ctl
    BY <1>1 DEF Operation, Register, Change, Escalate, Reevaluate, Intake, CreateRule, Begin,
       Transaction, AppendLine, AppendFails, Execute, Save, Commit, Rollback
  <2>2. ctl.stage = "replaced" /\ ~session[t].locked /\ ~LockFree
    BY <2>1 DEF LockInv, LockFree
  <2>3. view' = view
    BY <1>1, <2>2 DEF Operation, Register, Change, Escalate, Reevaluate, Intake, CreateRule, Begin,
       Transaction, AppendLine, AppendFails, Execute, Save, Commit, Rollback, Undone
  <2>. QED
    BY <2>1, <2>3
<1>2. ASSUME NewDay \/ Reconcile
      PROVE  ctl' = ctl /\ view' = view
  BY <1>2 DEF NewDay, Reconcile, ReconcileScan, ReconcileCompare
<1>3. ~LoseIndex /\ ~RebuildKilled /\ ~RebuildFails
  BY CtlIdleTyped, RebuildEnds DEF LoseIndex, RebuildKilled
<1>4. ~RebuildScan /\ ~RebuildCommit /\ \A f \in ctl.todo : ~RebuildSkip(f)
  BY ScanDoes, RebuildCommitDoes, SkipDoes DEF CtlBecomes, RebuildCommit, CtlIdle
<1>5. \A f \in ctl.todo : ~RebuildRead(f)
  <2>1. ASSUME NEW f \in ctl.todo, RebuildRead(f)
        PROVE  ctl'.stage = "reading"
    BY <2>1 DEF RebuildRead, ReadNext, TypeInv, Controller
  <2>. QED
    BY <2>1
<1>. QED
  BY <1>1, <1>2, <1>3, <1>4, <1>5 DEF Next, Rebuild

\* What has been read keeps its places, whatever is written.
LEMMA ReadKeepsPlaces ==
  ASSUME ConstantsAssumption, TypeInv, TypeInv', LockInv, FreshInv, ApartInv, ReadInv, Next,
         NEW todo, todo \subseteq ctl.todo
  PROVE  ReadOrdered(Items', ctl.read["items"], todo)
<1>1. ReadOrdered(Items, ctl.read["items"], ctl.todo)
  BY ReadParts
<1>2. \A n \in DOMAIN ctl.read["items"] : Decodable(ctl.read["items"][n]) =>
        ctl.read["items"][n] \in ItemsSeen
  BY DEF ItemsSeen, Readable
<1>3. \A c \in ItemsSeen : PlacesIn(Items', c) = PlacesIn(Items, c)
  BY PlacesKept, SeenTyped
<1>4. PICK read : read = ctl.read["items"]
  OBVIOUS
<1>5. \A n \in DOMAIN read : Decodable(read[n]) =>
        PlacesIn(Items', read[n]) = PlacesIn(Items, read[n])
  BY <1>2, <1>3, <1>4
<1>6. ReadOrdered(Items', read, todo)
  BY <1>1, <1>4, <1>5 DEF ReadOrdered
<1>. QED
  BY <1>4, <1>6

\* The next file is read: its lines stand behind all that was read.
LEMMA ReadInOrder ==
  ASSUME ConstantsAssumption, TypeInv, OnceInv, ReadInv,
         NEW f \in ctl.todo, RebuildRead(f), f.kind = "items"
  PROVE  ReadOrdered(Items, ctl'.read["items"], ctl.todo \ {f})
<1>1. /\ f \in File /\ ctl'.read["items"] = ctl.read["items"] \o Base("items", f.day)
      /\ ReadNext(f)
  BY ReadDoes DEF RebuildRead
<1>2. PICK read \in Seq(Line("items")) : read = ctl.read["items"]
  BY ItemsTyped DEF TypeInv
<1>3. PICK d \in Day : d = f.day
  BY <1>1 DEF File
<1>4. Items[d] \in Seq(Line("items")) /\ d \in Nat
  BY ItemsTyped DEF ItemFiles, Day
<1>5. PICK base \in Seq(Line("items")) : base = Base("items", d)
  BY <1>4, ItemsTyped, BaseTyped DEF Items
<1>6. \A n \in DOMAIN base : n \in DOMAIN Items[d] /\ base[n] = Items[d][n]
  <2>1. base = Visible(Items[d])
    BY <1>5, ItemsTyped, BaseIsVisible DEF Items
  <2>2. /\ Len(Visible(Items[d])) <= Len(Items[d])
        /\ \A n \in 1..Len(Visible(Items[d])) : Visible(Items[d])[n] = Items[d][n]
    BY <1>4, VisibleLines
  <2>. QED
    BY <1>4, <1>5, <2>1, <2>2
<1>7. PICK all \in Seq(Line("items")) : all = read \o base
  BY ConcatProperties
<1>8. ctl'.read["items"] = all
  BY <1>1, <1>2, <1>3, <1>5, <1>7
<1>9. /\ \A n \in DOMAIN all : n \in Nat
      /\ \A n \in DOMAIN all :
        \/ n \in DOMAIN read /\ all[n] = read[n] /\ n <= Len(read)
        \/ n > Len(read) /\ n - Len(read) \in DOMAIN base /\ all[n] = base[n - Len(read)]
  BY <1>2, <1>5, <1>7, ConcatProperties
<1>10. ReadOrdered(Items, read, ctl.todo)
  BY <1>2, ReadParts
<1>. DEFINE Old(n) == n \in DOMAIN read /\ all[n] = read[n] /\ n <= Len(read)
            New(n) == /\ n > Len(read)
                      /\ Decodable(all[n]) => PlacesIn(Items, all[n]) = {<<d, n - Len(read)>>}
<1>11. \A n \in DOMAIN all : Old(n) \/ New(n)
  <2>1. ASSUME NEW n \in DOMAIN all, n - Len(read) \in DOMAIN base,
               all[n] = base[n - Len(read)], Decodable(all[n])
        PROVE  PlacesIn(Items, all[n]) = {<<d, n - Len(read)>>}
    <3>1. PICK r : r = all[n]
      OBVIOUS
    <3>2. PICK k \in DOMAIN Items[d] : k = n - Len(read) /\ Items[d][k] = r
      BY <1>6, <2>1, <3>1
    <3>3. r \in Record["items"]
      BY <2>1, <3>1, Lines, ItemsTyped
    <3>4. <<d, k>> \in PlacesIn(Items, r)
      BY <3>2, PlacesMember
    <3>5. \A p \in PlacesIn(Items, r) : p = <<d, k>>
      BY <3>3, <3>4, PlacesAre DEF OnceInv
    <3>. QED
      BY <3>1, <3>2, <3>4, <3>5
  <2>. QED
    BY <1>9, <2>1
<1>12. \A n \in DOMAIN all : Old(n) /\ Decodable(all[n]) =>
         PlacesIn(Items, all[n]) # {} /\ \A p \in PlacesIn(Items, all[n]) : p[1] < d
  BY <1>3, <1>10 DEF ReadOrdered
<1>13. \A g \in ctl.todo \ {f} : g.kind = "items" => d < g.day
  <2>1. SUFFICES ASSUME NEW g \in ctl.todo \ {f}, g.kind = "items"
                 PROVE  d < g.day
    OBVIOUS
  <2>2. PathBefore(f, g)
    BY <1>1 DEF ReadNext
  <2>3. ~(PathRank[f.kind] < PathRank[g.kind])
    <3>1. PathRank["items"] = 4
      BY DEF PathRank
    <3>. QED
      BY <2>1, <3>1
  <2>. QED
    BY <1>3, <2>2, <2>3 DEF PathBefore
<1>14. \A g \in ctl.todo : g.kind = "items" => g.day \in Nat
  BY DEF TypeInv, Controller, File, Day
<1>15. \A n \in DOMAIN all : Decodable(all[n]) => PlacesIn(Items, all[n]) # {}
  BY <1>11, <1>12
<1>16. ASSUME NEW m \in DOMAIN all, NEW n \in DOMAIN all, m < n,
              Decodable(all[m]), Decodable(all[n]),
              NEW p \in PlacesIn(Items, all[m]), NEW q \in PlacesIn(Items, all[n])
       PROVE  Before(p, q)
  <2>1. CASE Old(m) /\ Old(n)
    BY <1>10, <1>16, <2>1 DEF ReadOrdered
  <2>2. CASE Old(m) /\ New(n)
    <3>1. p[1] < d /\ q = <<d, n - Len(read)>>
      BY <1>12, <1>16, <2>2
    <3>. QED
      BY <3>1 DEF Before
  <2>3. CASE New(m) /\ New(n)
    <3>1. p = <<d, m - Len(read)>> /\ q = <<d, n - Len(read)>>
      BY <1>16, <2>3
    <3>2. m - Len(read) < n - Len(read)
      BY <1>2, <1>9, <1>16
    <3>. QED
      BY <3>1, <3>2 DEF Before
  <2>4. CASE New(m) /\ Old(n)
    BY <1>2, <1>9, <1>16, <2>4
  <2>. QED
    BY <1>11, <1>16, <2>1, <2>2, <2>3, <2>4
<1>17. ASSUME NEW n \in DOMAIN all, NEW g \in ctl.todo \ {f}, g.kind = "items",
              Decodable(all[n]), NEW p \in PlacesIn(Items, all[n])
       PROVE  p[1] < g.day
  <2>1. CASE Old(n)
    BY <1>10, <1>17, <2>1 DEF ReadOrdered
  <2>2. CASE New(n)
    <3>1. p = <<d, n - Len(read)>>
      BY <1>17, <2>2
    <3>. QED
      BY <1>13, <1>17, <3>1
  <2>. QED
    BY <1>11, <1>17, <2>1, <2>2
<1>18. ReadOrdered(Items, all, ctl.todo \ {f})
  BY <1>15, <1>16, <1>17 DEF ReadOrdered
<1>. QED
  BY <1>8, <1>18

\* What a step does to what the rebuild has read.
LEMMA ReadMoves ==
  ASSUME ConstantsAssumption, TypeInv, Next
  PROVE  \/ ctl'.read["items"] = ctl.read["items"] /\ ctl'.todo \subseteq ctl.todo
         \/ ctl'.read["items"] = <<>>
         \/ \E f \in ctl.todo : RebuildRead(f) /\ f.kind = "items"
<1>0. "items" \in Kind
  BY DEF Kind
<1>1. ASSUME ctl' = ctl
      PROVE  ctl'.read["items"] = ctl.read["items"] /\ ctl'.todo \subseteq ctl.todo
  BY <1>1
<1>2. ASSUME ctl'.read = [k \in Kind |-> <<>>]
      PROVE  ctl'.read["items"] = <<>>
  BY <1>0, <1>2
<1>3. ctl' = ctl \/ LoseIndex \/ Rebuild
  BY DEF Next, Operation, Register, Change, Escalate, Reevaluate, Intake, CreateRule, Begin,
     Transaction, AppendLine, AppendFails, Execute, Save, Commit, Rollback, NewDay,
     Reconcile, ReconcileScan, ReconcileCompare
<1>4. ASSUME LoseIndex
      PROVE  ctl'.read = [k \in Kind |-> <<>>]
  BY <1>4, CtlIdleTyped DEF LoseIndex
<1>5. ASSUME RebuildScan \/ RebuildFails \/ RebuildKilled \/ RebuildCommit
      PROVE  ctl'.read = [k \in Kind |-> <<>>]
  BY <1>5, ScanDoes, RebuildEnds, RebuildCommitDoes
<1>6. ASSUME NEW f \in ctl.todo, RebuildRead(f), f.kind # "items"
      PROVE  ctl'.read["items"] = ctl.read["items"] /\ ctl'.todo \subseteq ctl.todo
  BY <1>0, <1>6, ReadDoes DEF CtlBecomes
<1>7. ASSUME NEW f \in ctl.todo, RebuildSkip(f)
      PROVE  ctl'.read["items"] = ctl.read["items"] /\ ctl'.todo \subseteq ctl.todo
  BY <1>7, SkipDoes DEF CtlBecomes
<1>8. ASSUME RebuildApply
      PROVE  ctl'.read["items"] = ctl.read["items"] /\ ctl'.todo \subseteq ctl.todo
  BY <1>8, RebuildApplyDoes DEF CtlBecomes
<1>. QED
  BY <1>1, <1>2, <1>3, <1>4, <1>5, <1>6, <1>7, <1>8 DEF Rebuild

\* What a rebuild has read stays in the order of the places.
LEMMA ReadStep ==
  ASSUME ConstantsAssumption, TypeInv, TypeInv', LockInv, FreshInv, ApartInv, OnceInv,
         ReadInv, Next
  PROVE  ReadInv'
<1>1. ReadOrdered(Items', ctl'.read["items"], ctl'.todo)
  <2>1. CASE ctl'.read["items"] = ctl.read["items"] /\ ctl'.todo \subseteq ctl.todo
    BY <2>1, ReadKeepsPlaces
  <2>2. CASE ctl'.read["items"] = <<>>
    BY <2>2 DEF ReadOrdered
  <2>3. ASSUME NEW f \in ctl.todo, RebuildRead(f), f.kind = "items"
        PROVE  ReadOrdered(Items', ctl'.read["items"], ctl'.todo)
    <3>1. Items' = Items /\ ctl'.todo = ctl.todo \ {f}
      BY <2>3, ReadDoes DEF RebuildRead, Items, CtlBecomes
    <3>. QED
      BY <2>3, <3>1, ReadInOrder
  <2>. QED
    BY <2>1, <2>2, <2>3, ReadMoves
<1>2. ASSUME ctl'.stage = "replaced"
      PROVE  view'.items = Latest(ctl'.read["items"])
  <2>1. CASE RebuildApply
    BY <2>1, RebuildApplyDoes, RebuiltTables
  <2>2. CASE ctl' = ctl /\ view' = view /\ ctl.stage = "replaced"
    BY <2>2, ReadParts
  <2>. QED
    BY <1>2, <2>1, <2>2, ReplacedStays
<1>. QED
  BY <1>1, <1>2, ReadPartsNext

\* Among the lines read with the key of a row, the last is the one kept.
LEMMA LatestExists ==
  ASSUME NEW k \in Kind, NEW lines \in Seq(Line(k)), NEW n \in DOMAIN lines,
         Decodable(lines[n])
  PROVE  \E m \in DOMAIN lines : /\ n <= m /\ Decodable(lines[m])
                                 /\ lines[m].key = lines[n].key
                                 /\ lines[m] \in Latest(lines)
<1>. DEFINE S == {m \in DOMAIN lines : Decodable(lines[m]) /\ lines[m].key = lines[n].key}
<1>1. S \in SUBSET Nat /\ n \in S /\ Len(lines) \in Nat /\ \A x \in S : x <= Len(lines)
  OBVIOUS
<1>2. PICK m \in S : \A x \in S : x <= m
  BY <1>1, Greatest
<1>3. m \in DOMAIN lines /\ Decodable(lines[m]) /\ lines[m].key = lines[n].key /\ n <= m
  BY <1>1, <1>2
<1>4. \A j \in DOMAIN lines : j > m /\ Decodable(lines[j]) => lines[j].key # lines[m].key
  <2>1. SUFFICES ASSUME NEW j \in DOMAIN lines, j > m, Decodable(lines[j]),
                        lines[j].key = lines[m].key
                 PROVE  FALSE
    OBVIOUS
  <2>2. j \in S
    BY <1>3, <2>1
  <2>3. j <= m /\ j \in Nat /\ m \in Nat
    BY <1>1, <1>2, <2>2
  <2>. QED
    BY <2>1, <2>3
<1>5. lines[m] \in Latest(lines)
  BY <1>3, <1>4 DEF Latest
<1>. QED
  BY <1>3, <1>5

\* The row a rebuild restores is the last committed it has read, or a later one.
LEMMA RebuildKeepsStep ==
  ASSUME ConstantsAssumption, TypeInv, ReadInv, RebuildCommit
  PROVE  \A row \in LastCommitted : WasRead(row) =>
           \E new \in db'.items :
             /\ new.key = row.key
             /\ new = row \/ \A p \in Places(row), q \in Places(new) : Before(p, q)
<1>1. SUFFICES ASSUME NEW row \in LastCommitted, WasRead(row)
               PROVE  \E new \in db'.items :
                        /\ new.key = row.key
                        /\ new = row \/ \A p \in Places(row), q \in Places(new) : Before(p, q)
  OBVIOUS
<1>2. PICK read \in Seq(Line("items")) : read = ctl.read["items"]
  BY ItemsTyped DEF TypeInv
<1>3. PICK n \in DOMAIN read : read[n] = row
  BY <1>1, <1>2 DEF WasRead
<1>4. row \in Record["items"] /\ Decodable(row)
  <2>1. row \in Record["items"]
    BY DEF LastCommitted, TypeInv
  <2>. QED
    BY <2>1, Records DEF Kind
<1>5. PICK m \in DOMAIN read : /\ n <= m /\ Decodable(read[m])
                               /\ read[m].key = row.key /\ read[m] \in Latest(read)
  BY <1>3, <1>4, LatestExists, ItemsTyped
<1>6. db'.items = Latest(read)
  BY <1>2, RebuildCommitDoes, ReadParts
<1>7. m = n \/ n < m
  BY <1>3, <1>5
<1>8. n < m => \A p \in Places(row), q \in Places(read[m]) : Before(p, q)
  BY <1>2, <1>3, <1>4, <1>5 DEF ReadInv
<1>. QED
  BY <1>3, <1>5, <1>6, <1>7, <1>8

(***************************************************************************)
(* The rules, their versions and their audit                               *)
(***************************************************************************)
LEMMA IdsStep ==
  ASSUME ConstantsAssumption, TypeInv, LockInv, StampInv, FreshInv, ApartInv, IdsInv,
         Plans \/ Proceeds \/ Fails \/ Rests
  PROVE  IdsInv'
<1>. DEFINE Owns(s, rules, audit) ==
       /\ AddsRule(s) => \A x \in rules : x[1] = s.row.stamp => x[2] = s.row.key
       /\ AddsAudit(s) => \A a \in audit : a.key = s.row.key => a.rule = s.row.rule
<1>0. \A t \in Thread : \A i \in DOMAIN session[t].todo :
        Owns(session[t].todo[i], RulesSeen, AuditSeen)
  BY DEF IdsInv
<1>q. ASSUME \A x, y \in RulesSeen' : x[1] = y[1] => x[2] = y[2],
             \A a, b \in AuditSeen' : a.key = b.key => a.rule = b.rule,
             \A t \in Thread : \A i \in DOMAIN session'[t].todo :
               Owns(session'[t].todo[i], RulesSeen', AuditSeen')
      PROVE  IdsInv'
  BY <1>q DEF IdsInv
<1>1. ASSUME NEW rules, NEW audit, NEW s, rules \subseteq RulesSeen, audit \subseteq AuditSeen,
             Owns(s, RulesSeen, AuditSeen)
      PROVE  Owns(s, rules, audit)
  BY <1>1
<1>2. ASSUME Unseen
      PROVE  /\ \A x, y \in RulesSeen' : x[1] = y[1] => x[2] = y[2]
             /\ \A a, b \in AuditSeen' : a.key = b.key => a.rule = b.rule
             /\ RulesSeen' \subseteq RulesSeen /\ AuditSeen' \subseteq AuditSeen
  BY <1>2 DEF Unseen, SeenWithin, IdsInv
<1>3. ASSUME Unseen, Dwindle
      PROVE  IdsInv'
  <2>1. \A t \in Thread : \A i \in DOMAIN session'[t].todo :
          Owns(session'[t].todo[i], RulesSeen', AuditSeen')
    BY <1>0, <1>1, <1>2, <1>3 DEF Dwindle
  <2>. QED
    BY <1>2, <1>3, <1>q, <2>1
<1>4. CASE Plans
  <2>1. PICK t \in Thread, todo \in Seq(Statement) :
          Planned(todo) /\ Begin(t, todo) /\ Becomes(t, todo, FALSE, FALSE, FALSE) /\ Unseen
    BY <1>4, PlannedSeq DEF Plans
  <2>2. ASSUME NEW i \in DOMAIN todo
        PROVE  Owns(todo[i], RulesSeen', AuditSeen')
    <3>1. Owns(todo[i], RulesSeen, AuditSeen)
      BY <2>1, <2>2, PlannedNew DEF RuleNew, AuditNew
    <3>. QED
      BY <1>1, <1>2, <2>1, <3>1
  <2>3. ASSUME NEW u \in Thread, NEW i \in DOMAIN session'[u].todo
        PROVE  Owns(session'[u].todo[i], RulesSeen', AuditSeen')
    <3>1. CASE u = t
      BY <2>1, <2>2, <2>3, <3>1 DEF Becomes
    <3>2. CASE u # t
      <4>1. session'[u] = session[u]
        BY <2>1, <3>2 DEF Becomes
      <4>. QED
        BY <1>0, <1>1, <1>2, <2>1, <2>3, <4>1
    <3>. QED
      BY <3>1, <3>2
  <2>. QED
    BY <1>2, <1>q, <2>1, <2>3
<1>5. ASSUME NEW t \in Thread, Connected(t), SeenWithin(ItemOf(t), RuleOf(t), AuditOf(t))
      PROVE  /\ \A x, y \in RulesSeen' : x[1] = y[1] => x[2] = y[2]
             /\ \A a, b \in AuditSeen' : a.key = b.key => a.rule = b.rule
             /\ \A u \in Thread : \A j \in DOMAIN session[u].todo :
                  Owns(session[u].todo[j], RulesSeen', AuditSeen')
  <2>1. /\ 1 \in DOMAIN session[t].todo /\ Current(t) = session[t].todo[1]
        /\ Owns(Current(t), RulesSeen, AuditSeen)
    BY <1>0, <1>5, CurrentStatement DEF Connected
  <2>2. RulesSeen' \subseteq RulesSeen \cup RuleOf(t) /\ AuditSeen' \subseteq AuditSeen \cup AuditOf(t)
    BY <1>5 DEF SeenWithin
  <2>3. \A x, y \in RulesSeen \cup RuleOf(t) : x[1] = y[1] => x[2] = y[2]
    BY SMTT(20), <2>1 DEF RuleOf, IdsInv
  <2>4. \A a, b \in AuditSeen \cup AuditOf(t) : a.key = b.key => a.rule = b.rule
    BY <2>1 DEF AuditOf, IdsInv
  <2>5. ASSUME NEW u \in Thread, NEW j \in DOMAIN session[u].todo
        PROVE  Owns(session[u].todo[j], RulesSeen', AuditSeen')
    <3>. DEFINE s == session[u].todo[j]
    <3>1. CASE u # t
      <4>1. /\ AddsRule(s) /\ AddsRule(Current(t)) => s.row.stamp # Current(t).row.stamp
            /\ AddsAudit(s) /\ AddsAudit(Current(t)) => s.row.key # Current(t).row.key
        BY <2>1, <2>5, <3>1 DEF ApartInv
      <4>2. Owns(s, RuleOf(t), AuditOf(t))
        BY <4>1 DEF RuleOf, AuditOf
      <4>. QED
        BY <1>0, <2>2, <2>5, <4>2
    <3>2. CASE u = t
      <4>1. /\ AddsRule(s) /\ AddsRule(Current(t)) => s = Current(t)
            /\ AddsAudit(s) /\ AddsAudit(Current(t)) => s = Current(t)
        BY <2>1, <2>5, <3>2 DEF ApartInv
      <4>2. Owns(s, RuleOf(t), AuditOf(t))
        BY <4>1 DEF RuleOf, AuditOf
      <4>. QED
        BY <1>0, <2>2, <2>5, <4>2
    <3>. QED
      BY <3>1, <3>2
  <2>. QED
    BY <2>2, <2>3, <2>4, <2>5
<1>6. CASE Proceeds
  <2>1. PICK t \in Thread :
          Connected(t) /\ Advances(t) /\ SeenWithin(ItemOf(t), RuleOf(t), AuditOf(t))
    BY <1>6 DEF Proceeds
  <2>2. session[t].todo # <<>>
    BY <2>1 DEF Connected
  <2>3. \A u \in Thread : \A i \in DOMAIN session'[u].todo : \E j \in DOMAIN session[u].todo :
          session'[u].todo[i] = session[u].todo[j]
    BY <2>1, <2>2, TodoKept
  <2>. QED
    BY <1>5, <1>q, <2>1, <2>3
<1>7. CASE Fails
  <2>1. PICK t \in Thread :
          /\ Connected(t) /\ Becomes(t, <<>>, FALSE, FALSE, FALSE)
          /\ SeenWithin(ItemOf(t), RuleOf(t), AuditOf(t))
    BY <1>7 DEF Fails
  <2>2. \A u \in Thread : \A i \in DOMAIN session'[u].todo :
          i \in DOMAIN session[u].todo /\ session'[u].todo[i] = session[u].todo[i]
    BY <2>1 DEF Becomes
  <2>. QED
    BY <1>5, <1>q, <2>1, <2>2
<1>8. CASE Rests
  BY <1>3, <1>8 DEF Rests
<1>. QED
  BY <1>4, <1>6, <1>7, <1>8

\* A rule is superseded right before its entry in the audit is written.
LEMMA AuditedStep ==
  ASSUME TypeInv, AuditedInv, Plans \/ Proceeds \/ Fails \/ Rests
  PROVE  AuditedInv'
<1>. DEFINE Answered(todo) ==
       \A i \in DOMAIN todo : todo[i].op = "supersede_rule" =>
         /\ i + 1 \in DOMAIN todo /\ AddsAudit(todo[i + 1])
         /\ todo[i + 1].row.rule = todo[i].version
            Later(todo) == \A i \in DOMAIN todo : AddsAudit(todo[i]) => i > 1
<1>0. \A t \in Thread : /\ Answered(session[t].todo)
                        /\ ~session[t].locked => Later(session[t].todo)
  BY DEF AuditedInv
<1>q. (\A t \in Thread : /\ Answered(session'[t].todo)
                         /\ ~session'[t].locked => Later(session'[t].todo)) => AuditedInv'
  BY DEF AuditedInv
<1>e. \A todo : todo = <<>> => Answered(todo) /\ Later(todo)
  OBVIOUS
<1>1. CASE Plans
  <2>1. PICK t \in Thread, todo \in Seq(Statement) : Planned(todo) /\ Becomes(t, todo, FALSE, FALSE, FALSE)
    BY <1>1, PlannedSeq DEF Plans
  <2>2. Answered(todo) /\ Later(todo)
    BY <2>1 DEF Planned
  <2>. QED
    BY <1>0, <1>q, <2>1, <2>2 DEF Becomes
<1>2. CASE Proceeds
  <2>1. PICK t \in Thread : Connected(t) /\ Advances(t)
    BY <1>2 DEF Proceeds
  <2>2. CASE Becomes(t, Tail(session[t].todo), TRUE, TRUE, FALSE)
    <3>1. /\ DOMAIN Tail(session[t].todo) = 1..(Len(session[t].todo) - 1)
          /\ DOMAIN session[t].todo = 1..Len(session[t].todo)
          /\ Len(session[t].todo) \in Nat
          /\ \A i \in DOMAIN Tail(session[t].todo) :
               /\ Tail(session[t].todo)[i] = session[t].todo[i + 1]
               /\ i + 1 \in DOMAIN session[t].todo
      BY <2>1, CurrentStatement DEF Connected
    <3>2. ASSUME NEW i \in DOMAIN Tail(session[t].todo),
                 Tail(session[t].todo)[i].op = "supersede_rule"
          PROVE  /\ i + 1 \in DOMAIN Tail(session[t].todo)
                 /\ AddsAudit(Tail(session[t].todo)[i + 1])
                 /\ Tail(session[t].todo)[i + 1].row.rule = Tail(session[t].todo)[i].version
      <4>1. /\ Tail(session[t].todo)[i] = session[t].todo[i + 1]
            /\ i + 1 \in DOMAIN session[t].todo
        BY <3>1, <3>2
      <4>2. /\ (i + 1) + 1 \in DOMAIN session[t].todo
            /\ AddsAudit(session[t].todo[(i + 1) + 1])
            /\ session[t].todo[(i + 1) + 1].row.rule = session[t].todo[i + 1].version
        BY <1>0, <3>2, <4>1
      <4>3. i + 1 \in DOMAIN Tail(session[t].todo)
        BY <3>1, <3>2, <4>2
      <4>. QED
        BY <3>1, <4>1, <4>2, <4>3
    <3>3. Answered(Tail(session[t].todo))
      BY <3>2
    <3>4. \A u \in Thread : \/ u = t /\ session'[u].todo = Tail(session[t].todo) /\ session'[u].locked
                            \/ /\ session'[u].todo = session[u].todo
                               /\ session'[u].locked = session[u].locked
      BY <2>2 DEF Becomes
    <3>. HIDE DEF Answered, Later
    <3>5. ASSUME NEW u \in Thread
          PROVE  Answered(session'[u].todo) /\ (~session'[u].locked => Later(session'[u].todo))
      BY <1>0, <3>3, <3>4
    <3>. QED
      BY <1>q, <3>5
  <2>3. CASE Becomes(t, session[t].todo, TRUE, FALSE, TRUE) /\ ~session[t].locked
    BY <1>0, <1>q, <2>3 DEF Becomes
  <2>. QED
    BY <2>1, <2>2, <2>3 DEF Advances
<1>3. CASE Fails \/ Rests
  <2>1. Dwindle
    BY <1>3 DEF Fails, Rests, Dwindle, Becomes
  <2>. QED
    BY <1>0, <1>e, <1>q, <2>1 DEF Dwindle
<1>. QED
  BY <1>1, <1>2, <1>3

(***************************************************************************)
(* The lines of the rules are active: only the index retires a rule        *)
(***************************************************************************)
LEMMA ReadWithinStep ==
  ASSUME ConstantsAssumption, TypeInv, Next
  PROVE  ReadWithin
<1>1. ctl' = ctl \/ LoseIndex \/ Rebuild
  BY DEF Next, Operation, Register, Change, Escalate, Reevaluate, Intake, CreateRule, Begin,
     Transaction, AppendLine, AppendFails, Execute, Save, Commit, Rollback, NewDay,
     Reconcile, ReconcileScan, ReconcileCompare
<1>2. CASE ctl' = ctl
  BY <1>2, ReadSame
<1>3. CASE LoseIndex
  BY <1>3, CtlIdleTyped, ReadSame DEF LoseIndex
<1>4. CASE RebuildScan \/ RebuildFails \/ RebuildKilled \/ RebuildCommit \/ RebuildApply
  BY <1>4, ScanDoes, RebuildEnds, RebuildCommitDoes, RebuildApplyDoes, ReadSame
<1>5. ASSUME NEW f \in ctl.todo, RebuildSkip(f)
      PROVE  ReadWithin
  BY <1>5, SkipDoes, ReadSame
<1>6. ASSUME NEW f \in ctl.todo, RebuildRead(f)
      PROVE  ReadWithin
  <2>1. /\ f \in File
        /\ \A k \in Kind \ {f.kind} : ctl'.read[k] = ctl.read[k]
        /\ ctl'.read[f.kind] = ctl.read[f.kind] \o Base(f.kind, f.day)
    BY <1>6, ReadDoes
  <2>2. PICK j \in Kind, d \in Day : j = f.kind /\ d = f.day
    BY <2>1 DEF File
  <2>3. ctl.read[j] \in Seq(Line(j)) /\ shards[j][d] \in Seq(Line(j)) /\ Base(j, d) \in Seq(Line(j))
    BY BaseTyped DEF TypeInv
  <2>4. Readable(Base(j, d)) \subseteq LinesOf(j)
    BY <2>3, BaseIsVisible, ReadableVisible DEF LinesOf
  <2>5. Readable(ctl.read[j] \o Base(j, d)) \subseteq Readable(ctl.read[j]) \cup LinesOf(j)
    BY <2>3, <2>4, ReadableConcat
  <2>. QED
    BY <2>1, <2>2, <2>5 DEF ReadWithin
<1>. QED
  BY <1>1, <1>2, <1>3, <1>4, <1>5, <1>6 DEF Rebuild

\* The lines a step adds.
LEMMA LinesStep ==
  ASSUME TypeInv, TypeInv', Next, NEW k \in Kind
  PROVE  \/ LinesOf(k)' \subseteq LinesOf(k)
         \/ \E t \in Thread :
              /\ WritesLine(t) /\ Connected(t) /\ HasLine(Current(t)) /\ Current(t).kind = k
              /\ LinesOf(k)' \subseteq LinesOf(k) \cup {Current(t).row}
<1>1. ASSUME NEW t \in Thread, AppendLine(t) \/ Save(t)
      PROVE  \/ LinesOf(k)' \subseteq LinesOf(k)
             \/ /\ WritesLine(t) /\ Connected(t) /\ HasLine(Current(t)) /\ Current(t).kind = k
                /\ LinesOf(k)' \subseteq LinesOf(k) \cup {Current(t).row}
  <2>1. Connected(t) /\ HasLine(Current(t)) /\ session[t].todo # <<>>
    BY <1>1 DEF AppendLine, Save, Connected
  <2>2. PICK j \in Kind, d \in Day : j = Current(t).kind /\ d = DayOf(Current(t))
    BY <2>1, CurrentStatement, LineGoesTo
  <2>3. Appends(j, d, Current(t).row) \/ Spoils(j, d)
    BY <1>1, <2>1, <2>2, WriteStep DEF AppendLine, Save
  <2>4. /\ \A i \in Kind \ {j} : LinesOf(i)' = LinesOf(i)
        /\ LinesOf(j)' \subseteq LinesOf(j) \cup {Current(t).row}
    BY <2>3, LinesGrow
  <2>. QED
    BY <1>1, <2>1, <2>2, <2>4 DEF WritesLine
<1>2. ASSUME NEW t \in Thread, AppendFails(t)
      PROVE  LinesOf(k)' \subseteq LinesOf(k)
  <2>1. PICK j \in Kind, d \in Day : j = Current(t).kind /\ d = DayOf(Current(t))
    BY <1>2, FailedWriteStep
  <2>2. shards' = shards \/ Appends(j, d, Torn)
    BY <1>2, <2>1, FailedWriteStep
  <2>3. shards' = shards => LinesOf(k)' \subseteq LinesOf(k)
    BY DEF LinesOf, Readable
  <2>4. Appends(j, d, Torn) => LinesOf(k)' \subseteq LinesOf(k)
    BY LinesGrow
  <2>. QED
    BY <2>2, <2>3, <2>4
<1>3. shards' = shards \/ \E t \in Thread : AppendLine(t) \/ Save(t) \/ AppendFails(t)
  BY DEF Next, Operation, Register, Change, Escalate, Reevaluate, Intake, CreateRule, Begin,
     Transaction, Execute, Commit, Rollback, NewDay, LoseIndex, Rebuild, RebuildScan,
     RebuildRead, RebuildSkip, RebuildFails, RebuildApply, RebuildCommit, RebuildKilled,
     Reconcile, ReconcileScan, ReconcileCompare
<1>4. shards' = shards => LinesOf(k)' \subseteq LinesOf(k)
  BY DEF LinesOf, Readable
<1>. QED
  BY <1>1, <1>2, <1>3, <1>4

\* No line of a rule ever says that it is inactive.
LEMMA ActiveStep ==
  ASSUME ConstantsAssumption, TypeInv, TypeInv', StampInv, ActiveInv, Next
  PROVE  ActiveInv'
<1>0. "rules" \in Kind
  BY DEF Kind
<1>1. \A r \in LinesOf("rules")' : r.active
  <2>1. ASSUME NEW t \in Thread, Connected(t), HasLine(Current(t)), Current(t).kind = "rules"
        PROVE  Current(t).row.active
    <3>1. /\ Current(t) \in Statement /\ Current(t) = session[t].todo[1]
          /\ 1 \in DOMAIN session[t].todo
      BY <2>1, CurrentStatement DEF Connected
    <3>2. AddsRule(Current(t))
      BY <2>1, <3>1, Statements DEF AddsRule, HasLine
    <3>. QED
      BY <3>1, <3>2 DEF StampInv
  <2>. QED
    BY <1>0, <2>1, LinesStep DEF ActiveInv
<1>2. Readable(ctl'.read["rules"]) \subseteq Readable(ctl.read["rules"]) \cup LinesOf("rules")
  BY <1>0, ReadWithinStep DEF ReadWithin
<1>3. \A r \in Readable(ctl'.read["rules"]) : r.active
  BY <1>2 DEF ActiveInv
<1>4. Readable(ctl.read["rules"])' = Readable(ctl'.read["rules"])
  BY DEF Readable
<1>. QED
  BY <1>1, <1>3, <1>4 DEF ActiveInv

(***************************************************************************)
(* One row for each version, and none goes before the rebuild is over      *)
(***************************************************************************)
OneEach(rules) == \A r, q \in rules : r.key = q.key => r = q

\* Superseding keeps one row for each version.
LEMMA RetiredOneEach ==
  ASSUME NEW rules \in SUBSET Record.rules, NEW versions, OneEach(rules)
  PROVE  OneEach(Retire(rules, versions)) /\ Keys(rules) \subseteq Keys(Retire(rules, versions))
<1>1. SUFFICES ASSUME NEW r \in Retire(rules, versions), NEW q \in Retire(rules, versions),
                      r.key = q.key
               PROVE  r = q
  <2>1. Keys(rules) \subseteq Keys(Retire(rules, versions))
    <3>1. \A q \in rules : \E r \in Retire(rules, versions) : r.key = q.key
      BY RetiredRules
    <3>. QED
      BY <3>1 DEF Keys
  <2>. QED
    BY <2>1 DEF OneEach
<1>2. PICK a \in rules : r.key = a.key /\ r = IF a.key \in versions THEN [a EXCEPT !.active = FALSE] ELSE a
  <2>1. PICK a \in rules : r = IF a.key \in versions THEN [a EXCEPT !.active = FALSE] ELSE a
    BY DEF Retire
  <2>2. r.key = a.key
    BY <2>1 DEF Record
  <2>. QED
    BY <2>1, <2>2
<1>3. PICK b \in rules : q.key = b.key /\ q = IF b.key \in versions THEN [b EXCEPT !.active = FALSE] ELSE b
  <2>1. PICK b \in rules : q = IF b.key \in versions THEN [b EXCEPT !.active = FALSE] ELSE b
    BY DEF Retire
  <2>2. q.key = b.key
    BY <2>1 DEF Record
  <2>. QED
    BY <2>1, <2>2
<1>4. a = b
  BY <1>1, <1>2, <1>3 DEF OneEach
<1>. QED
  BY <1>2, <1>3, <1>4

\* Each version is in the index once; what was committed is not deleted before.
LEMMA KeysStep ==
  ASSUME ConstantsAssumption, TypeInv, LockInv, KeysInv, Next
  PROVE  KeysInv'
<1>0. /\ OneEach(db.rules) /\ OneEach(view.rules) /\ Keys(db.rules) \subseteq Keys(view.rules)
      /\ db.rules \in SUBSET Record.rules /\ view.rules \in SUBSET Record.rules
  BY DEF KeysInv, OneEach, TypeInv, Tables
<1>q. OneEach(db'.rules) /\ OneEach(view'.rules) /\ Keys(db'.rules) \subseteq Keys(view'.rules)
        => KeysInv'
  BY DEF KeysInv, OneEach, Keys
<1>1. CASE TablesKept
  BY <1>0, <1>1, <1>q DEF TablesKept
<1>2. CASE TablesCommitted
  BY <1>0, <1>2, <1>q DEF TablesCommitted
<1>3. CASE TablesCarried
  <2>1. PICK t \in Thread : Connected(t) /\ Carried(t)
    BY <1>3 DEF TablesCarried
  <2>2. PICK s \in Statement : s = Current(t)
    BY <2>1, CurrentStatement DEF Connected
  <2>3. AppliedTo(view, s, view') /\ ~Violates(view, s) /\ db' = db
    BY <1>3, <2>1, <2>2 DEF Carried, TablesCarried
  <2>4. Keys(view.rules) \subseteq Keys(view'.rules)
    BY <2>3, KeysKept DEF TypeInv
  <2>5. OneEach(view'.rules)
    <3>1. CASE s.op = "supersede_rule"
      <4>1. PICK versions : versions = {s.version}
        OBVIOUS
      <4>2. view'.rules = Retire(view.rules, versions)
        BY <2>3, <3>1, <4>1 DEF AppliedTo
      <4>. QED
        BY <1>0, <4>2, RetiredOneEach
    <3>2. CASE AddsRule(s)
      <4>1. view'.rules = view.rules \cup {s.row} /\ s.row.key \notin Keys(view.rules)
        BY <2>3, <3>2 DEF AppliedTo, AddsRule, Violates
      <4>. QED
        BY <1>0, <4>1 DEF OneEach, Keys
    <3>3. CASE ~AddsRule(s) /\ s.op # "supersede_rule"
      BY <1>0, <2>3, <3>3 DEF AppliedTo
    <3>. QED
      BY <3>1, <3>2, <3>3
  <2>. QED
    BY <1>0, <1>q, <2>3, <2>4, <2>5
<1>4. CASE LoseIndex
  BY <1>4, <1>q, EmptyTables DEF LoseIndex, OneEach, Keys
<1>5. CASE RebuildApply
  <2>1. view' = Rebuilt /\ db' = db /\ ~VersionTaken
    BY <1>5, RebuildApplyDoes DEF RebuildApply
  <2>2. PICK latest : latest = Latest(ctl.read["rules"])
    OBVIOUS
  <2>3. PICK rules : rules = view.rules \cup latest
    OBVIOUS
  <2>4. PICK versions : versions = {a.rule : a \in Latest(ctl.read["audit"])}
    OBVIOUS
  <2>5. view'.rules = Retire(rules, versions)
    BY <2>1, <2>2, <2>3, <2>4, RebuiltTables
  <2>6. "rules" \in Kind /\ ctl.read["rules"] \in Seq(Line("rules"))
    BY DEF TypeInv, Kind
  <2>7. latest \in SUBSET Record.rules
    <3>1. latest \subseteq Readable(ctl.read["rules"])
          /\ Readable(ctl.read["rules"]) \in SUBSET Record["rules"]
      BY <2>2, <2>6, ReadableLines
    <3>. QED
      BY <3>1
  <2>8. OneEach(latest)
    BY <2>2, <2>6, LatestByKey DEF OneEach
  <2>9. Keys(latest) \cap Keys(view.rules) = {}
    BY <2>1, <2>2 DEF VersionTaken, Collected
  <2>10. OneEach(rules)
    BY <1>0, <2>3, <2>8, <2>9 DEF OneEach, Keys
  <2>11. rules \in SUBSET Record.rules
    BY <1>0, <2>3, <2>7
  <2>12. OneEach(view'.rules) /\ Keys(rules) \subseteq Keys(view'.rules)
    BY <2>5, <2>10, <2>11, RetiredOneEach
  <2>13. Keys(view.rules) \subseteq Keys(rules)
    BY <2>3 DEF Keys
  <2>. QED
    BY <1>0, <1>q, <2>1, <2>12, <2>13
<1>6. CASE RebuildCommit
  BY <1>0, <1>6, <1>q, RebuildCommitDoes
<1>. QED
  BY <1>1, <1>2, <1>3, <1>4, <1>5, <1>6, TablesMove

(***************************************************************************)
(* While the audit is whole                                                *)
(***************************************************************************)
NoneTorn == \A d \in Day : \A n \in DOMAIN shards["audit"][d] : shards["audit"][d][n] # Torn

ReadKnown == Readable(ctl.read["audit"]) \subseteq LinesOf("audit")

RetiredAudited == \A x \in RulesSeen : x[1] \in retired => AuditOn(x[2])

RetiredFound ==
  ctl.stage = "reading" => \A x \in RulesSeen : x[1] \in retired =>
    x[2] \in Keys(db.rules) \/ AuditRead(x[2]) \/ AuditToRead(x[2])

InactiveAudited == \A r \in db.rules : ~r.active => AuditOn(r.key)

AuditPending(v) ==
  \E t \in Thread : session[t].locked /\ \E i \in DOMAIN session[t].todo :
     AddsAudit(session[t].todo[i]) /\ session[t].todo[i].row.rule = v

InactivePending == \A r \in view.rules : ~r.active => AuditOn(r.key) \/ AuditPending(r.key)

RetiredInactive == \A r \in db.rules \cup view.rules : r.stamp \in retired => ~r.active

\* The parts of RetireInv.
LEMMA RetireParts ==
  RetireInv <=>
    (AuditFull => NoneTorn /\ ReadKnown /\ RetiredAudited /\ RetiredFound
                    /\ InactiveAudited /\ InactivePending /\ RetiredInactive)
  BY DEF RetireInv, NoneTorn, ReadKnown, RetiredAudited, RetiredFound, InactiveAudited,
     InactivePending, AuditPending, RetiredInactive

LEMMA RetirePartsNext ==
  ASSUME AuditFull' => NoneTorn' /\ ReadKnown' /\ RetiredAudited' /\ RetiredFound'
                    /\ InactiveAudited' /\ InactivePending' /\ RetiredInactive'
  PROVE  RetireInv'
  BY DEF RetireInv, NoneTorn, ReadKnown, RetiredAudited, RetiredFound, InactiveAudited,
     InactivePending, AuditPending, RetiredInactive

\* The lines of the audit a step keeps.
LEMMA AuditStaysFull ==
  ASSUME ConstantsAssumption, TypeInv, TypeInv', Next, AuditFull'
  PROVE  AuditFull /\ faults' = faults
<1>1. faults \in Nat /\ faults' \in Nat
  BY DEF TypeInv, ConstantsAssumption
<1>2. faults' = faults \/ faults' = faults + 1
  BY ZenonT(40) DEF Next, Operation, Register, Change, Escalate, Reevaluate, Intake, CreateRule, Begin,
     Transaction, AppendLine, AppendFails, Execute, Save, Commit, Rollback, NewDay, LoseIndex,
     Rebuild, RebuildScan, RebuildRead, RebuildSkip, RebuildFails, RebuildApply, RebuildCommit,
     RebuildKilled, Reconcile, ReconcileScan, ReconcileCompare
<1>3. faults' = 0
  BY DEF AuditFull
<1>4. faults = 0
  BY <1>1, <1>2, <1>3
<1>5. ASSUME NEW d \in Day
      PROVE  Base("audit", d) = shards["audit"][d]
  <2>1. PICK k \in Kind : k = "audit"
    BY DEF Kind
  <2>2. PICK old \in Seq(Line(k)) : old = shards[k][d]
    BY DEF TypeInv
  <2>3. PICK new \in Seq(Line(k)) : new = shards'[k][d]
    BY DEF TypeInv
  <2>4. Visible(new) = new
    <3>1. Base(k, d)' = shards'[k][d]
      BY <2>1 DEF AuditFull
    <3>2. Base(k, d)' = Visible(new)
      BY <2>3 DEF Base, Visible
    <3>. QED
      BY <2>3, <3>1, <3>2
  <2>5. ShardLines = 0 \/ Len(new) <= ShardLines
    BY <2>4, VisibleLines
  <2>6. Len(old) <= Len(new)
    BY <2>2, <2>3, FilesGrow DEF Grown
  <2>7. ShardLines = 0 \/ Len(old) <= ShardLines
    BY <2>5, <2>6 DEF ConstantsAssumption
  <2>8. Visible(old) = old
    BY <2>7, VisibleLines
  <2>. QED
    BY <2>1, <2>2, <2>8, BaseIsVisible
<1>. QED
  BY <1>3, <1>4, <1>5 DEF AuditFull

\* A whole file of the audit loses no line.
LEMMA AuditLinesKept ==
  ASSUME TypeInv, TypeInv', Next, NoneTorn
  PROVE  LinesOf("audit") \subseteq LinesOf("audit")'
<1>1. PICK k \in Kind : k = "audit"
  BY DEF Kind
<1>2. ASSUME NEW d \in Day, NEW a \in Readable(shards[k][d])
      PROVE  a \in Readable(shards'[k][d])
  <2>1. PICK old \in Seq(Line(k)) : old = shards[k][d]
    BY DEF TypeInv
  <2>2. PICK new \in Seq(Line(k)) : new = shards'[k][d]
    BY DEF TypeInv
  <2>3. PICK n \in DOMAIN old : a = old[n] /\ Decodable(old[n])
    BY <1>2, <2>1 DEF Readable
  <2>4. old[n] # Torn
    BY <1>1, <2>1 DEF NoneTorn
  <2>5. Grown(old, new)
    BY <2>1, <2>2, FilesGrow
  <2>6. n \in DOMAIN new /\ new[n] = old[n]
    BY <2>4, <2>5 DEF Grown
  <2>. QED
    BY <2>2, <2>3, <2>6 DEF Readable
<1>3. LinesOf(k)' = UNION {Readable(shards'[k][d]) : d \in Day}
  BY DEF LinesOf, Readable
<1>. QED
  BY <1>1, <1>2, <1>3 DEF LinesOf

\* And an entry that is written is readable.
LEMMA AuditWrites ==
  ASSUME TypeInv, TypeInv', NoneTorn, NEW t \in Thread, AppendLine(t) \/ Save(t)
  PROVE  /\ NoneTorn'
         /\ AddsAudit(Current(t)) => Current(t).row \in LinesOf("audit")'
<1>1. Connected(t) /\ HasLine(Current(t)) /\ session[t].todo # <<>>
  BY DEF AppendLine, Save, Connected
<1>2. PICK j \in Kind, d \in Day : j = Current(t).kind /\ d = DayOf(Current(t))
  BY <1>1, CurrentStatement, LineGoesTo
<1>3. PICK row \in Record[j] : row = Current(t).row
  BY <1>1, <1>2, CurrentStatement, LineGoesTo
<1>4. CASE j # "audit"
  <2>1. Appends(j, d, row) \/ Spoils(j, d)
    BY <1>1, <1>2, <1>3, WriteStep DEF AppendLine, Save
  <2>2. \A e \in Day : shards'["audit"][e] = shards["audit"][e]
    BY <1>4, <2>1 DEF Appends, Spoils, OthersKept, Kind
  <2>. QED
    BY <1>2, <1>4, <2>2 DEF NoneTorn, AddsAudit
<1>5. CASE j = "audit"
  <2>1. Appends(j, d, row)
    <3>1. \A n \in DOMAIN shards[j][d] : shards[j][d][n] # Torn
      BY <1>5 DEF NoneTorn
    <3>. QED
      BY <1>1, <1>2, <1>3, <3>1, WriteStep DEF AppendLine, Save
  <2>2. PICK old \in Seq(Line(j)) : old = shards[j][d]
    BY DEF TypeInv
  <2>3. PICK new \in Seq(Line(j)) : new = shards'[j][d]
    BY DEF TypeInv
  <2>4. Appended(old, new, row)
    BY <2>1, <2>2, <2>3 DEF Appends
  <2>5. Decodable(row) /\ row # Torn
    BY Records, Damaged
  <2>6. /\ \A n \in DOMAIN new : new[n] = row \/ (n \in DOMAIN old /\ new[n] = old[n])
        /\ Len(old) + 1 \in DOMAIN new /\ new[Len(old) + 1] = row
    BY <2>4 DEF Appended
  <2>7. \A n \in DOMAIN new : new[n] # Torn
    BY <1>5, <2>2, <2>5, <2>6 DEF NoneTorn
  <2>8. NoneTorn'
    BY <1>5, <2>1, <2>3, <2>7 DEF NoneTorn, Appends, OthersKept
  <2>9. row \in Readable(new)
    BY <2>5, <2>6 DEF Readable
  <2>10. row \in LinesOf(j)'
    <3>1. LinesOf(j)' = UNION {Readable(shards'[j][e]) : e \in Day}
      BY DEF LinesOf, Readable
    <3>. QED
      BY <2>3, <2>9, <3>1
  <2>. QED
    BY <1>3, <1>5, <2>8, <2>10
<1>. QED
  BY <1>4, <1>5

\* Without a fault no line of the audit is torn.
LEMMA NoneTornStep ==
  ASSUME TypeInv, TypeInv', Next, NoneTorn, faults' = faults
  PROVE  NoneTorn'
<1>1. shards' = shards \/ \E t \in Thread : AppendLine(t) \/ Save(t) \/ AppendFails(t)
  BY DEF Next, Operation, Register, Change, Escalate, Reevaluate, Intake, CreateRule, Begin,
     Transaction, Execute, Commit, Rollback, NewDay, LoseIndex, Rebuild, RebuildScan,
     RebuildRead, RebuildSkip, RebuildFails, RebuildApply, RebuildCommit, RebuildKilled,
     Reconcile, ReconcileScan, ReconcileCompare
<1>2. \A t \in Thread : ~AppendFails(t)
  BY DEF AppendFails, TypeInv
<1>3. shards' = shards => NoneTorn'
  BY DEF NoneTorn
<1>. QED
  BY <1>1, <1>2, <1>3, AuditWrites

\* What was read of the audit is in its files.
LEMMA ReadKnownStep ==
  ASSUME ConstantsAssumption, TypeInv, TypeInv', Next, NoneTorn, ReadKnown
  PROVE  ReadKnown'
<1>1. Readable(ctl'.read["audit"]) \subseteq Readable(ctl.read["audit"]) \cup LinesOf("audit")
  BY ReadWithinStep DEF ReadWithin, Kind
<1>2. Readable(ctl.read["audit"])' = Readable(ctl'.read["audit"])
  BY DEF Readable
<1>. QED
  BY <1>1, <1>2, AuditLinesKept DEF ReadKnown

\* An entry of the audit stays.
LEMMA AuditOnKept ==
  ASSUME TypeInv, TypeInv', Next, NoneTorn, NEW v, AuditOn(v)
  PROVE  AuditOn(v)'
<1>1. PICK a \in LinesOf("audit") : a.rule = v
  BY DEF AuditOn
<1>2. a \in LinesOf("audit")'
  BY AuditLinesKept
<1>. QED
  BY <1>1, <1>2 DEF AuditOn

(***************************************************************************)
(* Every rule that was superseded has its entry in the audit               *)
(***************************************************************************)

\* The stamps a commit retires.
LEMMA RetiresOnly ==
  ASSUME Next
  PROVE  retired' = retired \/ \E t \in Thread : Commit(t)
BY ZenonT(40) DEF Next, Operation, Register, Change, Escalate, Reevaluate, Intake, CreateRule, Begin,
   Transaction, AppendLine, AppendFails, Execute, Save, Rollback, NewDay, LoseIndex,
   Rebuild, RebuildScan, RebuildRead, RebuildSkip, RebuildFails, RebuildApply, RebuildCommit,
   RebuildKilled, Reconcile, ReconcileScan, ReconcileCompare, history

\* What a transaction has superseded when it commits is in the audit.
LEMMA CommitAudited ==
  ASSUME TypeInv, LockInv, InactivePending, NEW t \in Thread, Commit(t),
         NEW r \in view.rules, ~r.active
  PROVE  AuditOn(r.key)
<1>1. session[t].locked /\ session[t].todo = <<>>
  BY DEF Commit
<1>2. ~AuditPending(r.key)
  <2>1. SUFFICES ASSUME NEW u \in Thread, session[u].locked, NEW i \in DOMAIN session[u].todo
                 PROVE  FALSE
    BY DEF AuditPending
  <2>2. u = t
    BY <1>1, <2>1 DEF LockInv
  <2>. QED
    BY <1>1, <2>1, <2>2
<1>. QED
  BY <1>2 DEF InactivePending

\* A retired rule was retired before, or by this commit, which has audited it.
LEMMA RetiredKnown ==
  ASSUME TypeInv, LockInv, FreshInv, IdsInv, InactivePending, Next,
         Plans \/ Proceeds \/ Fails \/ Rests,
         NEW x \in RulesSeen', x[1] \in retired'
  PROVE  /\ x \in RulesSeen
         /\ \/ x[1] \in retired
            \/ AuditOn(x[2]) /\ x[2] \in Keys(view.rules) /\ \E t \in Thread : Commit(t)
<1>1. ASSUME NEW t \in Thread, Commit(t)
      PROVE  x \in RulesSeen /\ (x[1] \in retired \/ (AuditOn(x[2]) /\ x[2] \in Keys(view.rules)))
  <2>1. /\ shards' = shards /\ ctl' = ctl /\ view' = view /\ db' = view
        /\ retired' = retired \cup {r.stamp : r \in {y \in view.rules \ db.rules : ~y.active}}
    BY <1>1 DEF Commit
  <2>2. RulesSeen' \subseteq RulesSeen
    BY <2>1 DEF RulesSeen, LinesOf, Readable, Ids
  <2>3. ASSUME x[1] \notin retired
        PROVE  AuditOn(x[2]) /\ x[2] \in Keys(view.rules)
    <3>1. PICK r \in view.rules : ~r.active /\ r.stamp = x[1]
      BY <2>1, <2>3
    <3>2. AuditOn(r.key)
      BY <1>1, <3>1, CommitAudited
    <3>3. <<r.stamp, r.key>> \in RulesSeen
      BY DEF RulesSeen, Ids
    <3>4. PICK y \in RulesSeen : y[1] = r.stamp /\ y[2] = r.key
      BY <3>3
    <3>5. x[2] = r.key
      BY <2>2, <3>1, <3>4 DEF IdsInv
    <3>. QED
      BY <3>2, <3>5 DEF Keys
  <2>. QED
    BY <2>2, <2>3
<1>2. ASSUME retired' = retired, x \notin RulesSeen
      PROVE  FALSE
  <2>1. PICK t \in Thread : Connected(t) /\ SeenWithin(ItemOf(t), RuleOf(t), AuditOf(t))
    <3>1. ~Plans /\ ~Rests
      BY <1>2 DEF Plans, Rests, Unseen, SeenWithin
    <3>. QED
      BY <3>1 DEF Proceeds, Fails
  <2>2. /\ Current(t) = session[t].todo[1] /\ 1 \in DOMAIN session[t].todo
    BY <2>1, CurrentStatement DEF Connected
  <2>3. AddsRule(Current(t)) /\ x[1] = Current(t).row.stamp
    BY <1>2, <2>1 DEF SeenWithin, RuleOf
  <2>4. Current(t).row.stamp \notin retired
    BY <2>2, <2>3 DEF FreshInv
  <2>. QED
    BY <1>2, <2>3, <2>4
<1>. QED
  BY <1>1, <1>2, RetiresOnly

\* Every retired rule has its entry.
LEMMA RetiredAuditedStep ==
  ASSUME TypeInv, TypeInv', LockInv, FreshInv, IdsInv, Next, NoneTorn,
         Plans \/ Proceeds \/ Fails \/ Rests, RetiredAudited, InactivePending
  PROVE  RetiredAudited'
<1>1. SUFFICES ASSUME NEW x \in RulesSeen', x[1] \in retired'
               PROVE  AuditOn(x[2])'
  BY DEF RetiredAudited
<1>2. AuditOn(x[2])
  BY <1>1, RetiredKnown DEF RetiredAudited
<1>. QED
  BY <1>2, AuditOnKept

(***************************************************************************)
(* What a rebuild reads of it                                              *)
(***************************************************************************)
LEMMA ReadableConcatAll ==
  ASSUME NEW k \in Kind, NEW a \in Seq(Line(k)), NEW b \in Seq(Line(k))
  PROVE  Readable(a) \cup Readable(b) \subseteq Readable(a \o b)
<1>1. ASSUME NEW n \in DOMAIN a
      PROVE  n \in DOMAIN (a \o b) /\ (a \o b)[n] = a[n]
  OBVIOUS
<1>2. ASSUME NEW n \in DOMAIN b
      PROVE  Len(a) + n \in DOMAIN (a \o b) /\ (a \o b)[Len(a) + n] = b[n]
  OBVIOUS
<1>3. ASSUME NEW x \in Readable(a)
      PROVE  x \in Readable(a \o b)
  <2>1. PICK n \in DOMAIN a : x = a[n] /\ Decodable(a[n])
    BY <1>3 DEF Readable
  <2>2. PICK m \in DOMAIN (a \o b) : (a \o b)[m] = x
    BY <1>1, <2>1
  <2>. QED
    BY <2>1, <2>2 DEF Readable
<1>4. ASSUME NEW x \in Readable(b)
      PROVE  x \in Readable(a \o b)
  <2>1. PICK n \in DOMAIN b : x = b[n] /\ Decodable(b[n])
    BY <1>4 DEF Readable
  <2>2. PICK m \in DOMAIN (a \o b) : (a \o b)[m] = x
    BY <1>2, <2>1
  <2>. QED
    BY <2>1, <2>2 DEF Readable
<1>. QED
  BY <1>3, <1>4

\* The entry of a rule is read, or is in a file that will be.
LEMMA ScanFinds ==
  ASSUME TypeInv, RebuildScan, NEW v, AuditOn(v)
  PROVE  AuditToRead(v)'
<1>1. PICK d \in Day : \E a \in Readable(shards["audit"][d]) : a.rule = v
  BY DEF AuditOn, LinesOf
<1>2. shards["audit"][d] # <<>>
  BY <1>1 DEF Readable
<1>3. PICK f \in File : f.kind = "audit" /\ f.day = d
  <2>1. [kind |-> "audit", day |-> d] \in File
    BY DEF File, Kind
  <2>. QED
    BY <2>1
<1>4. f \in Listed
  BY <1>2, <1>3 DEF Listed
<1>5. ctl'.todo = Listed /\ shards' = shards
  BY ScanDoes DEF CtlBecomes, RebuildScan
<1>. QED
  BY <1>1, <1>3, <1>4, <1>5 DEF AuditToRead, Readable

\* Reading a file finds the entries that are in it.
LEMMA ReadFinds ==
  ASSUME ConstantsAssumption, TypeInv, AuditFull, NEW f \in ctl.todo, RebuildRead(f),
         NEW v, AuditRead(v) \/ AuditToRead(v)
  PROVE  AuditRead(v)' \/ AuditToRead(v)'
<1>1. /\ f \in File /\ ctl'.todo = ctl.todo \ {f} /\ shards' = shards
      /\ \A k \in Kind \ {f.kind} : ctl'.read[k] = ctl.read[k]
      /\ ctl'.read[f.kind] = ctl.read[f.kind] \o Base(f.kind, f.day)
  BY ReadDoes DEF CtlBecomes, RebuildRead
<1>2. PICK j \in Kind, d \in Day : j = f.kind /\ d = f.day
  BY <1>1 DEF File
<1>3. PICK k \in Kind : k = "audit"
  BY DEF Kind
<1>4. AuditRead(v)' <=> \E a \in Readable(ctl'.read[k]) : a.rule = v
  BY <1>3 DEF AuditRead, Readable
<1>5. AuditToRead(v)' <=>
        \E g \in ctl'.todo : g.kind = "audit" /\ \E a \in Readable(shards["audit"][g.day]) : a.rule = v
  BY <1>1 DEF AuditToRead, Readable
<1>6. CASE j # k
  <2>1. AuditRead(v) => AuditRead(v)'
    BY <1>1, <1>2, <1>3, <1>4, <1>6 DEF AuditRead
  <2>2. AuditToRead(v) => AuditToRead(v)'
    BY <1>1, <1>2, <1>3, <1>5, <1>6 DEF AuditToRead
  <2>. QED
    BY <2>1, <2>2
<1>7. CASE j = k
  <2>1. ctl.read[k] \in Seq(Line(k)) /\ shards[k][d] \in Seq(Line(k)) /\ Base(k, d) = shards[k][d]
    BY <1>3 DEF TypeInv, AuditFull
  <2>2. Readable(ctl.read[k]) \cup Readable(shards[k][d]) \subseteq Readable(ctl'.read[k])
    <3>1. ctl'.read[k] = ctl.read[k] \o shards[k][d]
      BY <1>1, <1>2, <1>7, <2>1
    <3>. QED
      BY <2>1, <3>1, ReadableConcatAll
  <2>3. AuditRead(v) => AuditRead(v)'
    BY <1>3, <1>4, <2>2 DEF AuditRead
  <2>4. AuditToRead(v) => AuditRead(v)' \/ AuditToRead(v)'
    BY <1>1, <1>2, <1>3, <1>4, <1>5, <2>2 DEF AuditToRead
  <2>. QED
    BY <2>3, <2>4
<1>. QED
  BY <1>6, <1>7

\* Meanwhile the entries that were not read stay in their files.
LEMMA WaitingFinds ==
  ASSUME TypeInv, TypeInv', Next, NoneTorn, ctl' = ctl,
         NEW v, AuditRead(v) \/ AuditToRead(v)
  PROVE  AuditRead(v)' \/ AuditToRead(v)'
<1>1. AuditRead(v) => AuditRead(v)'
  BY DEF AuditRead, Readable
<1>2. ASSUME NEW f \in ctl.todo, f.kind = "audit", NEW a \in Readable(shards["audit"][f.day]),
             a.rule = v
      PROVE  AuditToRead(v)'
  <2>1. PICK k \in Kind, d \in Day : k = "audit" /\ d = f.day
    BY DEF TypeInv, Controller, File, Kind
  <2>2. PICK n \in DOMAIN shards[k][d] : a = shards[k][d][n] /\ Decodable(a)
    BY <1>2, <2>1 DEF Readable
  <2>3. a # Torn
    BY <2>1, <2>2 DEF NoneTorn
  <2>4. shards[k][d] \in Seq(Line(k)) /\ shards'[k][d] \in Seq(Line(k))
    BY DEF TypeInv
  <2>5. n \in DOMAIN shards'[k][d] /\ shards'[k][d][n] = a
    BY <2>2, <2>3, <2>4, FilesGrow DEF Grown
  <2>6. a \in Readable(shards'[k][d])
    BY <2>2, <2>5 DEF Readable
  <2>. QED
    BY <1>2, <2>1, <2>6 DEF AuditToRead, Readable
<1>. QED
  BY <1>1, <1>2 DEF AuditToRead

\* A rebuild that is reading finds the entry of every rule it will insert.
LEMMA RetiredFoundStep ==
  ASSUME ConstantsAssumption, TypeInv, TypeInv', LockInv, FreshInv, IdsInv, KeysInv, Next,
         Plans \/ Proceeds \/ Fails \/ Rests, AuditFull, faults' = faults, NoneTorn,
         RetiredAudited, RetiredFound, InactivePending
  PROVE  RetiredFound'
<1>1. SUFFICES ASSUME ctl'.stage = "reading", NEW x \in RulesSeen', x[1] \in retired'
               PROVE  x[2] \in Keys(db'.rules) \/ AuditRead(x[2])' \/ AuditToRead(x[2])'
  BY DEF RetiredFound, Keys
<1>2. \/ ctl' = ctl \/ RebuildScan
      \/ \E f \in ctl.todo : RebuildRead(f)
  <2>1. ctl' = ctl \/ LoseIndex \/ Rebuild
    BY ZenonT(40) DEF Next, Operation, Register, Change, Escalate, Reevaluate, Intake, CreateRule, Begin,
       Transaction, AppendLine, AppendFails, Execute, Save, Commit, Rollback, NewDay,
       Reconcile, ReconcileScan, ReconcileCompare
  <2>2. ~LoseIndex
    BY <1>1, CtlIdleTyped DEF LoseIndex
  <2>3. ~RebuildFails /\ ~RebuildKilled /\ ~RebuildApply /\ ~RebuildCommit
    BY <1>1, RebuildEnds, RebuildApplyDoes, RebuildCommitDoes DEF CtlBecomes
  <2>4. \A f \in ctl.todo : ~RebuildSkip(f)
    BY DEF RebuildSkip, TypeInv
  <2>. QED
    BY <2>1, <2>2, <2>3, <2>4 DEF Rebuild
<1>3. x \in RulesSeen /\ (x[1] \in retired
            \/ (AuditOn(x[2]) /\ x[2] \in Keys(view.rules) /\ \E t \in Thread : Commit(t)))
  BY <1>1, RetiredKnown
<1>4. CASE RebuildScan
  BY <1>3, <1>4, ScanFinds DEF RetiredAudited
<1>5. ASSUME ~RebuildScan, NEW t \in Thread, Commit(t)
      PROVE  x[2] \in Keys(db'.rules) \/ AuditRead(x[2])' \/ AuditToRead(x[2])'
  <2>1. Keys(db'.rules) = Keys(view.rules) /\ ctl' = ctl
    BY <1>5 DEF Commit
  <2>2. x[1] \in retired => x[2] \in Keys(db.rules) \/ AuditRead(x[2]) \/ AuditToRead(x[2])
    BY <1>1, <1>3, <2>1 DEF RetiredFound
  <2>. QED
    BY <1>3, <2>1, <2>2, WaitingFinds DEF KeysInv
<1>6. ASSUME ~RebuildScan, \A t \in Thread : ~Commit(t)
      PROVE  x[2] \in Keys(db'.rules) \/ AuditRead(x[2])' \/ AuditToRead(x[2])'
  <2>1. x[1] \in retired
    BY <1>3, <1>6
  <2>2. ctl.stage = "reading"
    BY <1>1, <1>2, <1>6, ReadDoes
  <2>3. x[2] \in Keys(db.rules) \/ AuditRead(x[2]) \/ AuditToRead(x[2])
    BY <1>3, <2>1, <2>2 DEF RetiredFound
  <2>4. AuditRead(x[2]) \/ AuditToRead(x[2]) => AuditRead(x[2])' \/ AuditToRead(x[2])'
    BY <1>2, <1>6, ReadFinds, WaitingFinds
  <2>5. db' = db
    <3>1. \A f \in ctl.todo : RebuildRead(f) => db' = db
      BY DEF RebuildRead
    <3>2. ~LoseIndex /\ ~RebuildCommit
      BY <1>1, CtlIdleTyped, RebuildCommitDoes DEF LoseIndex, CtlBecomes
    <3>. QED
      BY ZenonT(40), <1>2, <1>6, <3>1, <3>2
      DEF Next, Operation, Register, Change, Escalate, Reevaluate, Intake, CreateRule, Begin,
       Transaction, AppendLine, AppendFails, Execute, Save, Rollback, NewDay, Rebuild,
       RebuildScan, RebuildRead, RebuildSkip, RebuildFails, RebuildApply, RebuildKilled,
       Reconcile, ReconcileScan, ReconcileCompare
  <2>. QED
    BY <2>3, <2>4, <2>5
<1>. QED
  BY <1>4, <1>5, <1>6

(***************************************************************************)
(* A rule that is superseded in the index is so in the audit, or will be   *)
(***************************************************************************)
NoneLocked == \A t \in Thread : ~session[t].locked

\* With no transaction under way the entry is on the shards.
LEMMA NothingPending ==
  ASSUME NoneLocked, InactivePending, NEW r \in view.rules, ~r.active
  PROVE  AuditOn(r.key)
BY DEF NoneLocked, InactivePending, AuditPending

\* A rule superseded in the committed index has its entry.
LEMMA InactiveAuditedStep ==
  ASSUME ConstantsAssumption, TypeInv, TypeInv', LockInv, Next, NoneTorn,
         InactiveAudited, InactivePending
  PROVE  InactiveAudited'
<1>1. \/ db' = db \/ LoseIndex \/ RebuildCommit
      \/ \E t \in Thread : Commit(t)
  BY DEF Next, Operation, Register, Change, Escalate, Reevaluate, Intake, CreateRule, Begin,
     Transaction, AppendLine, AppendFails, Execute, Save, Rollback, NewDay, Rebuild,
     RebuildScan, RebuildRead, RebuildSkip, RebuildFails, RebuildApply, RebuildKilled,
     Reconcile, ReconcileScan, ReconcileCompare
<1>2. SUFFICES ASSUME NEW r \in db'.rules, ~r.active
               PROVE  AuditOn(r.key)
  BY AuditOnKept DEF InactiveAudited
<1>3. CASE db' = db
  BY <1>2, <1>3 DEF InactiveAudited
<1>4. CASE LoseIndex
  BY <1>2, <1>4, EmptyTables DEF LoseIndex
<1>5. CASE RebuildCommit
  <2>1. NoneLocked
    BY <1>5, RebuildCommitDoes DEF LockInv, NoneLocked
  <2>. QED
    BY <1>2, <1>5, <2>1, RebuildCommitDoes, NothingPending
<1>6. ASSUME NEW t \in Thread, Commit(t)
      PROVE  AuditOn(r.key)
  <2>1. db' = view
    BY <1>6 DEF Commit
  <2>. QED
    BY <1>2, <1>6, <2>1, CommitAudited
<1>. QED
  BY <1>1, <1>3, <1>4, <1>5, <1>6

\* An entry that is not written yet: it stays so, it is written, or the
\* transaction is undone.
LEMMA PendingStep ==
  ASSUME ConstantsAssumption, TypeInv, TypeInv', LockInv, Next, NoneTorn, faults' = faults,
         NEW v, AuditPending(v)
  PROVE  AuditPending(v)' \/ AuditOn(v)' \/ LoseIndex \/ (view' = db /\ db' = db)
<1>1. PICK t \in Thread : session[t].locked /\ \E i \in DOMAIN session[t].todo :
          AddsAudit(session[t].todo[i]) /\ session[t].todo[i].row.rule = v
  BY DEF AuditPending
<1>2. PICK i \in DOMAIN session[t].todo :
        AddsAudit(session[t].todo[i]) /\ session[t].todo[i].row.rule = v
  BY <1>1
<1>3. session[t].open /\ \A u \in Thread : session[u].open => u = t
  BY <1>1 DEF LockInv
<1>4. session[t].todo # <<>>
  BY <1>2
<1>5. CASE session' = session
  BY <1>5, AuditOnKept DEF AuditPending
<1>6. ASSUME NEW u \in Thread, Operation(u)
      PROVE  FALSE
  BY <1>3, <1>6 DEF Operation, Register, Change, Escalate, Reevaluate, Intake, CreateRule,
     Begin, ConnectionFree
<1>7. ASSUME NEW u \in Thread, Commit(u)
      PROVE  FALSE
  BY <1>3, <1>4, <1>7 DEF Commit, LockInv
<1>8. ASSUME NEW u \in Thread, AppendLine(u) \/ AppendFails(u) \/ Rollback(u)
      PROVE  FALSE
  <2>1. ~AppendFails(u) /\ ~Rollback(u)
    BY DEF AppendFails, Rollback, TypeInv
  <2>2. ~AppendLine(u)
    BY <1>1, <1>3 DEF AppendLine, Connected
  <2>. QED
    BY <1>8, <2>1, <2>2
<1>9. ASSUME NEW u \in Thread, Execute(u) \/ Save(u)
      PROVE  AuditPending(v)' \/ AuditOn(v)' \/ (view' = db /\ db' = db)
  <2>1. Connected(u) /\ u = t
    BY <1>3, <1>9 DEF Execute, Save, Connected
  <2>2. Refused(t) \/ Carried(t)
    BY <1>4, <1>9, <2>1, ExecutedDoes DEF Execute, Save
  <2>3. CASE Refused(t)
    BY <1>1, <1>9, <2>3 DEF Refused, Execute, Save
  <2>4. CASE Carried(t)
    <3>1. /\ session'[t].todo = Tail(session[t].todo) /\ session'[t].locked
      BY <2>4 DEF Carried, Becomes
    <3>2. CASE i = 1
      <4>1. AddsAudit(Current(t)) /\ Current(t).row.rule = v
        BY <1>2, <1>4, <3>2, CurrentStatement
      <4>2. ~Execute(t)
        BY <1>1, <4>1 DEF Execute, AddsAudit, HasLine, LockInv
      <4>3. Current(t).row \in LinesOf("audit")'
        BY <1>9, <2>1, <4>1, <4>2, AuditWrites
      <4>. QED
        BY <4>1, <4>3 DEF AuditOn
    <3>3. CASE i # 1
      <4>1. PICK j \in DOMAIN Tail(session[t].todo) : i = j + 1
        <5>1. i \in 1..Len(session[t].todo) /\ Len(session[t].todo) \in Nat
          BY <1>4, CurrentStatement
        <5>2. i - 1 \in 1..(Len(session[t].todo) - 1) /\ i = (i - 1) + 1
          BY <3>3, <5>1
        <5>. QED
          BY <1>4, <5>2, CurrentStatement
      <4>2. Tail(session[t].todo)[j] = session[t].todo[i]
        BY <1>4, <4>1, CurrentStatement
      <4>. QED
        BY <1>2, <3>1, <4>1, <4>2 DEF AuditPending
    <3>. QED
      BY <3>2, <3>3
  <2>. QED
    BY <2>2, <2>3, <2>4
<1>10. CASE NewDay \/ Reconcile \/ Rebuild
  <2>1. session' = session
    BY <1>10 DEF NewDay, Reconcile, ReconcileScan, ReconcileCompare, Rebuild, RebuildScan,
       RebuildRead, RebuildSkip, RebuildFails, RebuildApply, RebuildCommit, RebuildKilled, server
  <2>. QED
    BY <1>5, <2>1
<1>. QED
  BY <1>6, <1>7, <1>8, <1>9, <1>10 DEF Next, Transaction

\* What a rebuild retires is in the audit it has read.
LEMMA RebuiltInactive ==
  ASSUME TypeInv, LockInv, RebuildApply, ReadKnown, ActiveInv, InactivePending,
         NEW r \in view'.rules, ~r.active
  PROVE  AuditOn(r.key)
<1>1. view' = Rebuilt /\ NoneLocked
  BY RebuildApplyDoes DEF LockFree, NoneLocked
<1>2. PICK latest : latest = Latest(ctl.read["rules"])
  OBVIOUS
<1>3. PICK rules : rules = view.rules \cup latest
  OBVIOUS
<1>4. PICK versions : versions = {a.rule : a \in Latest(ctl.read["audit"])}
  OBVIOUS
<1>5. view'.rules = Retire(rules, versions)
  BY <1>1, <1>2, <1>3, <1>4, RebuiltTables
<1>6. latest \subseteq Readable(ctl.read["rules"]) /\ latest \in SUBSET Record.rules
  <2>1. "rules" \in Kind /\ ctl.read["rules"] \in Seq(Line("rules"))
    BY DEF TypeInv, Kind
  <2>2. latest \subseteq Readable(ctl.read["rules"])
        /\ Readable(ctl.read["rules"]) \in SUBSET Record["rules"]
    BY <1>2, <2>1, ReadableLines
  <2>. QED
    BY <2>2
<1>7. rules \in SUBSET Record.rules
  BY <1>3, <1>6 DEF TypeInv, Tables
<1>8. PICK q \in rules : r.key = q.key /\ r.active = (q.active /\ q.key \notin versions)
  BY <1>5, <1>7, RetiredRules
<1>9. CASE q.key \in versions
  <2>1. PICK a \in Latest(ctl.read["audit"]) : a.rule = q.key
    BY <1>4, <1>9
  <2>2. "audit" \in Kind /\ ctl.read["audit"] \in Seq(Line("audit"))
    BY DEF TypeInv, Kind
  <2>3. a \in LinesOf("audit")
    BY <2>1, <2>2, ReadableLines DEF ReadKnown
  <2>. QED
    BY <1>8, <2>1, <2>3 DEF AuditOn
<1>10. CASE q \in view.rules /\ ~q.active
  BY <1>1, <1>8, <1>10, NothingPending
<1>11. CASE q \in latest /\ ~q.active
  BY <1>6, <1>11 DEF ActiveInv
<1>. QED
  BY <1>3, <1>8, <1>9, <1>10, <1>11

\* One superseded in the view has it, or the transaction is to write it.
LEMMA InactivePendingStep ==
  ASSUME ConstantsAssumption, TypeInv, TypeInv', LockInv, StampInv, ActiveInv, AuditedInv,
         Next, NoneTorn, faults' = faults, ReadKnown, InactiveAudited, InactivePending
  PROVE  InactivePending'
<1>1. SUFFICES ASSUME NEW r \in view'.rules, ~r.active
               PROVE  AuditOn(r.key)' \/ AuditPending(r.key)'
  BY DEF InactivePending, AuditPending
<1>2. ASSUME NEW q \in view.rules, ~q.active, q.key = r.key, ~(view' = db /\ db' = db)
      PROVE  AuditOn(r.key)' \/ AuditPending(r.key)'
  <2>1. ~LoseIndex
    BY <1>1, EmptyTables DEF LoseIndex
  <2>2. PICK v : v = r.key
    OBVIOUS
  <2>3. AuditOn(v) \/ AuditPending(v)
    BY <1>2, <2>2 DEF InactivePending
  <2>4. AuditOn(v)' \/ AuditPending(v)'
    BY <1>2, <2>1, <2>3, AuditOnKept, PendingStep
  <2>. QED
    BY <2>2, <2>4
<1>3. CASE view' = db /\ db' = db
  BY <1>1, <1>3, AuditOnKept DEF InactiveAudited
<1>4. CASE TablesKept \/ TablesCommitted
  BY <1>1, <1>2, <1>3, <1>4 DEF TablesKept, TablesCommitted
<1>5. CASE TablesCarried /\ ~(view' = db /\ db' = db)
  <2>1. PICK t \in Thread : Connected(t) /\ Carried(t)
    BY <1>5 DEF TablesCarried
  <2>2. PICK s \in Statement : s = Current(t)
    BY <2>1, CurrentStatement DEF Connected
  <2>3. AppliedTo(view, s, view') /\ s = session[t].todo[1] /\ 1 \in DOMAIN session[t].todo
    BY <2>1, <2>2, CurrentStatement DEF Carried, Connected
  <2>4. CASE AddsRule(s)
    <3>1. s.row.active
      BY <2>3, <2>4 DEF StampInv
    <3>2. r \in view.rules
      BY <1>1, <2>3, <2>4, <3>1 DEF AppliedTo
    <3>. QED
      BY <1>1, <1>2, <1>5, <3>2
  <2>5. CASE s.op = "supersede_rule"
    <3>1. PICK versions : versions = {s.version}
      OBVIOUS
    <3>2. view'.rules = Retire(view.rules, versions)
      BY <2>3, <2>5, <3>1 DEF AppliedTo
    <3>3. PICK q \in view.rules : r.key = q.key /\ r.active = (q.active /\ q.key \notin versions)
      <4>1. view.rules \in SUBSET Record.rules
        BY DEF TypeInv, Tables
      <4>. QED
        BY <3>2, <4>1, RetiredRules
    <3>4. CASE ~q.active
      BY <1>2, <1>5, <3>3, <3>4
    <3>5. CASE q.key = s.version
      <4>1. /\ 2 \in DOMAIN session[t].todo /\ AddsAudit(session[t].todo[2])
            /\ session[t].todo[2].row.rule = r.key
        <5>1. /\ 1 + 1 \in DOMAIN session[t].todo
              /\ AddsAudit(session[t].todo[1 + 1])
              /\ session[t].todo[1 + 1].row.rule = session[t].todo[1].version
          BY <2>3, <2>5 DEF AuditedInv
        <5>2. 1 + 1 = 2
          OBVIOUS
        <5>. QED
          BY <2>3, <3>3, <3>5, <5>1, <5>2
      <4>2. /\ session'[t].todo = Tail(session[t].todo) /\ session'[t].locked
        BY <2>1 DEF Carried, Becomes
      <4>3. 1 \in DOMAIN Tail(session[t].todo) /\ Tail(session[t].todo)[1] = session[t].todo[2]
        BY <4>1 DEF TypeInv, Session
      <4>. QED
        BY <4>1, <4>2, <4>3 DEF AuditPending
    <3>. QED
      BY <1>1, <3>1, <3>3, <3>4, <3>5
  <2>6. CASE ~AddsRule(s) /\ s.op # "supersede_rule"
    BY <1>1, <1>2, <1>5, <2>3, <2>6 DEF AppliedTo
  <2>. QED
    BY <2>4, <2>5, <2>6
<1>6. CASE LoseIndex
  BY <1>1, <1>6, EmptyTables DEF LoseIndex
<1>7. CASE RebuildApply
  BY <1>1, <1>7, RebuiltInactive, AuditOnKept
<1>8. CASE RebuildCommit /\ ~(view' = db /\ db' = db)
  <2>1. view'.rules = view.rules
    BY <1>8, RebuildCommitDoes
  <2>. QED
    BY <1>1, <1>2, <1>8, <2>1
<1>. QED
  BY <1>3, <1>4, <1>5, <1>6, <1>7, <1>8, TablesMove

(***************************************************************************)
(* A rule that was superseded stays so                                     *)
(***************************************************************************)

\* The audit that was read names every retired rule that comes from a line.
LEMMA RebuiltRetires ==
  ASSUME TypeInv, LockInv, IdsInv, RetiredFound, RebuildApply,
         NEW q \in Latest(ctl.read["rules"]), q.stamp \in retired
  PROVE  \E a \in Latest(ctl.read["audit"]) : a.rule = q.key
<1>1. /\ ctl.stage = "reading" /\ ctl.todo = {} /\ LockFree /\ ~VersionTaken
  BY RebuildApplyDoes
<1>2. "rules" \in Kind /\ ctl.read["rules"] \in Seq(Line("rules"))
      /\ "audit" \in Kind /\ ctl.read["audit"] \in Seq(Line("audit"))
  BY DEF TypeInv, Kind
<1>3. PICK x \in RulesSeen : x[1] = q.stamp /\ x[2] = q.key
  <2>1. q \in Readable(ctl.read["rules"])
    BY <1>2, ReadableLines
  <2>2. <<q.stamp, q.key>> \in RulesSeen
    BY <2>1 DEF RulesSeen, Ids
  <2>. QED
    BY <2>2
<1>4. q.key \in Keys(db.rules) \/ AuditRead(q.key) \/ AuditToRead(q.key)
  BY <1>1, <1>3 DEF RetiredFound
<1>5. q.key \notin Keys(db.rules)
  <2>1. view = db
    BY <1>1 DEF LockInv, LockFree
  <2>2. q.key \in Keys(Collected("rules"))
    BY DEF Keys, Collected
  <2>. QED
    BY <1>1, <2>1, <2>2 DEF VersionTaken
<1>6. ~AuditToRead(q.key)
  BY <1>1 DEF AuditToRead
<1>7. PICK k \in Kind : k = "audit"
  BY <1>2
<1>8. PICK lines \in Seq(Line(k)) : lines = ctl.read[k]
  BY <1>2, <1>7
<1>9. PICK a \in Readable(lines) : a.rule = q.key
  BY <1>4, <1>5, <1>6, <1>7, <1>8 DEF AuditRead
<1>10. PICK n \in DOMAIN lines : a = lines[n] /\ Decodable(lines[n])
  BY DEF Readable
<1>11. PICK m \in DOMAIN lines : lines[m].key = a.key /\ lines[m] \in Latest(lines)
  BY <1>10, LatestExists
<1>12. lines[m] \in AuditSeen /\ a \in AuditSeen
  <2>1. Latest(lines) \subseteq Readable(lines)
    BY ReadableLines
  <2>. QED
    BY <1>7, <1>8, <1>11, <2>1 DEF AuditSeen
<1>13. lines[m].rule = a.rule
  BY <1>11, <1>12 DEF IdsInv
<1>. QED
  BY <1>7, <1>8, <1>9, <1>11, <1>13

\* No step puts a retired rule in force again.
LEMMA RetiredInactiveStep ==
  ASSUME ConstantsAssumption, TypeInv, LockInv, FreshInv, IdsInv, KeysInv, Next,
         RetiredFound, RetiredInactive
  PROVE  RetiredInactive'
<1>0. view.rules \in SUBSET Record.rules
  BY DEF TypeInv, Tables
<1>1. ASSUME NEW t \in Thread, Commit(t)
      PROVE  RetiredInactive'
  <2>1. /\ view' = view /\ db' = view
        /\ retired' = retired \cup {r.stamp : r \in {x \in view.rules \ db.rules : ~x.active}}
    BY <1>1 DEF Commit
  <2>2. SUFFICES ASSUME NEW r \in view.rules, r.stamp \in retired', r.stamp \notin retired
                 PROVE  ~r.active
    BY <2>1 DEF RetiredInactive
  <2>3. PICK x \in view.rules : ~x.active /\ x.stamp = r.stamp
    BY <2>1, <2>2
  <2>4. <<r.stamp, r.key>> \in RulesSeen /\ <<x.stamp, x.key>> \in RulesSeen
    BY DEF RulesSeen, Ids
  <2>5. PICK y \in RulesSeen, z \in RulesSeen :
          y[1] = r.stamp /\ y[2] = r.key /\ z[1] = x.stamp /\ z[2] = x.key
    BY <2>4
  <2>6. r.key = x.key
    BY <2>3, <2>5 DEF IdsInv
  <2>. QED
    BY <2>3, <2>6 DEF KeysInv
<1>2. ASSUME retired' = retired
      PROVE  RetiredInactive'
  <2>1. SUFFICES ASSUME NEW r \in db'.rules \cup view'.rules, r.stamp \in retired
                 PROVE  ~r.active
    BY <1>2 DEF RetiredInactive
  <2>2. CASE TablesKept \/ TablesCommitted \/ RebuildCommit
    BY <2>1, <2>2, RebuildCommitDoes DEF TablesKept, TablesCommitted, RetiredInactive
  <2>3. CASE LoseIndex
    BY <2>1, <2>3, EmptyTables DEF LoseIndex
  <2>4. CASE r \in db.rules \cup view.rules
    BY <2>1, <2>4 DEF RetiredInactive
  <2>5. CASE TablesCarried /\ r \notin db.rules \cup view.rules
    <3>1. PICK t \in Thread : Connected(t) /\ Carried(t)
      BY <2>5 DEF TablesCarried
    <3>2. PICK s \in Statement : s = Current(t)
      BY <3>1, CurrentStatement DEF Connected
    <3>3. /\ AppliedTo(view, s, view') /\ s = session[t].todo[1]
          /\ 1 \in DOMAIN session[t].todo /\ r \in view'.rules
      BY <2>1, <2>5, <3>1, <3>2, CurrentStatement DEF Carried, Connected, TablesCarried
    <3>4. CASE AddsRule(s)
      <4>1. s.row.stamp \notin retired
        BY <3>3, <3>4 DEF FreshInv
      <4>. QED
        BY <2>1, <2>5, <3>3, <3>4, <4>1 DEF AppliedTo
    <3>5. CASE s.op = "supersede_rule"
      <4>1. PICK versions : versions = {s.version}
        OBVIOUS
      <4>2. view'.rules = Retire(view.rules, versions)
        BY <3>3, <3>5, <4>1 DEF AppliedTo
      <4>3. PICK q \in view.rules : /\ r.stamp = q.stamp
                                    /\ r.active = (q.active /\ q.key \notin versions)
        BY <1>0, <3>3, <4>2, RetiredRules
      <4>4. ~q.active
        BY <2>1, <4>3 DEF RetiredInactive
      <4>. QED
        BY <4>3, <4>4
    <3>6. CASE ~AddsRule(s) /\ s.op # "supersede_rule"
      BY <2>5, <3>3, <3>6 DEF AppliedTo
    <3>. QED
      BY <3>4, <3>5, <3>6
  <2>6. CASE RebuildApply /\ r \notin db.rules \cup view.rules
    <3>1. view' = Rebuilt /\ db' = db
      BY <2>6, RebuildApplyDoes DEF RebuildApply
    <3>2. PICK latest : latest = Latest(ctl.read["rules"])
      OBVIOUS
    <3>3. PICK rules : rules = view.rules \cup latest
      OBVIOUS
    <3>4. PICK versions : versions = {a.rule : a \in Latest(ctl.read["audit"])}
      OBVIOUS
    <3>5. view'.rules = Retire(rules, versions)
      BY <3>1, <3>2, <3>3, <3>4, RebuiltTables
    <3>6. rules \in SUBSET Record.rules
      <4>1. "rules" \in Kind /\ ctl.read["rules"] \in Seq(Line("rules"))
        BY DEF TypeInv, Kind
      <4>2. latest \subseteq Readable(ctl.read["rules"])
            /\ Readable(ctl.read["rules"]) \in SUBSET Record["rules"]
        BY <3>2, <4>1, ReadableLines
      <4>. QED
        BY <1>0, <3>3, <4>2
    <3>7. PICK q \in rules : /\ r.stamp = q.stamp
                             /\ r.active = (q.active /\ q.key \notin versions)
      <4>1. r \in Retire(rules, versions)
        BY <2>1, <2>6, <3>1, <3>5
      <4>. QED
        BY <3>6, <4>1, RetiredRules
    <3>8. CASE q \in view.rules
      <4>1. ~q.active
        BY <2>1, <3>7, <3>8 DEF RetiredInactive
      <4>. QED
        BY <3>7, <4>1
    <3>9. CASE q \in latest
      <4>1. q.key \in versions
        BY <2>1, <2>6, <3>2, <3>4, <3>7, <3>9, RebuiltRetires
      <4>. QED
        BY <3>7, <4>1
    <3>. QED
      BY <3>3, <3>8, <3>9
  <2>. QED
    BY <2>2, <2>3, <2>4, <2>5, <2>6, TablesMove
<1>. QED
  BY <1>1, <1>2, RetiresOnly

\* Together.
LEMMA RetireStep ==
  ASSUME ConstantsAssumption, TypeInv, TypeInv', LockInv, StampInv, FreshInv, RuleInv,
         RetireInv, Next, Plans \/ Proceeds \/ Fails \/ Rests
  PROVE  RetireInv'
<1>1. SUFFICES ASSUME AuditFull'
               PROVE  NoneTorn' /\ ReadKnown' /\ RetiredAudited' /\ RetiredFound'
                        /\ InactiveAudited' /\ InactivePending' /\ RetiredInactive'
  BY RetirePartsNext
<1>2. AuditFull /\ faults' = faults
  BY <1>1, AuditStaysFull
<1>3. NoneTorn /\ ReadKnown /\ RetiredAudited /\ RetiredFound
        /\ InactiveAudited /\ InactivePending /\ RetiredInactive
  BY <1>2, RetireParts
<1>4. IdsInv /\ KeysInv /\ ActiveInv /\ AuditedInv
  BY DEF RuleInv
<1>5. NoneTorn' /\ ReadKnown'
  BY <1>2, <1>3, NoneTornStep, ReadKnownStep
<1>6. RetiredAudited'
  BY <1>3, <1>4, RetiredAuditedStep
<1>7. RetiredFound'
  BY <1>2, <1>3, <1>4, RetiredFoundStep
<1>8. InactiveAudited'
  BY <1>3, InactiveAuditedStep
<1>9. InactivePending'
  BY <1>2, <1>3, <1>4, InactivePendingStep
<1>10. RetiredInactive'
  BY <1>3, <1>4, RetiredInactiveStep
<1>. QED
  BY <1>5, <1>6, <1>7, <1>8, <1>9, <1>10

(***************************************************************************)
(* The invariant of the store                                              *)
(***************************************************************************)
StoreInv ==
  /\ TypeInv
  /\ LockInv
  /\ ManifestInv
  /\ IntakeInv
  /\ StampInv
  /\ FreshInv
  /\ ApartInv
  /\ OnceInv
  /\ OrderInv
  /\ ReplayOrder
  /\ LostInv
  /\ CommittedOnShards
  /\ ReadInv
  /\ RuleInv
  /\ RetireInv

\* `civicctl init' has written one line, the default rule.
LEMMA InitialFiles ==
  ASSUME ConstantsAssumption, Init
  PROVE  /\ \A k \in Kind, d \in Day :
              shards[k][d] = IF k = "rules" /\ d = 1 THEN <<DefaultRule>> ELSE <<>>
         /\ DefaultRule \in Record["rules"] /\ 1 \in Day
         /\ DefaultRule.key = 1 /\ DefaultRule.stamp = 0 /\ DefaultRule.active
<1>1. DefaultRule.key = 1 /\ DefaultRule.stamp = 0 /\ DefaultRule.active
  BY DEF DefaultRule
<1>2. DefaultRule \in Record["rules"]
  BY DEF DefaultRule, Record
<1>3. 1 \in Day
  BY DEF ConstantsAssumption, Day
<1>. QED
  BY <1>1, <1>2, <1>3 DEF Init

\* The types at the start.
LEMMA InitialType ==
  ASSUME ConstantsAssumption, Init
  PROVE  TypeInv
<1>1. \A k \in Kind, d \in Day : shards[k][d] \in Seq(Line(k)) /\ shards[k][d] \in Seq(AnyLine)
  <2>1. \A k \in Kind : <<>> \in Seq(Line(k))
    OBVIOUS
  <2>2. "rules" \in Kind
    BY DEF Kind
  <2>3. <<DefaultRule>> \in Seq(Line("rules"))
    BY <2>2, InitialFiles, Lines
  <2>4. \A k \in Kind, d \in Day : shards[k][d] \in Seq(Line(k))
    BY <2>1, <2>3, InitialFiles
  <2>. QED
    BY <2>4, Lines
<1>2. shards \in [Kind -> [Day -> Seq(AnyLine)]]
  BY <1>1 DEF Init
<1>3. db \in Tables
  BY ZenonT(40), EmptyTables, InitialFiles, SetRules DEF Init
<1>4. Idle \in Session
  BY DEF Idle, Session
<1>5. session \in [Thread -> Session]
  BY <1>4 DEF Init
<1>6. ctl \in Controller /\ \A k \in Kind : ctl.read[k] \in Seq(Line(k))
  BY CtlIdleTyped, NothingRead DEF Init
<1>7. recon \in Reconciler
  BY DEF Init, ReconIdle, Reconciler
<1>8. /\ day \in Day
      /\ stamps \in 0..MaxStamp /\ faults \in 0..MaxFaults /\ losses \in 0..MaxLosses
      /\ committed \in Seq(Record.items) /\ retired \subseteq Nat
  BY InitialFiles DEF Init, ConstantsAssumption
<1>9. view \in Tables
  BY <1>3 DEF Init
<1>. QED
  BY <1>1, <1>2, <1>3, <1>5, <1>6, <1>7, <1>8, <1>9 DEF TypeInv

\* At first no suggestion and no entry of the audit is anywhere, and one rule.
LEMMA InitialSeen ==
  ASSUME ConstantsAssumption, Init
  PROVE  /\ ItemsSeen = {} /\ AuditSeen = {}
         /\ \A x \in RulesSeen : x[1] = 0 /\ x[2] = 1
         /\ LinesOf("rules") \cup Readable(ctl.read["rules"]) \subseteq {DefaultRule}
         /\ view = db /\ db.rules = {DefaultRule} /\ db.items = {}
         /\ db.intakes = {} /\ db.manifest = {}
         /\ \A k \in Kind : ctl.read[k] = <<>>
         /\ \A row : Places(row) = {}
<1>1. \A k \in Kind : ctl.read[k] = <<>>
  BY CtlIdleTyped, NothingRead DEF Init
<1>2. Readable(<<>>) = {}
  BY DEF Readable
<1>3. Readable(<<DefaultRule>>) \subseteq {DefaultRule}
  BY DEF Readable
<1>4. "items" \in Kind /\ "audit" \in Kind /\ "rules" \in Kind
  BY DEF Kind
<1>5. \A d \in Day : shards["items"][d] = <<>> /\ shards["audit"][d] = <<>>
                     /\ shards["rules"][d] \in {<<>>, <<DefaultRule>>}
  BY <1>4, InitialFiles
<1>6. LinesOf("items") = {} /\ LinesOf("audit") = {} /\ LinesOf("rules") \subseteq {DefaultRule}
  BY <1>2, <1>3, <1>5 DEF LinesOf
<1>7. /\ db.rules = {DefaultRule} /\ db.items = {} /\ db.intakes = {} /\ db.manifest = {}
  BY EmptyTables, InitialFiles, SetRules DEF Init
<1>8. view = db /\ committed = <<>>
  BY DEF Init
<1>9. \A row : Places(row) = {}
  BY <1>5 DEF Places
<1>10. ItemsSeen = {}
  BY <1>1, <1>2, <1>4, <1>6, <1>7, <1>8 DEF ItemsSeen
<1>11. AuditSeen = {}
  BY <1>1, <1>2, <1>4, <1>6 DEF AuditSeen
<1>12. \A x \in RulesSeen : x[1] = 0 /\ x[2] = 1
  <2>1. RulesSeen \subseteq Ids({DefaultRule})
    BY <1>1, <1>2, <1>4, <1>6, <1>7, <1>8 DEF RulesSeen, Ids
  <2>2. \A x \in Ids({DefaultRule}) : x = <<0, 1>>
    BY InitialFiles DEF Ids
  <2>3. <<0, 1>>[1] = 0 /\ <<0, 1>>[2] = 1
    OBVIOUS
  <2>. QED
    BY <2>1, <2>2, <2>3
<1>. QED
  BY <1>1, <1>2, <1>4, <1>6, <1>7, <1>8, <1>9, <1>10, <1>11, <1>12

\* The invariant at the start.
LEMMA InitialStore ==
  ASSUME ConstantsAssumption, Init
  PROVE  StoreInv
<1>1. TypeInv
  BY InitialType
<1>2. \A t \in Thread : /\ session[t].todo = <<>> /\ ~session[t].open
                        /\ ~session[t].locked /\ ~session[t].written
  BY DEF Init, Idle
<1>3. /\ ctl.stage = "idle" /\ ctl.todo = {} /\ retired = {} /\ committed = <<>>
      /\ stamps = 0 /\ recon.manifest = {}
  BY CtlIdleTyped DEF Init, ReconIdle
<1>4. LockInv
  BY <1>2, <1>3, InitialSeen DEF LockInv
<1>5. ManifestInv /\ IntakeInv
  BY <1>3, InitialSeen DEF ManifestInv, IntakeInv
<1>6. StampInv
  BY <1>2, <1>3, InitialSeen DEF StampInv
<1>7. FreshInv /\ ApartInv
  BY <1>2 DEF FreshInv, ApartInv
<1>8. OnceInv
  <2>1. "items" \in Kind
    BY DEF Kind
  <2>. QED
    BY <2>1, InitialFiles, InitialSeen DEF OnceInv
<1>9. OrderInv /\ ReplayOrder
  BY <1>3 DEF OrderInv, ReplayOrder
<1>10. LostInv
  <2>1. \A t \in Thread : Placed(t) = {}
    BY <1>2 DEF Placed
  <2>2. IsFiniteSet(Places(Garbled))
    BY InitialSeen, FS_EmptySet
  <2>. QED
    BY <2>1, <2>2 DEF LostInv
<1>11. CommittedOnShards
  <2>1. {i \in DOMAIN committed : Places(committed[i]) = {}} = {}
    BY <1>3
  <2>2. Places(Garbled) = {} /\ Cardinality({}) = 0
    BY InitialSeen, FS_EmptySet
  <2>. QED
    BY <2>1, <2>2 DEF CommittedOnShards
<1>12. ReadInv
  <2>1. ctl.read["items"] = <<>>
    BY InitialSeen DEF Kind
  <2>. QED
    BY <1>3, <2>1 DEF ReadInv
<1>13. RuleInv
  <2>1. IdsInv
    BY <1>2, InitialSeen DEF IdsInv
  <2>2. KeysInv
    BY InitialSeen DEF KeysInv
  <2>3. ActiveInv
    BY InitialSeen, InitialFiles DEF ActiveInv
  <2>4. AuditedInv
    BY <1>2 DEF AuditedInv
  <2>. QED
    BY <2>1, <2>2, <2>3, <2>4 DEF RuleInv
<1>14. RetireInv
  <2>1. NoneTorn
    BY InitialFiles DEF NoneTorn, Kind
  <2>2. ReadKnown
    <3>1. Readable(ctl.read["audit"]) = {}
      BY InitialSeen DEF AuditSeen
    <3>. QED
      BY <3>1 DEF ReadKnown
  <2>3. RetiredAudited /\ RetiredFound /\ RetiredInactive
    BY <1>3 DEF RetiredAudited, RetiredFound, RetiredInactive
  <2>4. InactiveAudited /\ InactivePending
    BY InitialSeen, InitialFiles DEF InactiveAudited, InactivePending
  <2>. QED
    BY <2>1, <2>2, <2>3, <2>4, RetireParts
<1>. QED
  BY <1>1, <1>4, <1>5, <1>6, <1>7, <1>8, <1>9, <1>10, <1>11, <1>12, <1>13, <1>14 DEF StoreInv

\* A step that changes nothing keeps the invariant.
LEMMA StutterStep ==
  ASSUME StoreInv, UNCHANGED vars
  PROVE  StoreInv'
<1>0. UNCHANGED <<day, shards, db, view, session, stamps, ctl, recon, faults, losses,
                  committed, retired>>
  BY DEF vars, server, history
<1>1. TypeInv'
  BY <1>0 DEF StoreInv, TypeInv
<1>2. LockInv'
  BY <1>0 DEF StoreInv, LockInv
<1>3. ManifestInv'
  BY <1>0 DEF StoreInv, ManifestInv, Base
<1>4. IntakeInv'
  BY <1>0 DEF StoreInv, IntakeInv
<1>5. /\ ItemsSeen' = ItemsSeen /\ RulesSeen' = RulesSeen /\ AuditSeen' = AuditSeen
      /\ \A k : LinesOf(k)' = LinesOf(k)
      /\ \A row : Places(row)' = Places(row)
      /\ \A t : Current(t)' = Current(t)
  BY <1>0 DEF ItemsSeen, RulesSeen, AuditSeen, LinesOf, Readable, Places, Current
<1>6. StampInv'
  BY <1>0, <1>5 DEF StoreInv, StampInv
<1>7. FreshInv'
  BY <1>0, <1>5 DEF StoreInv, FreshInv, ItemFresh, RuleFresh, AuditFresh
<1>8. ApartInv'
  BY <1>0 DEF StoreInv, ApartInv
<1>9. OnceInv'
  BY <1>0, <1>5 DEF StoreInv, OnceInv
<1>10. OrderInv' /\ ReplayOrder'
  BY <1>0, <1>5 DEF StoreInv, OrderInv, InFlight, ReplayOrder
<1>11. LostInv'
  BY <1>0 DEF StoreInv, LostInv, Placed, Lost, Places
<1>12. CommittedOnShards'
  BY <1>0 DEF StoreInv, CommittedOnShards, Places
<1>13. ReadInv'
  BY <1>0, <1>5 DEF StoreInv, ReadInv, Latest
<1>14. RuleInv'
  <2>1. IdsInv'
    BY <1>0, <1>5 DEF StoreInv, RuleInv, IdsInv
  <2>2. KeysInv'
    BY <1>0 DEF StoreInv, RuleInv, KeysInv
  <2>3. ActiveInv'
    BY <1>0, <1>5 DEF StoreInv, RuleInv, ActiveInv, Readable
  <2>4. AuditedInv'
    BY <1>0 DEF StoreInv, RuleInv, AuditedInv
  <2>. QED
    BY <2>1, <2>2, <2>3, <2>4 DEF RuleInv
<1>15. RetireInv'
  <2>1. AuditFull' => AuditFull
    BY <1>0 DEF AuditFull, Base
  <2>2. \A v : AuditOn(v) => AuditOn(v)'
    BY <1>5 DEF AuditOn
  <2>3. \A v : (AuditRead(v) => AuditRead(v)') /\ (AuditToRead(v) => AuditToRead(v)')
    BY <1>0 DEF AuditRead, AuditToRead, Readable
  <2>4. \A v : AuditPending(v) => AuditPending(v)'
    BY <1>0 DEF AuditPending
  <2>5. SUFFICES ASSUME NoneTorn, ReadKnown, RetiredAudited, RetiredFound,
                        InactiveAudited, InactivePending, RetiredInactive
                 PROVE  NoneTorn' /\ ReadKnown' /\ RetiredAudited' /\ RetiredFound'
                          /\ InactiveAudited' /\ InactivePending' /\ RetiredInactive'
    BY <2>1, RetireParts, RetirePartsNext DEF StoreInv
  <2>6. NoneTorn' /\ ReadKnown'
    BY <1>0, <1>5, <2>5 DEF NoneTorn, ReadKnown, Readable
  <2>7. RetiredAudited'
    BY <1>0, <1>5, <2>2, <2>5 DEF RetiredAudited
  <2>8. RetiredFound'
    BY <1>0, <1>5, <2>3, <2>5 DEF RetiredFound
  <2>9. InactiveAudited' /\ InactivePending'
    BY <1>0, <2>2, <2>4, <2>5 DEF InactiveAudited, InactivePending
  <2>10. RetiredInactive'
    BY <1>0, <2>5 DEF RetiredInactive
  <2>. QED
    BY <2>6, <2>7, <2>8, <2>9, <2>10
<1>. QED
  BY <1>1, <1>2, <1>3, <1>4, <1>6, <1>7, <1>8, <1>9, <1>10, <1>11, <1>12, <1>13, <1>14, <1>15
  DEF StoreInv

\* Every step keeps the invariant.
LEMMA StoreStep ==
  ASSUME ConstantsAssumption, StoreInv, Next
  PROVE  StoreInv'
<1>1. /\ TypeInv /\ LockInv /\ ManifestInv /\ IntakeInv /\ StampInv /\ FreshInv /\ ApartInv
      /\ OnceInv /\ OrderInv /\ ReplayOrder /\ LostInv /\ CommittedOnShards /\ ReadInv
      /\ RuleInv /\ RetireInv
  BY DEF StoreInv
<1>2. \A r \in db.rules : r.key <= stamps + 1
  <2>1. \A r \in db.rules : <<r.stamp, r.key>> \in RulesSeen
    BY DEF RulesSeen, Ids
  <2>2. \A x \in RulesSeen : x[2] <= stamps + 1
    BY <1>1 DEF StampInv
  <2>3. \A r \in db.rules : <<r.stamp, r.key>>[2] = r.key
    OBVIOUS
  <2>. QED
    BY <2>1, <2>2, <2>3
<1>3. TypeInv'
  BY <1>1, <1>2, TypeStep
<1>4. Plans \/ Proceeds \/ Fails \/ Rests
  BY <1>1, <1>2, <1>3, Moves
<1>5. LockInv'
  BY <1>1, LockStep
<1>6. ManifestInv' /\ IntakeInv'
  BY <1>1, <1>3, ManifestStep, IntakeStep
<1>7. StampInv'
  BY <1>1, <1>3, <1>4, StampStep
<1>8. FreshInv'
  BY <1>1, <1>4, FreshStep
<1>9. ApartInv'
  BY <1>1, <1>3, <1>4, ApartStep
<1>10. OnceInv'
  BY <1>1, <1>3, OnceStep
<1>11. OrderInv' /\ ReplayOrder'
  BY <1>1, <1>3, <1>5, OrderStep
<1>12. LostInv' /\ CommittedOnShards'
  BY <1>1, <1>3, LostStep
<1>13. ReadInv'
  BY <1>1, <1>3, ReadStep
<1>14. IdsInv /\ KeysInv /\ ActiveInv /\ AuditedInv
  BY <1>1 DEF RuleInv
<1>15. RuleInv'
  <2>1. IdsInv'
    BY <1>1, <1>4, <1>14, IdsStep
  <2>2. KeysInv'
    BY <1>1, <1>14, KeysStep
  <2>3. ActiveInv'
    BY <1>1, <1>3, <1>14, ActiveStep
  <2>4. AuditedInv'
    BY <1>1, <1>4, <1>14, AuditedStep
  <2>. QED
    BY <2>1, <2>2, <2>3, <2>4 DEF RuleInv
<1>16. RetireInv'
  BY <1>1, <1>3, <1>4, RetireStep
<1>. QED
  BY <1>3, <1>5, <1>6, <1>7, <1>8, <1>9, <1>10, <1>11, <1>12, <1>13, <1>15, <1>16 DEF StoreInv

\* The invariant holds in every reachable state, for any number of threads,
\* references, days, operations and faults, and any size of the files.
THEOREM StoreInvariant == Spec => []StoreInv
<1>1. Init => StoreInv
  BY ConstantsAssumption, InitialStore
<1>2. StoreInv /\ [Next]_vars => StoreInv'
  BY ConstantsAssumption, StoreStep, StutterStep
<1>. QED
  BY <1>1, <1>2, PTL DEF Spec

\* The invariant has the types of the module.
LEMMA TypedStore == ASSUME TypeInv, LockInv PROVE TypeOK
<1>1. \A tables \in {db, view} :
        /\ \A k \in Kind : tables[k] \subseteq Record[k]
        /\ tables.intakes \subseteq Nat
  <2>1. \A tables \in Tables : \A k \in Kind : tables[k] \subseteq Record[k]
    BY DEF Tables, Kind
  <2>2. \A tables \in Tables : tables.intakes \subseteq Nat
    BY DEF Tables
  <2>. QED
    BY <2>1, <2>2 DEF TypeInv
<1>2. \A k \in Kind : \A d \in Day : \A n \in DOMAIN shards[k][d] : shards[k][d][n] \in Line(k)
  <2>1. \A k \in Kind : \A d \in Day : shards[k][d] \in Seq(Line(k))
    BY DEF TypeInv
  <2>. QED
    BY <2>1
<1>3. /\ ctl.stage \in {"idle", "reading", "replaced", "failed", "done"}
      /\ recon.stage \in {"idle", "listed"}
  BY DEF TypeInv, Controller, Reconciler
<1>4. \A t \in Thread : session[t].locked => session[t].open
  BY DEF LockInv
<1>. QED
  BY <1>1, <1>2, <1>3, <1>4 DEF TypeOK, TypeInv

\* TYPE. Files hold lines of their kind and tables rows of theirs, in all
\* interleavings of the server, a rebuild and Reconcile.
THEOREM StoreTyped == Spec => []TypeOK
<1>1. StoreInv => TypeOK
  BY TypedStore DEF StoreInv
<1>. QED
  BY <1>1, StoreInvariant, PTL

\* SAFETY. Two committed changes of a suggestion stand on the shards in the
\* order of their commits, by the path of the file and the line in it: the order
\* a rebuild replays them in (SaveItem, UpdateItem, RebuildIndex).
THEOREM ReplayIsInOrder == Spec => []ReplayOrder
<1>1. StoreInv => ReplayOrder
  BY DEF StoreInv
<1>. QED
  BY <1>1, StoreInvariant, PTL

\* SAFETY. Every committed row has its line on the shards, except one at most for
\* each line that a write which failed before it has spoiled (Writer.Append).
THEOREM CommittedIsOnShards == Spec => []CommittedOnShards
<1>1. StoreInv => CommittedOnShards
  BY DEF StoreInv
<1>. QED
  BY <1>1, StoreInvariant, PTL

\* SAFETY. Rows that refer to a suggestion keep it, also while a rebuild deletes
\* and replaces all suggestions (the foreign keys of 0003_civic_workflow.sql).
THEOREM IntakesStayIntact == Spec => []IntakesIntact
<1>1. StoreInv => IntakesIntact
  BY DEF StoreInv, IntakeInv, IntakesIntact
<1>. QED
  BY <1>1, StoreInvariant, PTL

\* SAFETY. A rule that a committed transaction has superseded is not in force
\* again, however often the index is lost and rebuilt, as long as the audit is
\* whole and readable (postProcessRebuild).
THEOREM RetiredRulesStayRetired == Spec => []RetiredStayRetired
<1>1. StoreInv => RetiredStayRetired
  BY RetireParts DEF StoreInv, AuditFull, RetiredInactive, RetiredStayRetired
<1>. QED
  BY <1>1, StoreInvariant, PTL

\* SAFETY. Reconcile reports no record as missing: no file has fewer lines than
\* the manifest of the last rebuild counts.
THEOREM NothingReportedMissing == Spec => []NoFalseMissing
<1>1. StoreInv => NoFalseMissing
  BY NothingMissing DEF StoreInv
<1>. QED
  BY <1>1, StoreInvariant, PTL

\* SAFETY. When a rebuild commits, each suggestion whose last committed line it
\* has read is restored to that state or to one written later.
THEOREM RebuildIsFaithful == Spec => RebuildKeepsLatest
<1>1. StoreInv /\ [Next]_vars =>
        [RebuildCommit =>
           \A row \in LastCommitted : WasRead(row) =>
             \E new \in db'.items :
               /\ new.key = row.key
               /\ new = row \/ \A p \in Places(row), q \in Places(new) : Before(p, q)]_vars
  BY ConstantsAssumption, RebuildKeepsStep DEF StoreInv
<1>. QED
  BY <1>1, StoreInvariant, PTL DEF Spec, RebuildKeepsLatest

=============================================================================
