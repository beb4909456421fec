---------------------------- MODULE Counter_proofs ----------------------------
(* Proofs about Counter, for every set of requests, bodies, colors and       *)
(* systems, and any number of crashes and dumps.                             *)
EXTENDS Counter, FiniteSetTheorems, TLAPS

Tables == [colors : [Keys -> Nat], os : [Slugs -> Nat]]
Stages == {"idle", "limit", "decode", "begin", "color", "os", "commit", "reply", "done"}
Errors == {"400", "429", "500"}
Reads  == [step : {"idle", "open", "colors", "os", "write"}, colors : [Keys -> Nat], os : [Slugs -> Nat]]
Files  == [state : {"absent", "torn", "whole"}, colors : [Keys -> Nat], os : [Slugs -> Nat]]

TypeInv ==
    /\ pc \in [Reqs -> Stages]
    /\ body \in [Reqs -> Bodies \cup {Garbage}]
    /\ status \in [Reqs -> Errors \cup {"none", "204"}]
    /\ heard \in [Reqs -> Errors \cup {"nothing", "204"}]
    /\ conn \in Reqs \cup {NoReq}
    /\ view \in Tables /\ db \in Tables
    /\ counted \subseteq Reqs /\ IsFiniteSet(counted)
    /\ dump \in Reads /\ file \in Files

Accepted(r) == body[r] # Garbage /\ Delta(r).ok

\* What the two statements of a transaction make of the tables t.
Colored(t, d) == IF d.Hex # NoHex /\ d.ColorPts # 0
                 THEN [t EXCEPT !.colors[d.Hex] = @ + d.ColorPts] ELSE t
Scored(t, d)  == IF d.OsPts # 0
                 THEN [Colored(t, d) EXCEPT !.os[d.Slug] = @ + d.OsPts] ELSE Colored(t, d)

\* The connection is the lock: what its holder sees is the tables as they are
\* committed, with its own points.
TxInv(r) ==
    /\ pc[r] \in {"color", "os", "commit"} <=> conn = r
    /\ pc[r] \in {"begin", "color", "os", "commit"} => Accepted(r)
    /\ pc[r] = "color"  => view = db
    /\ pc[r] = "os"     => view = Colored(db, Delta(r))
    /\ pc[r] = "commit" => view = Scored(db, Delta(r))

\* A status is decided on when the fate of the transaction is.
FateInv(r) ==
    /\ r \in counted => pc[r] \in {"reply", "done"} /\ Accepted(r)
    /\ pc[r] = "reply" => /\ status[r] \in Errors \cup {"204"}
                          /\ status[r] = "204" <=> r \in counted
    /\ pc[r] # "done" => heard[r] = "nothing"
    /\ heard[r] = "204" => r \in counted
    /\ heard[r] \in Errors => r \notin counted

IInv == TypeInv /\ \A r \in Reqs : TxInv(r) /\ FateInv(r)

\* An accepted event is one of two kinds, and its delta one of two shapes.
LEMMA DeltaShape ==
    ASSUME NEW b \in Bodies, b # Garbage, Validate(b).ok
    PROVE  LET d == Validate(b) IN
           \/ /\ IsColorEvent(b) /\ b.kind # "osview" /\ b.os \in Slugs /\ b.hex \in Keys
              /\ d.Hex = <<b.hex[1], "lower">> /\ d.Hex \in Keys /\ d.Hex # NoHex
              /\ d.Slug = b.os /\ d.ColorPts = 3 /\ d.OsPts = 3
           \/ /\ ~IsColorEvent(b) /\ b.kind = "osview" /\ b.os \in Slugs
              /\ d.Hex = NoHex /\ d.Slug = b.os /\ d.ColorPts = 0 /\ d.OsPts = 1
  <1>1. CASE b.kind \in {"copy", "download"} /\ ValidHex(b.hex) /\ ValidSlug(b.os)
    <2>1. Validate(b) = [ok |-> TRUE, Hex |-> ToLower(b.hex), ColorPts |-> 3, Slug |-> b.os, OsPts |-> 3]
      BY <1>1 DEF Validate
    <2>2. b.hex \in Keys /\ b.os \in Slugs
      BY <1>1 DEF ValidHex, ValidSlug
    <2>3. <<b.hex[1], "lower">> \in Keys /\ <<b.hex[1], "lower">> # NoHex
      BY <2>2, CounterAssumption DEF Keys, Cases, NoHex
    <2> QED
      BY <1>1, <2>1, <2>2, <2>3 DEF IsColorEvent, ToLower
  <1>2. CASE ~(b.kind \in {"copy", "download"} /\ ValidHex(b.hex) /\ ValidSlug(b.os))
    <2>1. Validate(b) = IF b.kind = "osview" /\ ValidSlug(b.os)
                        THEN [ok |-> TRUE, Hex |-> NoHex, ColorPts |-> 0, Slug |-> b.os, OsPts |-> 1]
                        ELSE Invalid
      BY <1>2 DEF Validate
    <2>2. b.kind = "osview" /\ ValidSlug(b.os)
      BY <2>1 DEF Invalid
    <2> QED
      BY <2>1, <2>2 DEF IsColorEvent, ValidSlug
  <1> QED
    BY <1>1, <1>2

\* What an accepted event does to the tables.
LEMMA ScoredShape ==
    ASSUME NEW t \in Tables, NEW b \in Bodies, b # Garbage, Validate(b).ok
    PROVE  LET d == Validate(b)
               c == <<b.hex[1], "lower">> IN
           /\ Colored(t, d) \in Tables /\ Scored(t, d) \in Tables
           /\ \/ /\ IsColorEvent(b) /\ b.kind # "osview" /\ c \in Keys /\ b.os \in Slugs
                 /\ Scored(t, d).colors = [t.colors EXCEPT ![c] = @ + 3]
                 /\ Scored(t, d).os = [t.os EXCEPT ![b.os] = @ + 3]
              \/ /\ ~IsColorEvent(b) /\ b.kind = "osview" /\ b.os \in Slugs
                 /\ Scored(t, d).colors = t.colors
                 /\ Scored(t, d).os = [t.os EXCEPT ![b.os] = @ + 1]
  <1> DEFINE d == Validate(b)
             c == <<b.hex[1], "lower">>
  <1>1. CASE /\ IsColorEvent(b) /\ b.kind # "osview" /\ b.os \in Slugs /\ b.hex \in Keys
             /\ d.Hex = c /\ d.Hex \in Keys /\ d.Hex # NoHex
             /\ d.Slug = b.os /\ d.ColorPts = 3 /\ d.OsPts = 3
    <2> HIDE DEF d, c
    <2>1. Colored(t, d) = [t EXCEPT !.colors[c] = @ + 3]
      BY <1>1 DEF Colored
    <2>2. Colored(t, d) \in Tables
      BY <1>1, <2>1 DEF Tables
    <2>3. Scored(t, d) = [Colored(t, d) EXCEPT !.os[b.os] = @ + 3]
      BY <1>1 DEF Scored
    <2>4. /\ Scored(t, d) \in Tables
          /\ Scored(t, d).colors = [t.colors EXCEPT ![c] = @ + 3]
          /\ Scored(t, d).os = [t.os EXCEPT ![b.os] = @ + 3]
      <3>1. DOMAIN Colored(t, d) = {"colors", "os"} /\ DOMAIN t = {"colors", "os"}
        BY <2>2 DEF Tables
      <3>2. /\ Colored(t, d).colors = [t.colors EXCEPT ![c] = @ + 3]
            /\ Colored(t, d).os = t.os
        BY <2>1, <3>1
      <3>3. /\ Scored(t, d).colors = Colored(t, d).colors
            /\ Scored(t, d).os = [Colored(t, d).os EXCEPT ![b.os] = @ + 3]
        BY <2>3, <3>1
      <3>4. Scored(t, d) \in Tables
        BY <1>1, <2>2, <2>3 DEF Tables
      <3> QED
        BY <3>2, <3>3, <3>4
    <2> QED
      BY <1>1, <2>2, <2>4 DEF d, c
  <1>2. CASE /\ ~IsColorEvent(b) /\ b.kind = "osview" /\ b.os \in Slugs
             /\ d.Hex = NoHex /\ d.Slug = b.os /\ d.ColorPts = 0 /\ d.OsPts = 1
    <2> HIDE DEF d
    <2>1. Colored(t, d) = t
      BY <1>2 DEF Colored
    <2>2. Scored(t, d) = [t EXCEPT !.os[b.os] = @ + 1]
      BY <1>2, <2>1 DEF Scored
    <2>3. /\ Scored(t, d) \in Tables /\ Scored(t, d).colors = t.colors
          /\ Scored(t, d).os = [t.os EXCEPT ![b.os] = @ + 1]
      BY <1>2, <2>2 DEF Tables
    <2> QED
      BY <1>2, <2>1, <2>3 DEF d
  <1> QED
    BY <1>1, <1>2, DeltaShape

LEMMA NoReads ==
    /\ Empty.colors \in [Keys -> Nat] /\ Empty.os \in [Slugs -> Nat]
    /\ NotDumping \in Reads
  <1>1. Empty.colors = [k \in Keys |-> 0] /\ Empty.os = [s \in Slugs |-> 0]
    BY DEF Empty
  <1>2. Empty.colors \in [Keys -> Nat] /\ Empty.os \in [Slugs -> Nat]
    BY <1>1
  <1> HIDE DEF Empty
  <1> QED
    BY <1>2 DEF NotDumping, Reads

LEMMA InitInv == Init => IInv
  <1> SUFFICES ASSUME Init PROVE IInv
    OBVIOUS
  <1>1. Empty \in Tables
    BY DEF Empty, Tables
  <1>2. TypeInv
    <2>1. counted \subseteq Reqs /\ IsFiniteSet(counted)
      BY FS_EmptySet DEF Init
    <2>2. dump \in Reads /\ file \in Files
      BY NoReads DEF Init, Files
    <2>3. view \in Tables /\ db \in Tables
      BY <1>1 DEF Init
    <2> QED
      BY <2>1, <2>2, <2>3 DEF Init, TypeInv, Stages
  <1>3. ASSUME NEW r \in Reqs PROVE TxInv(r) /\ FateInv(r)
    BY CounterAssumption DEF Init, TxInv, FateInv, Errors
  <1> QED
    BY <1>2, <1>3 DEF IInv

\* A step that leaves the store and the handlers alone keeps the invariant.
LEMMA OtherStep ==
    ASSUME IInv, UNCHANGED <<reqvars, storevars>>, dump' \in Reads, file' \in Files
    PROVE  IInv'
  BY DEF IInv, TypeInv, TxInv, FateInv, Accepted, Delta, reqvars, storevars

\* While r holds the connection nobody else is between Begin and Commit.
LEMMA OneHolder ==
    ASSUME IInv, NEW r \in Reqs, pc[r] \in {"color", "os", "commit"}, NEW q \in Reqs, q # r
    PROVE  conn = r /\ pc[q] \notin {"color", "os", "commit"}
  BY DEF IInv, TxInv

\* A handler that decides on an error without holding the connection.
LEMMA RefusesEarly ==
    ASSUME IInv, NEW r \in Reqs, pc[r] \in {"limit", "decode", "begin"},
           NEW code \in Errors, Answer(r, code), UNCHANGED <<storevars, dump, file, body, heard>>
    PROVE  IInv'
  <1>1. /\ pc' = [pc EXCEPT ![r] = "reply"] /\ status' = [status EXCEPT ![r] = code]
        /\ conn' = conn /\ view' = view /\ db' = db /\ counted' = counted
    BY DEF Answer, Goto, storevars
  <1>2. TypeInv'
    BY <1>1 DEF IInv, TypeInv, Stages
  <1>3. r \notin counted /\ heard[r] = "nothing"
    BY DEF IInv, FateInv
  <1>4. ASSUME NEW q \in Reqs PROVE TxInv(q)' /\ FateInv(q)'
    BY <1>1, <1>3 DEF IInv, TypeInv, TxInv, FateInv, Accepted, Delta, Errors
  <1> QED
    BY <1>2, <1>4 DEF IInv

\* A handler whose statement or commit fails gives the connection back.
LEMMA FailKeeps ==
    ASSUME IInv, NEW r \in Reqs, pc[r] \in {"color", "os", "commit"},
           Fail(r), UNCHANGED <<dump, file, body, heard>>
    PROVE  IInv'
  <1>1. /\ pc' = [pc EXCEPT ![r] = "reply"] /\ status' = [status EXCEPT ![r] = "500"]
        /\ conn' = NoReq /\ view' = Empty /\ db' = db /\ counted' = counted
    BY DEF Fail, Rollback, Answer, Goto
  <1>2. TypeInv'
    BY <1>1 DEF IInv, TypeInv, Stages, Errors, Empty, Tables
  <1>3. r \notin counted /\ heard[r] = "nothing" /\ conn = r
    BY DEF IInv, FateInv, TxInv
  <1>4. ASSUME NEW q \in Reqs PROVE TxInv(q)' /\ FateInv(q)'
    BY <1>1, <1>3, CounterAssumption DEF IInv, TypeInv, TxInv, FateInv, Accepted, Delta, Errors
  <1> QED
    BY <1>2, <1>4 DEF IInv

LEMMA ArriveKeeps == ASSUME IInv, NEW r \in Reqs, Arrive(r) PROVE IInv'
  <1>1. /\ pc[r] = "idle" /\ pc' = [pc EXCEPT ![r] = "limit"]
        /\ \E b \in Bodies : body' = [body EXCEPT ![r] = b]
        /\ status' = status /\ heard' = heard
        /\ conn' = conn /\ view' = view /\ db' = db /\ counted' = counted
        /\ dump' = dump /\ file' = file
    BY DEF Arrive, Goto, storevars, dumpvars
  <1>2. TypeInv'
    BY <1>1 DEF IInv, TypeInv, Stages
  <1>3. r \notin counted
    BY <1>1 DEF IInv, FateInv
  <1>4. ASSUME NEW q \in Reqs PROVE TxInv(q)' /\ FateInv(q)'
    <2>1. q # r => body'[q] = body[q] /\ pc'[q] = pc[q]
      BY <1>1 DEF IInv, TypeInv
    <2>2. pc'[r] = "limit"
      BY <1>1 DEF IInv, TypeInv
    <2> QED
      BY <1>1, <1>3, <2>1, <2>2 DEF IInv, TxInv, FateInv, Accepted, Delta
  <1> QED
    BY <1>2, <1>4 DEF IInv

LEMMA LimitKeeps == ASSUME IInv, NEW r \in Reqs, Limit(r) PROVE IInv'
  <1>1. CASE Answer(r, "429")
    BY <1>1, RefusesEarly DEF Limit, dumpvars, Errors
  <1>2. CASE Goto(r, "decode") /\ UNCHANGED status
    <2>1. TypeInv'
      BY <1>2 DEF Limit, Goto, IInv, TypeInv, Stages, storevars, dumpvars
    <2>2. ASSUME NEW q \in Reqs PROVE TxInv(q)' /\ FateInv(q)'
      BY <1>2 DEF Limit, Goto, storevars, IInv, TypeInv, TxInv, FateInv, Accepted, Delta
    <2> QED
      BY <2>1, <2>2 DEF IInv
  <1> QED
    BY <1>1, <1>2 DEF Limit

LEMMA DecodeKeeps == ASSUME IInv, NEW r \in Reqs, Decode(r) PROVE IInv'
  <1>1. CASE Answer(r, "400")
    BY <1>1, RefusesEarly DEF Decode, dumpvars, Errors
  <1>2. CASE body[r] # Garbage /\ Validate(body[r]).ok /\ Goto(r, "begin") /\ UNCHANGED status
    <2>1. TypeInv'
      BY <1>2 DEF Decode, Goto, IInv, TypeInv, Stages, storevars, dumpvars
    <2>2. ASSUME NEW q \in Reqs PROVE TxInv(q)' /\ FateInv(q)'
      BY <1>2 DEF Decode, Goto, storevars, IInv, TypeInv, TxInv, FateInv, Accepted, Delta
    <2> QED
      BY <2>1, <2>2 DEF IInv
  <1> QED
    BY <1>1, <1>2 DEF Decode

LEMMA BeginKeeps == ASSUME IInv, NEW r \in Reqs, Begin(r) PROVE IInv'
  <1>1. CASE Answer(r, "500") /\ UNCHANGED storevars
    BY <1>1, RefusesEarly DEF Begin, dumpvars, Errors
  <1>2. CASE /\ conn = NoReq /\ conn' = r /\ view' = db
             /\ Goto(r, "color") /\ UNCHANGED <<status, db, counted>>
    <2>1. TypeInv'
      BY <1>2 DEF Begin, Goto, IInv, TypeInv, Stages, dumpvars
    <2>2. ASSUME NEW q \in Reqs PROVE TxInv(q)' /\ FateInv(q)'
      BY <1>2, CounterAssumption DEF Begin, Goto, IInv, TypeInv, TxInv, FateInv, Accepted, Delta
    <2> QED
      BY <2>1, <2>2 DEF IInv
  <1> QED
    BY <1>1, <1>2 DEF Begin

LEMMA ColorKeeps == ASSUME IInv, NEW r \in Reqs, ExecColor(r) PROVE IInv'
  <1>1. CASE Fail(r)
    BY <1>1, FailKeeps DEF ExecColor, dumpvars
  <1>2. CASE /\ view' = AddColor(Delta(r))
             /\ Goto(r, "os") /\ UNCHANGED <<status, conn, db, counted>>
    <2>1. Accepted(r) /\ view = db /\ body[r] \in Bodies /\ db \in Tables
      BY <1>2 DEF ExecColor, IInv, TxInv, TypeInv, Accepted
    <2>2. view' = Colored(db, Delta(r)) /\ Colored(db, Delta(r)) \in Tables
      BY <1>2, <2>1, ScoredShape DEF AddColor, Colored, Accepted, Delta
    <2>3. TypeInv'
      BY <1>2, <2>2 DEF ExecColor, Goto, IInv, TypeInv, Stages, dumpvars
    <2>4. ASSUME NEW q \in Reqs PROVE TxInv(q)' /\ FateInv(q)'
      BY <1>2, <2>2, OneHolder DEF ExecColor, Goto, IInv, TypeInv, TxInv, FateInv, Accepted, Delta
    <2> QED
      BY <2>3, <2>4 DEF IInv
  <1> QED
    BY <1>1, <1>2 DEF ExecColor

LEMMA OsKeeps == ASSUME IInv, NEW r \in Reqs, ExecOs(r) PROVE IInv'
  <1>1. CASE Fail(r)
    BY <1>1, FailKeeps DEF ExecOs, dumpvars
  <1>2. CASE /\ view' = AddOs(Delta(r))
             /\ Goto(r, "commit") /\ UNCHANGED <<status, conn, db, counted>>
    <2>1. Accepted(r) /\ view = Colored(db, Delta(r)) /\ body[r] \in Bodies /\ db \in Tables
      BY <1>2 DEF ExecOs, IInv, TxInv, TypeInv, Accepted
    <2>2. view' = Scored(db, Delta(r)) /\ Scored(db, Delta(r)) \in Tables
      BY <1>2, <2>1, ScoredShape DEF AddOs, Scored, Accepted, Delta
    <2>3. TypeInv'
      BY <1>2, <2>2 DEF ExecOs, Goto, IInv, TypeInv, Stages, dumpvars
    <2>4. ASSUME NEW q \in Reqs PROVE TxInv(q)' /\ FateInv(q)'
      BY <1>2, <2>2, OneHolder DEF ExecOs, Goto, IInv, TypeInv, TxInv, FateInv, Accepted, Delta
    <2> QED
      BY <2>3, <2>4 DEF IInv
  <1> QED
    BY <1>1, <1>2 DEF ExecOs

LEMMA CommitKeeps == ASSUME IInv, NEW r \in Reqs, Commit(r) PROVE IInv'
  <1>1. CASE Fail(r)
    BY <1>1, FailKeeps DEF Commit, dumpvars
  <1>2. CASE /\ db' = view /\ counted' = counted \cup {r}
             /\ conn' = NoReq /\ view' = Empty /\ Answer(r, "204")
    <2>1. Accepted(r) /\ r \notin counted /\ heard[r] = "nothing" /\ conn = r
      BY <1>2 DEF Commit, IInv, TxInv, FateInv
    <2>2. IsFiniteSet(counted')
      BY <1>2, FS_AddElement DEF IInv, TypeInv
    <2>3. Empty \in Tables
      BY DEF Empty, Tables
    <2>4. TypeInv'
      BY <1>2, <2>2, <2>3 DEF Commit, Answer, Goto, IInv, TypeInv, Stages, dumpvars
    <2>5. ASSUME NEW q \in Reqs PROVE TxInv(q)' /\ FateInv(q)'
      BY <1>2, <2>1, OneHolder, CounterAssumption
         DEF Commit, Answer, Goto, IInv, TypeInv, TxInv, FateInv, Accepted, Delta, Errors
    <2> QED
      BY <2>4, <2>5 DEF IInv
  <1> QED
    BY <1>1, <1>2 DEF Commit

LEMMA ReplyKeeps == ASSUME IInv, NEW r \in Reqs, Reply(r) PROVE IInv'
  <1>1. status[r] \in Errors \cup {"204"} /\ (status[r] = "204" <=> r \in counted)
    BY DEF Reply, IInv, FateInv
  <1>2. TypeInv'
    BY <1>1 DEF Reply, Goto, IInv, TypeInv, Stages, storevars, dumpvars
  <1>3. ASSUME NEW q \in Reqs PROVE TxInv(q)' /\ FateInv(q)'
    BY <1>1 DEF Reply, Goto, storevars, IInv, TypeInv, TxInv, FateInv, Accepted, Delta, Errors
  <1> QED
    BY <1>2, <1>3 DEF IInv

\* A death ends the handlers and their transaction, and nothing that was
\* committed or told.
LEMMA GoneKeeps == IInv /\ Gone => IInv'
  <1> SUFFICES ASSUME IInv, Gone PROVE IInv'
    OBVIOUS
  <1>1. TypeInv'
    <2>1. Empty \in Tables
      BY DEF Empty, Tables
    <2> QED
      BY <2>1 DEF Gone, IInv, TypeInv, Stages, dumpvars
  <1>2. ASSUME NEW q \in Reqs PROVE TxInv(q)' /\ FateInv(q)'
    <2>1. pc'[q] \in {"idle", "done"} /\ (pc[q] = "done" => pc'[q] = "done")
          /\ (pc[q] # "idle" => pc'[q] = "done") /\ (pc[q] = "idle" => pc'[q] = "idle")
      BY DEF Gone, InFlight, IInv, TypeInv
    <2> QED
      BY <2>1, CounterAssumption DEF Gone, IInv, TypeInv, TxInv, FateInv, Accepted, Delta
  <1> QED
    BY <1>1, <1>2 DEF IInv

LEMMA DumpTypes ==
    ASSUME IInv, DumpOpen \/ DumpStep \/ DumpFails
    PROVE  dump' \in Reads /\ file' \in Files /\ UNCHANGED <<reqvars, storevars>>
  <1>1. /\ dump \in Reads /\ file \in Files
        /\ db.colors \in [Keys -> Nat] /\ db.os \in [Slugs -> Nat]
    BY DEF IInv, TypeInv, Tables
  <1>2. UNCHANGED <<reqvars, storevars>>
    BY DEF DumpOpen, DumpStep, DumpRead, DumpTruncate, DumpWrite, DumpFails
  <1>3. CASE DumpOpen
    <2>1. dump' \in Reads
      BY <1>1, <1>3 DEF DumpOpen, Reads
    <2> QED
      BY <1>1, <1>2, <1>3, <2>1 DEF DumpOpen
  <1>4. CASE DumpRead
    <2>1. dump' \in Reads
      BY <1>1, <1>4 DEF DumpRead, Reads
    <2> QED
      BY <1>1, <1>2, <1>4, <2>1 DEF DumpRead
  <1>5. CASE DumpTruncate
    <2>1. dump' \in Reads
      BY <1>1, <1>5 DEF DumpTruncate, Reads
    <2>2. file' \in Files
      BY <1>5, NoReads DEF DumpTruncate, Files
    <2> QED
      BY <1>2, <2>1, <2>2
  <1>6. CASE DumpWrite
    <2>1. dump.colors \in [Keys -> Nat] /\ dump.os \in [Slugs -> Nat]
      BY <1>1 DEF Reads
    <2>2. file' \in Files
      BY <1>6, <2>1 DEF DumpWrite, Files
    <2> QED
      BY <1>2, <1>6, <2>2, NoReads DEF DumpWrite
  <1>7. CASE DumpFails
    BY <1>1, <1>2, <1>7, NoReads DEF DumpFails
  <1> QED
    BY <1>3, <1>4, <1>5, <1>6, <1>7 DEF DumpStep

LEMMA NextKeeps == IInv /\ [Next]_vars => IInv'
  <1> SUFFICES ASSUME IInv, [Next]_vars PROVE IInv'
    OBVIOUS
  <1>0. dump \in Reads /\ file \in Files
    BY DEF IInv, TypeInv
  <1>1. ASSUME NEW r \in Reqs, Arrive(r) \/ Handle(r) PROVE IInv'
    BY <1>1, ArriveKeeps, LimitKeeps, DecodeKeeps, BeginKeeps, ColorKeeps, OsKeeps,
       CommitKeeps, ReplyKeeps DEF Handle
  <1>2. CASE Start \/ Stop \/ ShutdownReturns
    BY <1>0, <1>2, OtherStep DEF Start, Stop, ShutdownReturns, dumpvars
  <1>3. CASE Exit \/ Crash
    BY <1>3, GoneKeeps DEF Exit, Crash
  <1>4. CASE DumpOpen \/ DumpStep \/ DumpFails
    BY <1>4, DumpTypes, OtherStep
  <1>5. CASE UNCHANGED vars
    BY <1>0, <1>5, OtherStep DEF vars, dumpvars
  <1> QED
    BY <1>1, <1>2, <1>3, <1>4, <1>5 DEF Next

LEMMA Inductive == Spec => []IInv
  BY InitInv, NextKeeps, PTL DEF Spec

\* A client that hears 204 has been counted for good and one that hears an
\* error has not, whatever fails and whenever the server dies (server.go:60-64).
THEOREM ToldTheTruth == Spec => []HeardIsSo
  <1>1. IInv => HeardIsSo
    BY DEF IInv, FateInv, HeardIsSo, Errors
  <1> QED
    BY <1>1, Inductive, PTL

----------------------------------------------------------------------------
(* The tables against the requests.                                         *)

\* The transaction of r goes through.
Committed(r) == /\ pc[r] = "commit" /\ db' = view /\ counted' = counted \cup {r}
                /\ UNCHANGED <<body, heard, dump, file>>

\* Every other step leaves the tables and the counted requests as they are.
Untouched == UNCHANGED <<db, counted>> /\ \A r \in counted : body'[r] = body[r]

LEMMA StepShape ==
    ASSUME IInv, [Next]_vars
    PROVE  Untouched \/ \E r \in Reqs : Committed(r)
  <1>1. ASSUME NEW r \in Reqs, Arrive(r) PROVE Untouched
    <2>1. r \notin counted /\ body \in [Reqs -> Bodies \cup {Garbage}] /\ counted \subseteq Reqs
      BY <1>1 DEF Arrive, IInv, TypeInv, FateInv
    <2> QED
      BY <1>1, <2>1 DEF Arrive, Untouched, storevars
  <1>2. ASSUME NEW r \in Reqs, Commit(r) PROVE Untouched \/ Committed(r)
    BY <1>2 DEF Commit, Committed, Untouched, Fail, Rollback, dumpvars
  <1>3. ASSUME NEW r \in Reqs, Handle(r) PROVE Untouched \/ Committed(r)
    BY <1>2, <1>3 DEF Handle, Limit, Decode, Begin, ExecColor, ExecOs, Reply, Fail, Rollback,
                      storevars, Untouched
  <1>4. CASE Start \/ Stop \/ ShutdownReturns \/ Exit \/ Crash
    BY <1>4 DEF Start, Stop, ShutdownReturns, Exit, Crash, Gone, reqvars, storevars, Untouched
  <1>5. CASE DumpOpen \/ DumpStep \/ DumpFails
    BY <1>5, DumpTypes DEF reqvars, storevars, Untouched
  <1>6. CASE UNCHANGED vars
    BY <1>6 DEF vars, reqvars, storevars, Untouched
  <1> QED
    BY <1>1, <1>3, <1>4, <1>5, <1>6 DEF Next

\* What a commit adds to the tables.
LEMMA CommitShape ==
    ASSUME IInv, NEW r \in Reqs, Committed(r)
    PROVE  /\ r \notin counted /\ db \in Tables /\ body[r] # Garbage
           /\ \/ /\ IsColorEvent(body[r]) /\ body[r].kind # "osview"
                 /\ <<body[r].hex[1], "lower">> \in Keys /\ body[r].os \in Slugs
                 /\ db'.colors = [db.colors EXCEPT ![<<body[r].hex[1], "lower">>] = @ + 3]
                 /\ db'.os = [db.os EXCEPT ![body[r].os] = @ + 3]
              \/ /\ ~IsColorEvent(body[r]) /\ body[r].kind = "osview" /\ body[r].os \in Slugs
                 /\ db'.colors = db.colors
                 /\ db'.os = [db.os EXCEPT ![body[r].os] = @ + 1]
  <1>1. /\ Accepted(r) /\ r \notin counted /\ db \in Tables /\ body[r] \in Bodies \cup {Garbage}
        /\ db' = Scored(db, Delta(r))
    BY DEF Committed, IInv, TypeInv, TxInv, FateInv
  <1>2. body[r] \in Bodies /\ body[r] # Garbage /\ Validate(body[r]).ok
    BY <1>1 DEF Accepted, Delta
  <1> QED
    BY <1>1, <1>2, ScoredShape DEF Delta

\* One more element in a part of the counted requests is one more in its tally.
LEMMA OneMore ==
    ASSUME NEW S, IsFiniteSet(S), NEW r, r \notin S, NEW P
    PROVE  LET A == {x \in S : x \in P}
               B == {x \in S \cup {r} : x \in P} IN
           /\ Cardinality(A) \in Nat
           /\ r \in P => Cardinality(B) = Cardinality(A) + 1
           /\ r \notin P => B = A
  <1> DEFINE A == {x \in S : x \in P}
             B == {x \in S \cup {r} : x \in P}
  <1>1. IsFiniteSet(A)
    BY FS_Subset
  <1>2. r \in P => B = A \cup {r} /\ r \notin A
    OBVIOUS
  <1>3. r \notin P => B = A
    OBVIOUS
  <1> HIDE DEF A, B
  <1>4. Cardinality(A) \in Nat
    BY <1>1, FS_CardinalityType
  <1>5. r \in P => Cardinality(B) = Cardinality(A) + 1
    BY <1>1, <1>2, FS_AddElement
  <1> QED
    BY <1>3, <1>4, <1>5 DEF A, B

LEMMA TallyKeeps == IInv /\ LedgerExact /\ [Next]_vars => LedgerExact'
  <1> SUFFICES ASSUME IInv, LedgerExact, [Next]_vars PROVE LedgerExact'
    OBVIOUS
  <1>1. CASE Untouched
    <2>1. ASSUME NEW c PROVE ColorTally(c)' = ColorTally(c)
      <3>1. {r \in counted' : IsColorEvent(body'[r]) /\ body'[r].hex[1] = c}
            = {r \in counted : IsColorEvent(body[r]) /\ body[r].hex[1] = c}
        BY <1>1 DEF Untouched
      <3> QED
        BY <3>1 DEF ColorTally, IsColorEvent
    <2>2. ASSUME NEW s PROVE OsTally(s)' = OsTally(s)
      <3>1. {r \in counted' : IsColorEvent(body'[r]) /\ body'[r].os = s}
            = {r \in counted : IsColorEvent(body[r]) /\ body[r].os = s}
        BY <1>1 DEF Untouched
      <3>2. {r \in counted' : body'[r].kind = "osview" /\ body'[r].os = s}
            = {r \in counted : body[r].kind = "osview" /\ body[r].os = s}
        BY <1>1 DEF Untouched
      <3> QED
        BY <3>1, <3>2 DEF OsTally, IsColorEvent
    <2> QED
      BY <1>1, <2>1, <2>2 DEF Untouched, LedgerExact
  <1>2. ASSUME NEW r \in Reqs, Committed(r) PROVE LedgerExact'
    <2> DEFINE b == body[r]
    <2>1. /\ r \notin counted /\ IsFiniteSet(counted) /\ body' = body /\ counted' = counted \cup {r}
          /\ db.colors \in [Keys -> Nat] /\ db.os \in [Slugs -> Nat]
      BY <1>2, CommitShape DEF Committed, IInv, TypeInv, Tables
    <2>2. ASSUME NEW c
          PROVE  /\ ColorTally(c) \in Nat
                 /\ IsColorEvent(b) /\ b.hex[1] = c => ColorTally(c)' = ColorTally(c) + 3
                 /\ ~(IsColorEvent(b) /\ b.hex[1] = c) => ColorTally(c)' = ColorTally(c)
      <3> DEFINE P == {x \in Reqs : IsColorEvent(body[x]) /\ body[x].hex[1] = c}
                 A == {x \in counted : x \in P}
                 B == {x \in counted \cup {r} : x \in P}
      <3>1. ColorTally(c) = 3 * Cardinality(A)
        <4>1. A = {x \in counted : IsColorEvent(body[x]) /\ body[x].hex[1] = c}
          BY DEF IInv, TypeInv
        <4> QED
          BY <4>1 DEF ColorTally
      <3>2. ColorTally(c)' = 3 * Cardinality(B)
        <4>1. B = {x \in counted' : IsColorEvent(body'[x]) /\ body'[x].hex[1] = c}
          BY <2>1 DEF IInv, TypeInv
        <4> QED
          BY <4>1 DEF ColorTally, IsColorEvent
      <3>3. r \in P <=> IsColorEvent(b) /\ b.hex[1] = c
        OBVIOUS
      <3>4. /\ Cardinality(A) \in Nat
            /\ r \in P => Cardinality(B) = Cardinality(A) + 1
            /\ r \notin P => B = A
        BY <2>1, OneMore
      <3> HIDE DEF A, B, P
      <3> QED
        BY <3>1, <3>2, <3>3, <3>4
    <2>3. ASSUME NEW s
          PROVE  /\ OsTally(s) \in Nat
                 /\ IsColorEvent(b) /\ b.kind # "osview" /\ b.os = s => OsTally(s)' = OsTally(s) + 3
                 /\ ~IsColorEvent(b) /\ b.kind = "osview" /\ b.os = s => OsTally(s)' = OsTally(s) + 1
                 /\ b.os # s => OsTally(s)' = OsTally(s)
      <3> DEFINE P == {x \in Reqs : IsColorEvent(body[x]) /\ body[x].os = s}
                 Q == {x \in Reqs : body[x].kind = "osview" /\ body[x].os = s}
                 A == {x \in counted : x \in P}
                 B == {x \in counted \cup {r} : x \in P}
                 C == {x \in counted : x \in Q}
                 D == {x \in counted \cup {r} : x \in Q}
      <3>1. OsTally(s) = 3 * Cardinality(A) + Cardinality(C)
        <4>1. /\ A = {x \in counted : IsColorEvent(body[x]) /\ body[x].os = s}
              /\ C = {x \in counted : body[x].kind = "osview" /\ body[x].os = s}
          BY DEF IInv, TypeInv
        <4> QED
          BY <4>1 DEF OsTally
      <3>2. OsTally(s)' = 3 * Cardinality(B) + Cardinality(D)
        <4>1. /\ B = {x \in counted' : IsColorEvent(body'[x]) /\ body'[x].os = s}
              /\ D = {x \in counted' : body'[x].kind = "osview" /\ body'[x].os = s}
          BY <2>1 DEF IInv, TypeInv
        <4> QED
          BY <4>1 DEF OsTally, IsColorEvent
      <3>3. /\ r \in P <=> IsColorEvent(b) /\ b.os = s
            /\ r \in Q <=> b.kind = "osview" /\ b.os = s
        OBVIOUS
      <3>4. /\ Cardinality(A) \in Nat
            /\ r \in P => Cardinality(B) = Cardinality(A) + 1
            /\ r \notin P => B = A
        BY <2>1, OneMore
      <3>5. /\ Cardinality(C) \in Nat
            /\ r \in Q => Cardinality(D) = Cardinality(C) + 1
            /\ r \notin Q => D = C
        BY <2>1, OneMore
      <3> HIDE DEF A, B, C, D, P, Q
      <3> QED
        BY <3>1, <3>2, <3>3, <3>4, <3>5
    <2>4. \A c \in Colors : /\ db.colors[<<c, "lower">>] = ColorTally(c)
                            /\ db.colors[<<c, "upper">>] = 0
      BY DEF LedgerExact
    <2>5. \A s \in Slugs : db.os[s] = OsTally(s)
      BY DEF LedgerExact
    <2>8. \/ /\ IsColorEvent(b) /\ b.kind # "osview" /\ <<b.hex[1], "lower">> \in Keys /\ b.os \in Slugs
             /\ db'.colors = [db.colors EXCEPT ![<<b.hex[1], "lower">>] = @ + 3]
             /\ db'.os = [db.os EXCEPT ![b.os] = @ + 3]
          \/ /\ ~IsColorEvent(b) /\ b.kind = "osview" /\ b.os \in Slugs
             /\ db'.colors = db.colors
             /\ db'.os = [db.os EXCEPT ![b.os] = @ + 1]
      BY <1>2, CommitShape
    <2> HIDE DEF b
    <2>6. ASSUME NEW c \in Colors
          PROVE  db'.colors[<<c, "lower">>] = ColorTally(c)' /\ db'.colors[<<c, "upper">>] = 0
      <3>1. <<c, "lower">> \in Keys /\ <<c, "upper">> \in Keys
        BY DEF Keys, Cases
      <3>2. <<b.hex[1], "lower">> = <<c, "lower">> <=> b.hex[1] = c
        OBVIOUS
      <3>3. <<b.hex[1], "lower">> # <<c, "upper">>
        OBVIOUS
      <3>4. CASE ~IsColorEvent(b)
        BY <2>1, <2>2, <2>4, <2>8, <3>4
      <3>5. CASE IsColorEvent(b) /\ b.hex[1] = c
        BY <2>1, <2>2, <2>4, <2>8, <3>1, <3>2, <3>3, <3>5
      <3>6. CASE IsColorEvent(b) /\ b.hex[1] # c
        BY <2>1, <2>2, <2>4, <2>8, <3>1, <3>2, <3>3, <3>6
      <3> QED
        BY <3>4, <3>5, <3>6
    <2>7. ASSUME NEW s \in Slugs PROVE db'.os[s] = OsTally(s)'
      <3>1. CASE b.os # s
        BY <2>1, <2>3, <2>5, <2>8, <3>1
      <3>2. CASE b.os = s /\ IsColorEvent(b)
        BY <2>1, <2>3, <2>5, <2>8, <3>2
      <3>3. CASE b.os = s /\ ~IsColorEvent(b)
        BY <2>1, <2>3, <2>5, <2>8, <3>3
      <3> QED
        BY <3>1, <3>2, <3>3
    <2> QED
      BY <2>6, <2>7 DEF LedgerExact
  <1> QED
    BY <1>1, <1>2, StepShape

\* The tables hold exactly the points of the requests that were counted, through
\* failures half way, crashes and a store closed under way (store.go:51-78,
\* scoring.go:51).
THEOREM PointsExact == Spec => []LedgerExact
  <1>1. Init => LedgerExact
    <2> SUFFICES ASSUME Init PROVE LedgerExact
      OBVIOUS
    <2>1. \A c : ColorTally(c) = 0
      BY FS_EmptySet DEF Init, ColorTally
    <2>2. \A s : OsTally(s) = 0
      BY FS_EmptySet DEF Init, OsTally
    <2> QED
      BY <2>1, <2>2 DEF Init, Empty, LedgerExact, Keys, Cases
  <1> QED
    BY <1>1, TallyKeeps, Inductive, PTL DEF Spec

----------------------------------------------------------------------------
(* A dump against the tables.                                               *)

\* The points of t are points of the tables.
Behind(t) == /\ \A k \in Keys : t.colors[k] <= db.colors[k]
             /\ \A s \in Slugs : t.os[s] <= db.os[s]

\* Points are only ever added.
LEMMA TablesGrow ==
    ASSUME IInv, [Next]_vars
    PROVE  /\ \A k \in Keys : db.colors[k] \in Nat /\ db'.colors[k] \in Nat
                              /\ db.colors[k] <= db'.colors[k]
           /\ \A s \in Slugs : db.os[s] \in Nat /\ db'.os[s] \in Nat /\ db.os[s] <= db'.os[s]
  <1>1. db \in Tables /\ db' \in Tables
    <2>1. IInv'
      BY NextKeeps
    <2> QED
      BY <2>1 DEF IInv, TypeInv
  <1>2. CASE Untouched
    BY <1>1, <1>2 DEF Untouched, Tables
  <1>3. ASSUME NEW r \in Reqs, Committed(r)
        PROVE  /\ \A k \in Keys : db.colors[k] <= db'.colors[k]
               /\ \A s \in Slugs : db.os[s] <= db'.os[s]
    <2> DEFINE c == <<body[r].hex[1], "lower">>
               o == body[r].os
    <2>1. \/ /\ db'.colors = [db.colors EXCEPT ![c] = @ + 3]
             /\ db'.os = [db.os EXCEPT ![o] = @ + 3]
          \/ /\ db'.colors = db.colors
             /\ db'.os = [db.os EXCEPT ![o] = @ + 1]
      BY <1>3, CommitShape
    <2>2. db.colors \in [Keys -> Nat] /\ db.os \in [Slugs -> Nat]
      BY <1>1 DEF Tables
    <2> HIDE DEF c, o
    <2> QED
      BY <2>1, <2>2
  <1> QED
    BY <1>1, <1>2, <1>3, StepShape DEF Tables

LEMMA BehindKeeps == IInv /\ Behind(dump) /\ Behind(file) /\ [Next]_vars => Behind(dump)' /\ Behind(file)'
  <1> SUFFICES ASSUME IInv, Behind(dump), Behind(file), [Next]_vars PROVE Behind(dump)' /\ Behind(file)'
    OBVIOUS
  <1>1. dump \in Reads /\ file \in Files /\ db \in Tables
    BY DEF IInv, TypeInv
  <1>2. ASSUME NEW t, t.colors \in [Keys -> Nat], t.os \in [Slugs -> Nat], Behind(t)
        PROVE  /\ \A k \in Keys : t.colors[k] <= db'.colors[k]
               /\ \A s \in Slugs : t.os[s] <= db'.os[s]
    BY <1>2, TablesGrow DEF Behind
  <1>3. /\ \A k \in Keys : dump.colors[k] <= db'.colors[k] /\ file.colors[k] <= db'.colors[k]
        /\ \A s \in Slugs : dump.os[s] <= db'.os[s] /\ file.os[s] <= db'.os[s]
    BY <1>1, <1>2 DEF Reads, Files
  <1>4. /\ \A k \in Keys : 0 <= db'.colors[k] /\ db.colors[k] <= db'.colors[k]
        /\ \A s \in Slugs : 0 <= db'.os[s] /\ db.os[s] <= db'.os[s]
    BY TablesGrow
  <1>5. /\ \A k \in Keys : Empty.colors[k] = 0
        /\ \A s \in Slugs : Empty.os[s] = 0
    BY DEF Empty
  <1>6. CASE UNCHANGED <<dump, file>>
    BY <1>3, <1>6 DEF Behind
  <1>7. CASE DumpOpen \/ DumpRead
    <2>1. file' = file
      BY <1>7 DEF DumpOpen, DumpRead
    <2>2. \/ dump'.colors = dump.colors /\ dump'.os = dump.os
          \/ dump'.colors = db.colors /\ dump'.os = dump.os
          \/ dump'.colors = dump.colors /\ dump'.os = db.os
      BY <1>1, <1>7 DEF DumpOpen, DumpRead, Reads
    <2> QED
      BY <1>3, <1>4, <2>1, <2>2 DEF Behind
  <1>8. CASE DumpTruncate
    <2>1. /\ dump'.colors = dump.colors /\ dump'.os = dump.os
          /\ file'.colors = Empty.colors /\ file'.os = Empty.os
      BY <1>1, <1>8 DEF DumpTruncate, Reads
    <2> QED
      BY <1>3, <1>4, <1>5, <2>1 DEF Behind
  <1>9. CASE DumpWrite \/ DumpFails
    <2>1. dump'.colors = Empty.colors /\ dump'.os = Empty.os
      BY <1>9 DEF DumpWrite, DumpFails, NotDumping
    <2>2. \/ file' = file
          \/ file'.colors = dump.colors /\ file'.os = dump.os
      BY <1>9 DEF DumpWrite, DumpFails
    <2> QED
      BY <1>3, <1>4, <1>5, <2>1, <2>2 DEF Behind
  <1>10. UNCHANGED <<dump, file>> \/ DumpOpen \/ DumpStep \/ DumpFails
    BY DEF Next, Arrive, Handle, Limit, Decode, Begin, ExecColor, ExecOs, Commit, Reply,
           Start, Stop, ShutdownReturns, Exit, Crash, Gone, dumpvars, vars
  <1> QED
    BY <1>6, <1>7, <1>8, <1>9, <1>10 DEF DumpStep

\* Whenever and however a dump ends, the file shows no point that the database
\* does not have (store.go:80-90, main.go:93-110).
THEOREM NeverAhead == Spec => []DumpBehind
  <1>1. Init => Behind(dump) /\ Behind(file)
    BY DEF Init, NotDumping, Empty, Behind
  <1>2. Behind(file) => DumpBehind
    BY DEF Behind, DumpBehind
  <1> QED
    BY <1>1, <1>2, BehindKeeps, Inductive, PTL DEF Spec

----------------------------------------------------------------------------
(* The two tables of a dump against each other.                             *)

\* A table of the database, and one more point in it.
LEMMA OnePoint ==
    ASSUME NEW K, NEW t \in [K -> Nat], NEW k \in K, IsFiniteSet(PointsOf(t))
    PROVE  LET u == [t EXCEPT ![k] = @ + 1] IN
           /\ u \in [K -> Nat]
           /\ IsFiniteSet(PointsOf(u)) /\ Total(u) = Total(t) + 1 /\ Total(t) \in Nat
  <1> DEFINE u == [t EXCEPT ![k] = @ + 1]
             p == <<k, t[k] + 1>>
  <1>1. \A x : x \in PointsOf(t) <=> \E j \in K : \E i \in 1 .. t[j] : x = <<j, i>>
    BY DEF PointsOf
  <1>2. \A x : x \in PointsOf(u) <=> \E j \in K : \E i \in 1 .. u[j] : x = <<j, i>>
    BY DEF PointsOf
  <1>3. \A j \in K : \A i : i \in 1 .. u[j] <=> i \in 1 .. t[j] \/ (j = k /\ i = t[k] + 1)
    OBVIOUS
  <1>4. p \notin PointsOf(t)
    BY <1>1
  <1>5. PointsOf(u) = PointsOf(t) \cup {p}
    <2> HIDE DEF u
    <2>1. ASSUME NEW x \in PointsOf(u) PROVE x \in PointsOf(t) \cup {p}
      BY <1>1, <1>2, <1>3
    <2>2. ASSUME NEW x \in PointsOf(t) PROVE x \in PointsOf(u)
      BY <1>1, <1>2, <1>3
    <2>3. p \in PointsOf(u)
      BY <1>2, <1>3
    <2> QED
      BY <2>1, <2>2, <2>3
  <1>6. u \in [K -> Nat]
    OBVIOUS
  <1> HIDE DEF u, p
  <1>7. IsFiniteSet(PointsOf(u)) /\ Total(u) = Total(t) + 1
    BY <1>4, <1>5, FS_AddElement DEF Total
  <1>8. Total(t) \in Nat
    BY FS_CardinalityType DEF Total
  <1> QED
    BY <1>6, <1>7, <1>8 DEF u

LEMMA ThreePoints ==
    ASSUME NEW K, NEW t \in [K -> Nat], NEW k \in K, IsFiniteSet(PointsOf(t))
    PROVE  LET u == [t EXCEPT ![k] = @ + 3] IN
           IsFiniteSet(PointsOf(u)) /\ Total(u) = Total(t) + 3 /\ Total(t) \in Nat
  <1> DEFINE a == [t EXCEPT ![k] = @ + 1]
             b == [a EXCEPT ![k] = @ + 1]
             c == [b EXCEPT ![k] = @ + 1]
  <1>1. c = [t EXCEPT ![k] = @ + 3]
    OBVIOUS
  <1>2. /\ a \in [K -> Nat] /\ IsFiniteSet(PointsOf(a))
        /\ Total(a) = Total(t) + 1 /\ Total(t) \in Nat
    BY OnePoint
  <1> HIDE DEF a
  <1>3. b \in [K -> Nat] /\ IsFiniteSet(PointsOf(b)) /\ Total(b) = Total(a) + 1
    BY <1>2, OnePoint
  <1> HIDE DEF b
  <1>4. IsFiniteSet(PointsOf(c)) /\ Total(c) = Total(b) + 1
    BY <1>3, OnePoint
  <1> HIDE DEF c
  <1> QED
    BY <1>1, <1>2, <1>3, <1>4

\* Every color point of the database is backed by an OS point, and so is every
\* one that a dump has read, by one that it has read or will read.
Backed ==
    /\ IsFiniteSet(PointsOf(db.colors)) /\ IsFiniteSet(PointsOf(db.os))
    /\ Total(db.colors) <= Total(db.os)
    /\ dump.step = "colors" => Total(dump.colors) \in Nat /\ Total(dump.colors) <= Total(db.os)
    /\ dump.step \in {"os", "write"} => Total(dump.colors) <= Total(dump.os)
    /\ file.state = "whole" => Total(file.colors) <= Total(file.os)

LEMMA BackedKeeps == IInv /\ Backed /\ [Next]_vars => Backed'
  <1> SUFFICES ASSUME IInv, Backed, [Next]_vars PROVE Backed'
    OBVIOUS
  <1>1. Total(db.colors) \in Nat /\ Total(db.os) \in Nat
    BY FS_CardinalityType DEF Backed, Total
  <1>2. /\ IsFiniteSet(PointsOf(db'.colors)) /\ IsFiniteSet(PointsOf(db'.os))
        /\ Total(db'.colors) <= Total(db'.os)
        /\ Total(db'.os) \in Nat /\ Total(db.os) <= Total(db'.os)
    <2>1. CASE Untouched
      BY <1>1, <2>1 DEF Untouched, Backed
    <2>2. ASSUME NEW r \in Reqs, Committed(r)
          PROVE  /\ IsFiniteSet(PointsOf(db'.colors)) /\ IsFiniteSet(PointsOf(db'.os))
                 /\ Total(db'.colors) <= Total(db'.os)
                 /\ Total(db'.os) \in Nat /\ Total(db.os) <= Total(db'.os)
      <3> DEFINE c == <<body[r].hex[1], "lower">>
                 o == body[r].os
      <3>1. /\ db.colors \in [Keys -> Nat] /\ db.os \in [Slugs -> Nat]
            /\ IsFiniteSet(PointsOf(db.colors)) /\ IsFiniteSet(PointsOf(db.os))
            /\ Total(db.colors) <= Total(db.os)
        BY DEF IInv, TypeInv, Tables, Backed
      <3>2. \/ /\ c \in Keys /\ o \in Slugs
               /\ db'.colors = [db.colors EXCEPT ![c] = @ + 3]
               /\ db'.os = [db.os EXCEPT ![o] = @ + 3]
            \/ /\ o \in Slugs /\ db'.colors = db.colors
               /\ db'.os = [db.os EXCEPT ![o] = @ + 1]
        BY <2>2, CommitShape
      <3> HIDE DEF c, o
      <3>3. CASE /\ c \in Keys /\ o \in Slugs
                 /\ db'.colors = [db.colors EXCEPT ![c] = @ + 3]
                 /\ db'.os = [db.os EXCEPT ![o] = @ + 3]
        <4>1. IsFiniteSet(PointsOf(db'.colors)) /\ Total(db'.colors) = Total(db.colors) + 3
          BY <3>1, <3>3, ThreePoints
        <4>2. IsFiniteSet(PointsOf(db'.os)) /\ Total(db'.os) = Total(db.os) + 3
          BY <3>1, <3>3, ThreePoints
        <4> QED
          BY <1>1, <3>1, <4>1, <4>2
      <3>4. CASE /\ o \in Slugs /\ db'.colors = db.colors
                 /\ db'.os = [db.os EXCEPT ![o] = @ + 1]
        <4>1. IsFiniteSet(PointsOf(db'.os)) /\ Total(db'.os) = Total(db.os) + 1
          BY <3>1, <3>4, OnePoint
        <4> QED
          BY <1>1, <3>1, <3>4, <4>1
      <3> QED
        BY <3>2, <3>3, <3>4
    <2> QED
      BY <2>1, <2>2, StepShape
  <1>3. \/ UNCHANGED <<dump, file>>
        \/ UNCHANGED db /\ (DumpOpen \/ DumpRead \/ DumpTruncate \/ DumpWrite \/ DumpFails)
    BY DEF Next, Arrive, Handle, Limit, Decode, Begin, ExecColor, ExecOs, Commit, Reply,
           Start, Stop, ShutdownReturns, Exit, Crash, Gone, DumpStep,
           DumpOpen, DumpRead, DumpTruncate, DumpWrite, DumpFails, storevars, dumpvars, vars
  <1>4. dump \in Reads /\ file \in Files
    BY DEF IInv, TypeInv
  <1>5. /\ dump'.step = "colors" => Total(dump'.colors) \in Nat /\ Total(dump'.colors) <= Total(db'.os)
        /\ dump'.step \in {"os", "write"} => Total(dump'.colors) <= Total(dump'.os)
        /\ file'.state = "whole" => Total(file'.colors) <= Total(file'.os)
    <2>1. CASE UNCHANGED <<dump, file>>
      BY <1>1, <1>2, <2>1 DEF Backed
    <2>2. CASE DumpOpen
      <3>1. dump'.step = "open" /\ file' = file
        BY <1>4, <2>2 DEF DumpOpen, Reads
      <3> QED
        BY <3>1 DEF Backed
    <2>3. CASE DumpRead /\ UNCHANGED db
      <3>1. \/ dump'.step = "colors" /\ dump'.colors = db.colors
            \/ /\ dump.step = "colors" /\ dump'.step = "os"
               /\ dump'.colors = dump.colors /\ dump'.os = db.os
        BY <1>4, <2>3 DEF DumpRead, Reads
      <3>2. file' = file
        BY <2>3 DEF DumpRead
      <3> QED
        BY <1>1, <2>3, <3>1, <3>2 DEF Backed
    <2>4. CASE DumpTruncate
      <3>1. /\ dump.step = "os" /\ dump'.step = "write" /\ file'.state = "torn"
            /\ dump'.colors = dump.colors /\ dump'.os = dump.os
        BY <1>4, <2>4 DEF DumpTruncate, Reads
      <3> QED
        BY <3>1 DEF Backed
    <2>5. CASE DumpWrite
      <3>1. /\ dump.step = "write" /\ dump'.step = "idle"
            /\ file'.colors = dump.colors /\ file'.os = dump.os
        BY <2>5 DEF DumpWrite, NotDumping
      <3> QED
        BY <3>1 DEF Backed
    <2>6. CASE DumpFails
      <3>1. dump'.step = "idle" /\ file' = file
        BY <2>6 DEF DumpFails, NotDumping
      <3> QED
        BY <3>1 DEF Backed
    <2> QED
      BY <1>3, <2>1, <2>2, <2>3, <2>4, <2>5, <2>6
  <1> QED
    BY <1>2, <1>5 DEF Backed

\* However commits fall between the two reads of a dump, and whatever is killed,
\* a file that is whole shows no color point without its OS point, and none that
\* the database lacks (store.go:80-90, main.go:93-110).
THEOREM DumpsBalance == Spec => []DumpConsistent
  <1>1. Init => Backed
    <2> SUFFICES ASSUME Init PROVE Backed
      OBVIOUS
    <2>1. Empty.colors = [k \in Keys |-> 0] /\ Empty.os = [s \in Slugs |-> 0]
      BY DEF Empty
    <2>2. PointsOf(Empty.colors) = {} /\ PointsOf(Empty.os) = {}
      BY <2>1 DEF PointsOf
    <2>3. db = Empty /\ dump.step = "idle" /\ file.state = "absent"
      BY DEF Init, NotDumping
    <2> QED
      BY <2>2, <2>3, FS_EmptySet DEF Backed, Total
  <1>2. Backed /\ DumpBehind => DumpConsistent
    BY DEF Backed, DumpConsistent
  <1> QED
    BY <1>1, <1>2, BackedKeeps, Inductive, NeverAhead, PTL DEF Spec

----------------------------------------------------------------------------
(* The counter implements the ledger.                                       *)

Outcome == [r \in Reqs |-> IF r \in counted THEN "counted"
                           ELSE IF pc[r] \in {"reply", "done"} THEN "refused" ELSE "open"]
Told    == [r \in Reqs |-> CASE heard[r] = "nothing" -> "nothing"
                             [] heard[r] = "204"     -> "counted"
                             [] OTHER                -> "refused"]

\* What a step that touches neither the tables nor the clients means for the
\* ledger: requests that were open are refused.
LEMMA GivesUp ==
    ASSUME UNCHANGED <<db, counted, heard>>, NEW E \in SUBSET Reqs,
           \A r \in E : Outcome[r] = "open" /\ Outcome'[r] = "refused",
           \A r \in Reqs \ E : Outcome'[r] = Outcome[r]
    PROVE  Ledger!LNext
  <1>1. Outcome' = [r \in Reqs |-> IF r \in E THEN "refused" ELSE Outcome[r]]
    BY DEF Outcome
  <1>2. Told' = Told
    BY DEF Told
  <1>3. Ledger!GiveUp(E)
    BY <1>1, <1>2 DEF Ledger!GiveUp, Outcome, Told
  <1> QED
    BY <1>3 DEF Ledger!LNext

LEMMA CountColorIsNext ==
    ASSUME NEW r \in Reqs, NEW k \in Keys, NEW s \in Slugs, Ledger!CountColor(r, k, s)
    PROVE  Ledger!LNext
  BY DEF Ledger!LNext

LEMMA CountViewIsNext ==
    ASSUME NEW r \in Reqs, NEW s \in Slugs, Ledger!CountView(r, s)
    PROVE  Ledger!LNext
  BY DEF Ledger!LNext

LEMMA RefinesInit == Init => Ledger!LInit
  BY DEF Init, Empty, Ledger!LInit

LEMMA RefinesNext == IInv /\ [Next]_vars => [Ledger!LNext]_Ledger!lvars
  <1> SUFFICES ASSUME IInv, [Next]_vars PROVE Ledger!LNext \/ UNCHANGED Ledger!lvars
    OBVIOUS
  <1>1. \A r \in Reqs : r \in counted => pc[r] \in {"reply", "done"}
    BY DEF IInv, FateInv
  <1>2. pc \in [Reqs -> Stages] /\ heard \in [Reqs -> Errors \cup {"nothing", "204"}]
    BY DEF IInv, TypeInv
  <1>3. ASSUME UNCHANGED <<db, counted, heard>>, NEW r \in Reqs, NEW step \in Stages,
               pc' = [pc EXCEPT ![r] = step],
               pc[r] \notin {"reply", "done"} \/ step \in {"reply", "done"}
        PROVE  Ledger!LNext
    <2> DEFINE E == IF pc[r] \notin {"reply", "done"} /\ step \in {"reply", "done"} THEN {r} ELSE {}
    <2>1. \A q \in E : Outcome[q] = "open" /\ Outcome'[q] = "refused"
      BY <1>1, <1>2, <1>3 DEF Outcome
    <2>2. \A q \in Reqs \ E : Outcome'[q] = Outcome[q]
      BY <1>1, <1>2, <1>3 DEF Outcome
    <2> HIDE DEF E
    <2>3. E \in SUBSET Reqs
      BY DEF E
    <2> QED
      BY <1>3, <2>1, <2>2, <2>3, GivesUp
  <1>4. ASSUME NEW r \in Reqs, Arrive(r) PROVE Ledger!LNext
    BY <1>3, <1>4 DEF Arrive, Goto, storevars, Stages
  <1>5. ASSUME NEW r \in Reqs, Limit(r) \/ Decode(r) \/ Begin(r) \/ ExecColor(r) \/ ExecOs(r)
        PROVE  Ledger!LNext
    <2>1. UNCHANGED <<db, counted, heard>> /\ pc[r] \notin {"reply", "done"}
      BY <1>5 DEF Limit, Decode, Begin, ExecColor, ExecOs, Fail, Rollback, storevars
    <2>2. \E step \in Stages : pc' = [pc EXCEPT ![r] = step]
      BY <1>5 DEF Limit, Decode, Begin, ExecColor, ExecOs, Fail, Answer, Goto, Stages
    <2> QED
      BY <1>3, <2>1, <2>2
  <1>6. ASSUME NEW r \in Reqs, Commit(r) PROVE Ledger!LNext
    <2>1. CASE Fail(r)
      <3>1. UNCHANGED <<db, counted, heard>> /\ pc[r] \notin {"reply", "done"}
            /\ pc' = [pc EXCEPT ![r] = "reply"]
        BY <1>6, <2>1 DEF Commit, Fail, Rollback, Answer, Goto
      <3> QED
        BY <1>3, <3>1 DEF Stages
    <2>2. CASE Committed(r) /\ Answer(r, "204")
      <3>1. /\ r \notin counted /\ counted' = counted \cup {r} /\ heard' = heard
            /\ pc[r] = "commit" /\ pc' = [pc EXCEPT ![r] = "reply"]
        BY <2>2, CommitShape DEF Committed, Answer, Goto
      <3>2. Told' = Told
        BY <3>1 DEF Told
      <3>3. Outcome[r] = "open" /\ Outcome' = [Outcome EXCEPT ![r] = "counted"]
        BY <1>1, <1>2, <3>1 DEF Outcome
      <3> DEFINE c == <<body[r].hex[1], "lower">>
                 o == body[r].os
      <3>4. CASE /\ c \in Keys /\ o \in Slugs
                 /\ db'.colors = [db.colors EXCEPT ![c] = @ + 3]
                 /\ db'.os = [db.os EXCEPT ![o] = @ + 3]
        <4> HIDE DEF c, o
        <4>1. PICK k \in Keys, s \in Slugs : k = c /\ s = o
          BY <3>4
        <4>2. Ledger!CountColor(r, k, s)
          BY <3>2, <3>3, <3>4, <4>1 DEF Ledger!CountColor, Outcome, Told
        <4> QED
          BY <4>2, CountColorIsNext
      <3>5. CASE /\ o \in Slugs /\ db'.colors = db.colors
                 /\ db'.os = [db.os EXCEPT ![o] = @ + 1]
        <4> HIDE DEF c, o
        <4>1. PICK s \in Slugs : s = o
          BY <3>5
        <4>2. Ledger!CountView(r, s)
          BY <3>2, <3>3, <3>5, <4>1 DEF Ledger!CountView, Outcome, Told
        <4> QED
          BY <4>2, CountViewIsNext
      <3> QED
        BY <2>2, CommitShape, <3>4, <3>5
    <2> QED
      BY <1>6, <2>1, <2>2 DEF Commit, Committed, dumpvars
  <1>7. ASSUME NEW r \in Reqs, Reply(r) PROVE Ledger!LNext \/ UNCHANGED Ledger!lvars
    <2>1. /\ pc[r] = "reply" /\ pc' = [pc EXCEPT ![r] = "done"]
          /\ UNCHANGED <<db, counted>>
      BY <1>7 DEF Reply, Goto, storevars
    <2>2. CASE UNCHANGED heard
      BY <1>3, <2>1, <2>2 DEF Stages
    <2>3. CASE heard' = [heard EXCEPT ![r] = status[r]]
      <3>1. /\ heard[r] = "nothing" /\ status[r] \in Errors \cup {"204"}
            /\ status[r] = "204" <=> r \in counted
        BY <2>1 DEF IInv, FateInv
      <3>2. Outcome' = Outcome /\ Outcome[r] = IF r \in counted THEN "counted" ELSE "refused"
        BY <1>2, <2>1 DEF Outcome
      <3>3. Told[r] = "nothing" /\ Told' = [Told EXCEPT ![r] = Outcome[r]]
        BY <1>2, <2>3, <3>1, <3>2 DEF Told, Errors
      <3>4. Ledger!Tell(r)
        BY <2>1, <3>2, <3>3 DEF Ledger!Tell, Outcome, Told
      <3> QED
        BY <3>4 DEF Ledger!LNext
    <2> QED
      BY <1>7, <2>2, <2>3 DEF Reply
  <1>8. CASE Exit \/ Crash
    <2>1. UNCHANGED <<db, counted, heard>>
          /\ pc' = [r \in Reqs |-> IF r \in InFlight THEN "done" ELSE pc[r]]
      BY <1>8 DEF Exit, Crash, Gone
    <2> DEFINE E == {r \in Reqs : pc[r] \notin {"idle", "reply", "done"}}
    <2>2. \A r \in E : Outcome[r] = "open" /\ Outcome'[r] = "refused"
      BY <1>1, <2>1 DEF Outcome, InFlight
    <2>3. \A r \in Reqs \ E : Outcome'[r] = Outcome[r]
      BY <1>1, <2>1 DEF Outcome, InFlight
    <2>4. E \in SUBSET Reqs
      OBVIOUS
    <2> HIDE DEF E
    <2> QED
      BY <2>1, <2>2, <2>3, <2>4, GivesUp
  <1>9. CASE UNCHANGED <<reqvars, storevars>>
    BY <1>9 DEF reqvars, storevars, Ledger!lvars
  <1>10. \/ \E r \in Reqs : Arrive(r) \/ Handle(r)
         \/ Exit \/ Crash \/ UNCHANGED <<reqvars, storevars>>
    <2>1. Start \/ Stop \/ ShutdownReturns => UNCHANGED <<reqvars, storevars>>
      BY DEF Start, Stop, ShutdownReturns
    <2>2. UNCHANGED vars => UNCHANGED <<reqvars, storevars>>
      BY DEF vars
    <2> QED
      BY <2>1, <2>2, DumpTypes DEF Next
  <1> QED
    BY <1>4, <1>5, <1>6, <1>7, <1>8, <1>9, <1>10 DEF Handle

\* The store with its connection, its transactions, its failures and its deaths
\* behaves as a ledger where an event is counted whole and once, or refused, and
\* nobody is told what is not so.
THEOREM Refinement == Spec => ImplementsLedger
  BY RefinesInit, RefinesNext, Inductive, PTL DEF Spec, ImplementsLedger, Ledger!LSpec

----------------------------------------------------------------------------
(* Why a request ends: its handler goes one way, and so does whom it may     *)
(* wait for.                                                                 *)

Turn == [ idle |-> 0, limit |-> 1, decode |-> 2, begin |-> 3, color |-> 4,
          os |-> 5, commit |-> 6, reply |-> 7, done |-> 8 ]

GoesOnward ==
    \A r \in Reqs : Handle(r) \/ pc'[r] # pc[r] => Turn[pc[r]] < Turn[pc'[r]]

\* Who has the connection is between Begin and Commit.
ConnAtWork == conn # NoReq => pc[conn] \in {"color", "os", "commit"}

LEMMA HandlerOnward ==
    ASSUME IInv, NEW q \in Reqs, Handle(q)
    PROVE  Turn[pc[q]] < Turn[pc'[q]] /\ \A r \in Reqs \ {q} : pc'[r] = pc[r]
  <1>1. pc \in [Reqs -> Stages]
    BY DEF IInv, TypeInv
  <1> USE DEF Turn, Stages, Goto, Answer, Fail
  <1>2. CASE Limit(q)
    BY <1>1, <1>2 DEF Limit
  <1>3. CASE Decode(q)
    BY <1>1, <1>3 DEF Decode
  <1>4. CASE Begin(q)
    BY <1>1, <1>4 DEF Begin
  <1>5. CASE ExecColor(q)
    BY <1>1, <1>5 DEF ExecColor
  <1>6. CASE ExecOs(q)
    BY <1>1, <1>6 DEF ExecOs
  <1>7. CASE Commit(q)
    BY <1>1, <1>7 DEF Commit
  <1>8. CASE Reply(q)
    BY <1>1, <1>8 DEF Reply
  <1> QED
    BY <1>2, <1>3, <1>4, <1>5, <1>6, <1>7, <1>8 DEF Handle

\* Whatever fails, and whenever the server stops or dies, a handler goes from
\* each of its steps to a later one, and one that waits for the connection waits
\* for a handler that is at work between Begin and Commit: nobody keeps it, and
\* nobody who has it waits (store.go:41, 58).  With the fairness of
\* EveryRequestEnds this is why a request ends.
THEOREM HandlersGoOnward == Spec => [][GoesOnward]_vars /\ []ConnAtWork
  <1>1. IInv => ConnAtWork
    BY DEF IInv, TypeInv, TxInv, ConnAtWork
  <1>2. IInv /\ [Next]_vars => [GoesOnward]_vars
    <2> SUFFICES ASSUME IInv, Next PROVE GoesOnward
      OBVIOUS
    <2>1. pc \in [Reqs -> Stages]
      BY DEF IInv, TypeInv
    <2>2. ASSUME NEW r \in Reqs, Handle(r) PROVE Turn[pc[r]] < Turn[pc'[r]]
      BY <2>2, HandlerOnward
    <2>3. ASSUME NEW r \in Reqs, pc'[r] # pc[r] PROVE Turn[pc[r]] < Turn[pc'[r]]
      <3>1. ASSUME NEW q \in Reqs, Arrive(q) PROVE Turn[pc[r]] < Turn[pc'[r]]
        BY <2>1, <2>3, <3>1 DEF Arrive, Goto, Turn
      <3>2. ASSUME NEW q \in Reqs, Handle(q) PROVE Turn[pc[r]] < Turn[pc'[r]]
        BY <2>3, <3>2, HandlerOnward
      <3>3. CASE Exit \/ Crash
        BY <2>1, <2>3, <3>3 DEF Exit, Crash, Gone, InFlight, Turn, Stages
      <3>4. ~(Start \/ Stop \/ ShutdownReturns \/ DumpOpen \/ DumpStep \/ DumpFails)
        BY <2>3 DEF Start, Stop, ShutdownReturns, DumpOpen, DumpStep, DumpRead, DumpTruncate,
                    DumpWrite, DumpFails, reqvars
      <3> QED
        BY <3>1, <3>2, <3>3, <3>4 DEF Next
    <2> QED
      BY <2>2, <2>3 DEF GoesOnward
  <1> QED
    BY <1>1, <1>2, Inductive, PTL DEF Spec
=============================================================================
