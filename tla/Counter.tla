------------------------------ MODULE Counter ------------------------------
(* The popularity counter: the HTTP server with its handlers                *)
(* (counter/internal/server), the scoring rules (counter/internal/scoring), *)
(* the SQLite store (counter/internal/store) and the two processes of       *)
(* counter/main.go, `serve` under systemd and `dump` in a rebuild.          *)
(*                                                                          *)
(* Handlers run concurrently; every call that can block or fail is a step   *)
(* of its own. The store has one connection (SetMaxOpenConns(1)), held from *)
(* Begin to Commit or Rollback. A row that does not exist is a row of 0     *)
(* points. Whether the rate limiter lets a request pass is left open here:  *)
(* module RateLimiter says when it does.                                    *)
EXTENDS Naturals, FiniteSets

CONSTANTS Reqs,        \* requests to POST /api/event
          NoReq,
          Colors,      \* colors, whatever the case of their hex digits
          Slugs,       \* strings that slugRe matches
          Bodies,      \* request bodies
          MaxDeaths,   \* bound: deaths and stops of the server
          MaxDumps     \* bound: runs of `counter dump`

Garbage == [kind |-> "garbage"]   \* not JSON, of the wrong shape, or over 4 KiB
Cases   == {"lower", "upper"}     \* of the hex digits as they were sent
Keys    == Colors \X Cases        \* strings that hexRe matches
NoHex   == <<"none", "lower">>
BadHex  == <<"bad", "lower">>

ASSUME CounterAssumption ==
    /\ NoReq \notin Reqs
    /\ Bodies \subseteq {Garbage} \cup
           [kind : {"copy", "download", "osview", "other"},
            hex : Keys \cup {NoHex, BadHex}, os : Slugs \cup {"bad"}]
    /\ {"none", "bad"} \cap Colors = {} /\ "bad" \notin Slugs
    /\ MaxDeaths \in Nat /\ MaxDumps \in Nat

VARIABLES
    srv,      \* the `serve` process: "down", "up", "draining", "closed"
    pc,       \* pc[r]: the next step of r's handler
    body,     \* body[r]: what r carries
    status,   \* status[r]: the HTTP status the handler has decided on
    heard,    \* heard[r]: the status that reached the client, or "nothing"
    conn,     \* the request whose transaction holds the connection
    view,     \* the tables as that transaction sees them
    db,       \* the tables as committed
    counted,  \* history: the requests whose transaction was committed
    deaths,   \* how often the server has died or been stopped
    dump,     \* the `dump` process: its step and what it has read
    file,     \* scores.json
    dumps     \* how often `dump` was started

reqvars  == <<pc, body, status, heard>>
storevars == <<conn, view, db, counted>>
dumpvars == <<dump, file, dumps>>
vars == <<srv, reqvars, storevars, deaths, dumpvars>>

Empty == [colors |-> [k \in Keys |-> 0], os |-> [s \in Slugs |-> 0]]

NotDumping == [step |-> "idle", colors |-> Empty.colors, os |-> Empty.os]

Init ==
    /\ srv = "down"
    /\ pc = [r \in Reqs |-> "idle"]
    /\ body = [r \in Reqs |-> Garbage]
    /\ status = [r \in Reqs |-> "none"]
    /\ heard = [r \in Reqs |-> "nothing"]
    /\ conn = NoReq /\ view = Empty /\ db = Empty
    /\ counted = {}
    /\ deaths = 0
    /\ dump = NotDumping
    /\ file = [state |-> "absent", colors |-> Empty.colors, os |-> Empty.os]
    /\ dumps = 0

----------------------------------------------------------------------------
(* The scoring rules.                                                       *)

ValidHex(h)  == h \in Keys
ValidSlug(s) == s \in Slugs

\* Mutant of ToLower: the hex is stored as it was sent.
ToLowerNot(h) == h

ToLower(h)   == <<h[1], "lower">>

\* Validate's Delta, or the record with ok = FALSE for each of its errors.
Invalid == [ok |-> FALSE, Hex |-> NoHex, ColorPts |-> 0, Slug |-> "bad", OsPts |-> 0]

Validate(e) ==
    IF /\ e.kind \in {"copy", "download"} /\ ValidHex(e.hex) /\ ValidSlug(e.os)
    THEN [ok |-> TRUE, Hex |-> ToLower(e.hex), ColorPts |-> 3, Slug |-> e.os, OsPts |-> 3]
    ELSE IF e.kind = "osview" /\ ValidSlug(e.os)
    THEN [ok |-> TRUE, Hex |-> NoHex, ColorPts |-> 0, Slug |-> e.os, OsPts |-> 1]
    ELSE Invalid

Delta(r) == Validate(body[r])

----------------------------------------------------------------------------
(* A handler. Goto moves r on; Answer decides its status.                   *)

Goto(r, step) == pc' = [pc EXCEPT ![r] = step]

Answer(r, code) == Goto(r, "reply") /\ status' = [status EXCEPT ![r] = code]

Arrive(r) ==
    /\ srv = "up" /\ pc[r] = "idle"
    /\ \E b \in Bodies : body' = [body EXCEPT ![r] = b]
    /\ Goto(r, "limit")
    /\ UNCHANGED <<srv, status, heard, storevars, deaths, dumpvars>>

Limit(r) ==
    /\ pc[r] = "limit"
    /\ \/ Answer(r, "429")
       \/ Goto(r, "decode") /\ UNCHANGED status
    /\ UNCHANGED <<srv, body, heard, storevars, deaths, dumpvars>>

Decode(r) ==
    /\ pc[r] = "decode"
    /\ \/ /\ body[r] = Garbage \/ ~Validate(body[r]).ok
          /\ Answer(r, "400")
       \/ /\ body[r] # Garbage /\ Validate(body[r]).ok
          /\ Goto(r, "begin") /\ UNCHANGED status
    /\ UNCHANGED <<srv, body, heard, storevars, deaths, dumpvars>>

\* Begin waits for the one connection and may fail on it; once the store is
\* closed it only fails.
Begin(r) ==
    /\ pc[r] = "begin"
    /\ \/ /\ srv # "closed" /\ conn = NoReq
          /\ conn' = r /\ view' = db
          /\ Goto(r, "color") /\ UNCHANGED <<status, db, counted>>
       \/ /\ srv = "closed" \/ conn = NoReq
          /\ Answer(r, "500") /\ UNCHANGED storevars
    /\ UNCHANGED <<srv, body, heard, deaths, dumpvars>>

\* The deferred Rollback: the connection is free and its view forgotten.
Rollback == conn' = NoReq /\ view' = Empty /\ UNCHANGED <<db, counted>>

\* Mutant of Fail: a failing statement returns without the rollback.
FailLeaks(r) == Answer(r, "500") /\ UNCHANGED storevars

Fail(r) == Answer(r, "500") /\ Rollback

AddColor(d) == IF d.Hex # NoHex /\ d.ColorPts # 0
               THEN [view EXCEPT !.colors[d.Hex] = @ + d.ColorPts] ELSE view

AddOs(d) == IF d.OsPts # 0
            THEN [view EXCEPT !.os[d.Slug] = @ + d.OsPts] ELSE view

\* Mutant of ExecColor: the color's statement is committed by itself.
ExecColorCommits(r) ==
    /\ pc[r] = "color"
    /\ \/ /\ view' = AddColor(Delta(r)) /\ db' = AddColor(Delta(r))
          /\ Goto(r, "os") /\ UNCHANGED <<status, conn, counted>>
       \/ Delta(r).ColorPts # 0 /\ Fail(r)
    /\ UNCHANGED <<srv, body, heard, deaths, dumpvars>>

ExecColor(r) ==
    /\ pc[r] = "color"
    /\ \/ /\ view' = AddColor(Delta(r))
          /\ Goto(r, "os") /\ UNCHANGED <<status, conn, db, counted>>
       \/ Delta(r).ColorPts # 0 /\ Fail(r)
    /\ UNCHANGED <<srv, body, heard, deaths, dumpvars>>

ExecOs(r) ==
    /\ pc[r] = "os"
    /\ \/ /\ view' = AddOs(Delta(r))
          /\ Goto(r, "commit") /\ UNCHANGED <<status, conn, db, counted>>
       \/ Fail(r)
    /\ UNCHANGED <<srv, body, heard, deaths, dumpvars>>

\* Mutant of Commit: the result of Commit is not looked at.
CommitUnchecked(r) ==
    /\ pc[r] = "commit"
    /\ \/ db' = view /\ counted' = counted \cup {r}
       \/ UNCHANGED <<db, counted>>
    /\ conn' = NoReq /\ view' = Empty
    /\ Answer(r, "204")
    /\ UNCHANGED <<srv, body, heard, deaths, dumpvars>>

Commit(r) ==
    /\ pc[r] = "commit"
    /\ \/ /\ db' = view
          /\ counted' = counted \cup {r}
          /\ conn' = NoReq /\ view' = Empty
          /\ Answer(r, "204")
       \/ Fail(r)
    /\ UNCHANGED <<srv, body, heard, deaths, dumpvars>>

\* The response is written; the client may have gone.
Reply(r) ==
    /\ pc[r] = "reply"
    /\ \/ heard' = [heard EXCEPT ![r] = status[r]]
       \/ UNCHANGED heard
    /\ Goto(r, "done")
    /\ UNCHANGED <<srv, body, status, storevars, deaths, dumpvars>>

Handle(r) == \/ Limit(r) \/ Decode(r) \/ Begin(r) \/ ExecColor(r)
             \/ ExecOs(r) \/ Commit(r) \/ Reply(r)

----------------------------------------------------------------------------
(* The server process, under Restart=always.                                *)

InFlight == {r \in Reqs : pc[r] \notin {"idle", "done"}}

Start == /\ srv = "down"
         /\ srv' = "up"
         /\ UNCHANGED <<reqvars, storevars, deaths, dumpvars>>

\* SIGTERM or SIGINT: no new requests, the sweeper stops.
Stop == /\ srv = "up" /\ deaths < MaxDeaths
        /\ srv' = "draining" /\ deaths' = deaths + 1
        /\ UNCHANGED <<reqvars, storevars, dumpvars>>

\* Shutdown returns when nothing is in flight or after five seconds, whichever
\* comes first, and the deferred Close shuts the store in either case.
ShutdownReturns == /\ srv = "draining"
                   /\ srv' = "closed"
                   /\ UNCHANGED <<reqvars, storevars, deaths, dumpvars>>

\* The end of the process: handlers vanish, their transactions with them.
Gone == /\ srv' = "down"
        /\ pc' = [r \in Reqs |-> IF r \in InFlight THEN "done" ELSE pc[r]]
        /\ conn' = NoReq /\ view' = Empty
        /\ UNCHANGED <<body, status, heard, db, counted, dumpvars>>

Exit == srv = "closed" /\ Gone /\ UNCHANGED deaths

Crash == /\ srv # "down" /\ deaths < MaxDeaths
         /\ Gone /\ deaths' = deaths + 1

----------------------------------------------------------------------------
(* `counter dump`: two reads, each of what is committed at that moment, and *)
(* os.WriteFile, which truncates the file before it writes.                 *)

DumpOpen == /\ dump.step = "idle" /\ dumps < MaxDumps
            /\ dump' = [dump EXCEPT !.step = "open"]
            /\ dumps' = dumps + 1
            /\ UNCHANGED <<srv, reqvars, storevars, deaths, file>>

\* Mutant of DumpRead: the OS table is read first.
DumpReadOsFirst ==
    /\ \/ /\ dump.step = "open"
          /\ dump' = [dump EXCEPT !.step = "colors", !.os = db.os]
       \/ /\ dump.step = "colors"
          /\ dump' = [dump EXCEPT !.step = "os", !.colors = db.colors]
    /\ UNCHANGED <<srv, reqvars, storevars, deaths, file, dumps>>

DumpRead == /\ \/ /\ dump.step = "open"
                  /\ dump' = [dump EXCEPT !.step = "colors", !.colors = db.colors]
               \/ /\ dump.step = "colors"
                  /\ dump' = [dump EXCEPT !.step = "os", !.os = db.os]
            /\ UNCHANGED <<srv, reqvars, storevars, deaths, file, dumps>>

DumpTruncate == /\ dump.step = "os"
                /\ dump' = [dump EXCEPT !.step = "write"]
                /\ file' = [state |-> "torn", colors |-> Empty.colors, os |-> Empty.os]
                /\ UNCHANGED <<srv, reqvars, storevars, deaths, dumps>>

DumpWrite == /\ dump.step = "write"
             /\ file' = [state |-> "whole", colors |-> dump.colors, os |-> dump.os]
             /\ dump' = NotDumping
             /\ UNCHANGED <<srv, reqvars, storevars, deaths, dumps>>

\* An error or a kill at any of its steps ends the process.
DumpFails == /\ dump.step # "idle"
             /\ dump' = NotDumping
             /\ UNCHANGED <<srv, reqvars, storevars, deaths, file, dumps>>

DumpStep == DumpRead \/ DumpTruncate \/ DumpWrite

Next == \/ \E r \in Reqs : Arrive(r) \/ Handle(r)
        \/ Start \/ Stop \/ ShutdownReturns \/ Exit \/ Crash
        \/ DumpOpen \/ DumpStep \/ DumpFails

\* Every goroutine and every process that can run does: the Go scheduler and
\* the kernel see to it, Shutdown is bounded by its timeout, systemd restarts.
Fairness == /\ \A r \in Reqs : WF_vars(Handle(r))
            /\ WF_vars(Start) /\ WF_vars(ShutdownReturns) /\ WF_vars(Exit)
            /\ WF_vars(DumpStep \/ DumpFails)

Spec == Init /\ [][Next]_vars /\ Fairness

----------------------------------------------------------------------------
(* Properties.                                                              *)

\* The points an OS and a color should have, from the requests as they were sent.
IsColorEvent(b) == b.kind \in {"copy", "download"}
ColorTally(c) == 3 * Cardinality({r \in counted : IsColorEvent(body[r]) /\ body[r].hex[1] = c})
OsTally(s) == 3 * Cardinality({r \in counted : IsColorEvent(body[r]) /\ body[r].os = s})
              + Cardinality({r \in counted : body[r].kind = "osview" /\ body[r].os = s})

\* The tables hold exactly the points of the requests that were counted, each
\* once and both of its sides, a color under one key however its digits were
\* written: through failures half way, crashes and a store closed under way
\* (store.go:51-52 "in a single transaction", scoring.go:51).
LedgerExact ==
    /\ \A c \in Colors : /\ db.colors[<<c, "lower">>] = ColorTally(c)
                         /\ db.colors[<<c, "upper">>] = 0
    /\ \A s \in Slugs : db.os[s] = OsTally(s)

\* A client that hears 204 has been counted for good, one that hears an error
\* has not been counted (server.go:60-64), across shutdowns and crashes.
HeardIsSo ==
    \A r \in Reqs : /\ heard[r] = "204" => r \in counted
                    /\ heard[r] \in {"400", "429", "500"} => r \notin counted

\* What the file shows never runs ahead of the database: no dump writes a point
\* that a crash or a failed transaction takes back (store.go:80-85).
DumpBehind ==
    /\ \A k \in Keys : file.colors[k] <= db.colors[k]
    /\ \A s \in Slugs : file.os[s] <= db.os[s]

\* The points of a table, one by one, and how many there are.
PointsOf(t) == UNION {{k} \X (1 .. t[k]) : k \in DOMAIN t}
Total(t)    == Cardinality(PointsOf(t))

\* A dump reads its two tables at different moments, and is still consistent:
\* every color point in it is backed by an OS point, since the colors are read
\* first (store.go:82-85), and it shows no point that is not in the database.
DumpConsistent ==
    file.state = "whole" => Total(file.colors) <= Total(file.os) /\ DumpBehind

\* The store implements the ledger: a transaction is one step of it.
Ledger == INSTANCE ScoreLedger WITH
    Events <- Reqs, ColorKeys <- Keys,
    colorPts <- db.colors, osPts <- db.os,
    outcome <- [r \in Reqs |->
        IF r \in counted THEN "counted"
        ELSE IF pc[r] \in {"reply", "done"} THEN "refused" ELSE "open"],
    told <- [r \in Reqs |->
        CASE heard[r] = "nothing" -> "nothing"
          [] heard[r] = "204"     -> "counted"
          [] OTHER                -> "refused"]
ImplementsLedger == Ledger!LSpec

\* Every request that arrives is answered or dies with its server: no failure
\* path keeps the one connection (store.go:58 defers the Rollback).
EveryRequestEnds == \A r \in Reqs : pc[r] = "limit" ~> pc[r] = "done"
=============================================================================
