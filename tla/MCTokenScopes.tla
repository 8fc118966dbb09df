---------------------------- MODULE MCTokenScopes ----------------------------
(***************************************************************************)
(* Process definitions for TLC.  Every one starts at `start`.              *)
(***************************************************************************)
EXTENDS TokenScopes

Def(kinds, flows, starts, hosts) ==
    [kind |-> kinds, out |-> flows, inner |-> starts, host |-> hosts,
     parallel |-> {}, sequential |-> {}, condition |-> {}]

\* start -> fork -> {S, A} -> joined -> done.  S: an inclusive split into p,
\* the task B and a terminate end; p and B meet again.  A timer interrupts S
\* and, after a task, S is entered again.
Retried ==
    Def("start" :> "pass" @@ "fork" :> "and" @@ "S" :> "sub" @@ "A" :> "task" @@ "joined" :> "and"
          @@ "done" :> "end" @@ "late" :> "timer" @@ "retry" :> "task" @@ "inS" :> "or" @@ "p" :> "pass"
          @@ "B" :> "task" @@ "stop" :> "terminate" @@ "J" :> "or" @@ "outS" :> "end",
        "start" :> <<"fork">> @@ "fork" :> <<"S", "A">> @@ "S" :> <<"joined">> @@ "A" :> <<"joined">>
          @@ "joined" :> <<"done">> @@ "late" :> <<"retry">> @@ "retry" :> <<"S">>
          @@ "inS" :> <<"p", "B", "stop">> @@ "p" :> <<"J">> @@ "B" :> <<"J">> @@ "J" :> <<"outS">>,
        "S" :> "inS", "late" :> "S")

\* S: a fork into p and a choice between an escalation and the task B, joined
\* again.  The escalation interrupts S, a task follows and S is entered again.
\* In Noticed it does not interrupt S and the task leads to a terminate end.
Escalated ==
    Def("start" :> "pass" @@ "S" :> "sub" @@ "done" :> "end" @@ "raised" :> "escalated" @@ "retry" :> "task"
          @@ "inS" :> "and" @@ "p" :> "pass" @@ "x" :> "xor" @@ "E" :> "escalation" @@ "B" :> "task"
          @@ "J" :> "and" @@ "merge" :> "xor" @@ "outS" :> "end",
        "start" :> <<"S">> @@ "S" :> <<"done">> @@ "raised" :> <<"retry">> @@ "retry" :> <<"S">>
          @@ "inS" :> <<"p", "x">> @@ "p" :> <<"J">> @@ "x" :> <<"E", "B">> @@ "E" :> <<"merge">>
          @@ "B" :> <<"merge">> @@ "merge" :> <<"J">> @@ "J" :> <<"outS">>,
        "S" :> "inS", "raised" :> "S")

Noticed ==
    [Escalated EXCEPT !.kind["raised"] = "escalatedNI", !.kind["done"] = "terminate", !.out["retry"] = <<"done">>]

\* P holds S and a way to terminate P; timers interrupt P and S, a repeating
\* one watches S, and a catch event inside S waits for one.
Nested ==
    Def("start" :> "pass" @@ "P" :> "sub" @@ "done" :> "end" @@ "lateP" :> "timer" @@ "handled" :> "task"
          @@ "inP" :> "and" @@ "D" :> "task" @@ "stop" :> "terminate" @@ "S" :> "sub" @@ "outP" :> "end"
          @@ "watch" :> "cycleNI" @@ "N" :> "task" @@ "lateB" :> "timer"
          @@ "inS" :> "and" @@ "B" :> "task" @@ "C" :> "catch" @@ "J" :> "and" @@ "outS" :> "end" @@ "m" :> "xor",
        "start" :> <<"P">> @@ "P" :> <<"done">> @@ "lateP" :> <<"handled">> @@ "handled" :> <<"done">>
          @@ "inP" :> <<"D", "S">> @@ "D" :> <<"stop">> @@ "S" :> <<"outP">> @@ "watch" :> <<"N">>
          @@ "inS" :> <<"B", "C">> @@ "B" :> <<"m">> @@ "lateB" :> <<"m">> @@ "m" :> <<"J">>
          @@ "C" :> <<"J">> @@ "J" :> <<"outS">>,
        "P" :> "inP" @@ "S" :> "inS", "lateP" :> "P" @@ "watch" :> "S" @@ "lateB" :> "B")

\* Nothing waits on the way to the terminate end of P.
Hasty == [Nested EXCEPT !.kind["D"] = "pass"]

\* Branches of different length between an inclusive split and its join.
Inclusive ==
    Def("start" :> "or" @@ "p" :> "pass" @@ "q" :> "pass" @@ "r" :> "pass" @@ "B" :> "task" @@ "J" :> "or"
          @@ "done" :> "end",
        "start" :> <<"p", "q", "B">> @@ "p" :> <<"J">> @@ "q" :> <<"r">> @@ "r" :> <<"J">> @@ "B" :> <<"J">>
          @@ "J" :> <<"done">>,
        << >>, << >>)

\* A multi-instance sub-process M next to a multi-instance task, a timer on M.
\* Its children run one after the other, each with an escalation nobody
\* catches and a join.
Looped ==
    [Def("start" :> "pass" @@ "fork" :> "and" @@ "M" :> "sub" @@ "W" :> "task" @@ "joined" :> "and"
           @@ "done" :> "end" @@ "late" :> "timer" @@ "retry" :> "task" @@ "meet" :> "xor"
           @@ "inM" :> "and" @@ "B" :> "task" @@ "p" :> "escalation" @@ "J" :> "and" @@ "outM" :> "end",
         "start" :> <<"fork">> @@ "fork" :> <<"M", "W">> @@ "M" :> <<"meet">> @@ "W" :> <<"joined">>
           @@ "meet" :> <<"joined">> @@ "joined" :> <<"done">> @@ "late" :> <<"retry">> @@ "retry" :> <<"meet">>
           @@ "inM" :> <<"p", "B">> @@ "B" :> <<"J">> @@ "p" :> <<"J">> @@ "J" :> <<"outM">>,
         "M" :> "inM", "late" :> "M")
     EXCEPT !.sequential = {"M"}, !.parallel = {"W"}, !.condition = {"M", "W"}]

\* The children of M run side by side, without a join; an escalation inside
\* one of them ends the loop.
SideBySide ==
    [Def("start" :> "pass" @@ "M" :> "sub" @@ "done" :> "end" @@ "raised" :> "escalated" @@ "retry" :> "task"
           @@ "inM" :> "and" @@ "B" :> "task" @@ "x" :> "xor" @@ "E" :> "escalation" @@ "stop" :> "terminate"
           @@ "outM" :> "end",
         "start" :> <<"M">> @@ "M" :> <<"done">> @@ "raised" :> <<"retry">> @@ "retry" :> <<"done">>
           @@ "inM" :> <<"B", "x">> @@ "B" :> <<"outM">> @@ "x" :> <<"E", "stop", "outM">> @@ "E" :> <<"outM">>,
         "M" :> "inM", "raised" :> "M")
     EXCEPT !.parallel = {"M"}, !.condition = {"M"}]

Structured ==
    "retried" :> Retried @@ "escalated" :> Escalated @@ "noticed" :> Noticed @@ "nested" :> Nested
      @@ "hasty" :> Hasty @@ "inclusive" :> Inclusive
      @@ "looped" :> Looped @@ "sideBySide" :> SideBySide

\* The children of M run side by side.  Each forks into p, joined with the
\* task B, or else into p and a task that leads to a terminate end.
Shared ==
    "shared" :>
    [Def("start" :> "pass" @@ "M" :> "sub" @@ "done" :> "end" @@ "inM" :> "and" @@ "p" :> "pass"
           @@ "x" :> "xor" @@ "B" :> "task" @@ "C" :> "task" @@ "stop" :> "terminate" @@ "J" :> "and"
           @@ "outM" :> "end",
         "start" :> <<"M">> @@ "M" :> <<"done">> @@ "inM" :> <<"p", "x">> @@ "p" :> <<"J">>
           @@ "x" :> <<"B", "C">> @@ "B" :> <<"J">> @@ "C" :> <<"stop">> @@ "J" :> <<"outM">>,
         "M" :> "inM", << >>)
     EXCEPT !.parallel = {"M"}]
==============================================================================
