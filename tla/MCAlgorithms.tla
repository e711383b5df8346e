---------------------------- MODULE MCAlgorithms ----------------------------
(***************************************************************************)
(* The pure algorithms, each over its own inputs: Thresholds over every    *)
(* configuration with limits 1, 2 and 3, EventTime over every day up to    *)
(* MaxDay, Payloads over every source.  A behaviour is of one of them.     *)
(***************************************************************************)
EXTENDS Thresholds, Payloads, EventTime

Ladder(a, b, c) ==
    [n \in Names |-> CASE n = "careful" -> a [] n = "warning" -> b
                       [] n = "critical" -> c]

MCBuiltins == {None, Ladder(1, 2, 3)}

NoConf == [global |-> None, specific |-> None, builtin |-> None,
           useBuiltin |-> FALSE]

\* lo, loop0, wlo1, eth0, docker0; disks and mounts have such names too.
MCItemNames == {<<"lo">>, <<"lo", "op", "0">>, <<"w", "lo", "1">>,
                <<"eth", "0">>, <<"docker", "0">>, <<"/", "boot">>,
                <<"/", "mnt", "/", "boot">>}

\* eth and ^lo$
MCUserPatterns == {[text |-> <<"eth">>, anchored |-> FALSE],
                   [text |-> <<"lo">>, anchored |-> TRUE]}

\* 15 user and 1 idle tick are ties of one whole that both go up; 1759 and
\* 241 are ties that both go down.
MCTickCounts ==
    [c \in {Columns[i] : i \in DOMAIN Columns} |->
       CASE c = "user" -> {0, 1, 15, 1759}
         [] c = "idle" -> {0, 1, 241}
         [] OTHER -> {0, 1}]

\* The tie at 12.05 and the one at 87.95 go down.
MCTiesUp == (0..999) \ {120, 879}

Parked(family) == phase = family /\ conf = NoConf /\ sample = NoReading

MCInit ==
    /\ CalendarInit
    /\ \/ Init /\ Idle
       \/ Parked("dates") /\ Idle
       \/ Parked("payloads") /\ CollectInit

MCNext ==
    \/ Next /\ UNCHANGED <<day, date, source, payload>>
    \/ phase = "dates" /\ CalendarNext /\ UNCHANGED <<vars, source, payload>>
    \/ phase = "payloads" /\ CollectNext /\ UNCHANGED <<vars, day, date>>

MCSpec == MCInit /\ [][MCNext]_<<vars, day, date, source, payload>>
=============================================================================
