------------------------ MODULE UninterruptedReplay ------------------------
(* What the paper session promises, without processes, files and faults: one *)
(* run of catch_up that never stops takes the bars in the order they were    *)
(* published, each of them once, and each from the book the bar before left. *)
(* What a bar does to a book is a parameter: the promise is that nothing else *)
(* does anything.  PaperTradingHistory implements it.                        *)
EXTENDS Integers, Sequences

CONSTANTS Bars, Warmup, Switch, Grades,
          Blank,                 \* the book of a session that has seen no bar
          OnBar(_, _, _, _, _, _) \* the book after a bar: process_bar

VARIABLES feed,  \* the bars published so far
          run    \* bar number |-> the book after it; 0 is the blank book

rvars == <<feed, run>>

Init == feed = <<>> /\ run = [t \in {0} |-> Blank]

Publish == \E bar \in Bars : feed' = Append(feed, bar) /\ UNCHANGED run

Process ==
  \E t \in 1 .. Len(feed) :
    /\ DOMAIN run = 0 .. t - 1
    /\ \E enabled \in Switch, grade \in Grades :
         run' = [s \in 0 .. t |->
                   IF s < t THEN run[s]
                   ELSE OnBar(run[t - 1], feed[t], t, enabled, grade, t - 1 >= Warmup)]
    /\ UNCHANGED feed

Next == Publish \/ Process

Spec == Init /\ [][Next]_rvars
=============================================================================
