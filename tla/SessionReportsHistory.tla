----------------------- MODULE SessionReportsHistory ------------------------
(* The reports of a session with history variables: what has happened to the  *)
(* state file.  They observe the session and decide nothing; what a reader    *)
(* must be told is stated over them, because the session itself forgets a     *)
(* failure together with the file it was recorded in.                         *)
EXTENDS SessionReports

VARIABLES
  troubled,   \* a session that failed was saved, or a saved session was lost
  aside,      \* a file was moved aside, and no session that says so was saved since
  overlapped  \* two runners were up at once

hvars == <<vars, troubled, aside, overlapped>>

Unreadable(f) == f.state \in {"torn", "damaged"}
TellsOfTrouble(f) == f.state = "whole" /\ f.session.failed
Up(w) == ~At(w, "down")

MovedAside == Unreadable(file) /\ file'.state = "absent"

HInit == Init /\ troubled = FALSE /\ aside = FALSE /\ overlapped = FALSE

\* A session is lost with its file if no runner has it in memory.
Observe ==
  /\ troubled' = (\/ troubled \/ TellsOfTrouble(file')
                  \/ MovedAside /\ \A w \in Writers : ~Up(w))
  /\ aside' = ((aside \/ MovedAside) /\ ~TellsOfTrouble(file'))
  /\ overlapped' = (overlapped \/ \E v, w \in Writers : v # w /\ Up(v)' /\ Up(w)')

HNext == Next /\ Observe

HSpec == HInit /\ [][HNext]_hvars

-----------------------------------------------------------------------------
\* Once a refresh or the graph failed, or a saved session could not be read, no
\* reader is told that the session is healthy, through any later good bars,
\* refreshes, stops and crashes: neither in the session that saw it, nor of the
\* file.  Of the file it holds as long as one runner at a time extends it -- the
\* later of two writes back what it loaded -- and whoever moved an unreadable file
\* aside lives to save a session that says so (system_health, _record_error, load_state).
TroubleIsShown ==
  /\ \A s \in Sessions : s.failed => SystemHealth(s) = "DEGRADED"
  /\ troubled /\ ~aside /\ ~overlapped => SystemHealth(Shown) = "DEGRADED"
=============================================================================
