------------------------------ MODULE ConsolePage ------------------------------
(***************************************************************************)
(* What the pages of the admin console have in common: a table of rows     *)
(* loaded from the backend, handlers that wait for answers while the user  *)
(* goes on, and a list request after every successful change.  One page is *)
(* mounted; ui holds the state of its own.  A handler is a request that    *)
(* the backend serves at some time and whose answer arrives at a later     *)
(* one, with other steps of the user and of the backend in between.        *)
(***************************************************************************)
EXTENDS ConsoleApi, FiniteSets

CONSTANT MaxRequests  \* bound: handlers started

VARIABLES
  page,      \* the page that is mounted
  db,        \* backend: the table behind the page
  rows,      \* the rows that are shown
  api,       \* source of the page's API status, "none" before the first answer
  ui,        \* the page's own state
  running,   \* the handlers that wait: [n, op, arg, try, answer, list, times]
  sent,      \* number of the last handler
  crossed,   \* history: did the user act while a handler was running?
  said,      \* history: the last message, [kind, op, arg, times, lost]
  listed     \* history: the last list that arrived

vars == <<page, db, rows, api, ui, running, sent, crossed, said, listed>>

Waiting == "waiting"  \* in place of an answer
NoList == {}  \* or the one list that has been served
NoArg == [key |-> 0]
Silent == [kind |-> "none", op |-> "none", arg |-> NoArg, times |-> 0, lost |-> FALSE]

\* A handler starts: its first request is sent.
Handler(op, arg) ==
  [n |-> sent + 1, op |-> op, arg |-> arg, try |-> 1, answer |-> Waiting, list |-> NoList,
   times |-> 0, lost |-> FALSE]
Start(op, arg) ==
  /\ sent < MaxRequests
  /\ sent' = sent + 1
  /\ running' = running \cup {Handler(op, arg)}
  /\ crossed' = (crossed \/ running # {})
  /\ said' = Silent

Becomes(h, next) == running' = (running \ {h}) \cup {next}

\* A list request is sent; try 0 stands for it.
AskList(h) == Becomes(h, [h EXCEPT !.try = 0, !.answer = Waiting])
AskAgain(h) == Becomes(h, [h EXCEPT !.try = h.try + 1, !.answer = Waiting])
Ends(h) == running' = running \ {h}

\* The backend serves a request for the list.
ServeList(h, list) ==
  /\ h.try = 0 /\ h.answer = Waiting
  /\ \E answer \in {"ok", "denied", "failed"} :
       Becomes(h, [h EXCEPT !.answer = answer, !.list = {list}])
  /\ UNCHANGED <<page, db, rows, api, ui, sent, crossed, said, listed>>

\* The backend serves a request that changes the table to next; an answer
\* that is an error leaves it as it is.
ServeChange(h, answers, next) ==
  /\ h.try > 0 /\ h.answer = Waiting
  /\ \E answer \in answers :
       /\ db' = IF Applied(answer) THEN next ELSE db
       /\ Becomes(h, [h EXCEPT !.answer = answer, !.lost = @ \/ answer = "lost",
                               !.times = IF Applied(answer) THEN @ + 1 ELSE @])
  /\ UNCHANGED <<page, rows, api, ui, sent, crossed, said, listed>>

Answered(h) == h.answer # Waiting
Say(h, kind) == said' = [kind |-> kind, op |-> h.op, arg |-> h.arg, times |-> h.times, lost |-> h.lost]

\* The answer to a list request is shown.
ShowList(h, result) ==
  /\ rows' = CHOOSE list \in result.data : TRUE
  /\ api' = result.source
  /\ listed' = IF h.answer = "ok" THEN rows' ELSE listed

\* The page has been opened, and its effect has asked for the list.
Opened(mounted, table, first, arg) ==
  /\ page = mounted
  /\ db = table
  /\ rows = first
  /\ api = "none"
  /\ sent = 1
  /\ running = {[n |-> 1, op |-> "load", arg |-> arg, try |-> 0, answer |-> Waiting, list |-> NoList,
                 times |-> 0, lost |-> FALSE]}
  /\ crossed = FALSE
  /\ said = Silent
  /\ listed = first
==============================================================================
