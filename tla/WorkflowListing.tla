--------------------------- MODULE WorkflowListing ---------------------------
(***************************************************************************)
(* ListAllWorkflows pages through Temporal's visibility store while        *)
(* workflows start and close; GetWorkflowStatus describes one.  The server *)
(* is external: the store follows the workflows with a delay and answers   *)
(* pages in its default order, the running ones first, then the closed     *)
(* ones from the last to the first.  A page token is a place in that order.*)
(***************************************************************************)
EXTENDS Integers, Sequences, FiniteSets

CONSTANTS
    Workflows,
    Outcomes,       \* the ways the workflows may close
    PageSize,       \* 100 in the code
    MaxTime,        \* bound on starts and closes
    None            \* no token, no answer

ASSUME BoundsAssumption == PageSize \in Nat \ {0} /\ MaxTime \in Nat

Closed == {"completed", "failed", "canceled", "terminated", "timedOut", "continuedAsNew"}
Status == {"running"} \cup Closed
ASSUME OutcomesAssumption == Outcomes \subseteq Closed

(* An execution as the server reports it; closeTime 0 is an unset one.      *)
Execution == [status : Status, start : 1..MaxTime, close : 0..MaxTime]
WorkflowStatus == [id : Workflows, status : Status, start : 1..MaxTime, close : 0..MaxTime]
Token == [closed : BOOLEAN, time : 1..MaxTime]
ASSUME NoneAssumption == None \notin Execution \cup Token

VARIABLES
    now,        \* the server's clock, one tick per start and close
    execs,      \* the executions, None before they start
    indexed,    \* the visibility store
    running,    \* a ListAllWorkflows call: "idle", "paging", "ok", "error"
    onlyOpen,   \* whether its query asks for running workflows only
    token,      \* nextPageToken
    list,       \* workflows
    matched     \* what has matched the query ever since the call began

vars == <<now, execs, indexed, running, onlyOpen, token, list, matched>>
serverVars == <<now, execs, indexed>>
callVars == <<running, onlyOpen, token, list>>

TypeOK ==
    /\ now \in 0..MaxTime
    /\ execs \in [Workflows -> Execution \cup {None}]
    /\ indexed \in [Workflows -> Execution \cup {None}]
    /\ running \in {"idle", "paging", "ok", "error"}
    /\ onlyOpen \in BOOLEAN
    /\ token \in Token \cup {None}
    /\ list \in Seq(WorkflowStatus)
    /\ matched \subseteq Workflows

Init ==
    /\ now = 0
    /\ execs = [w \in Workflows |-> None]
    /\ indexed = [w \in Workflows |-> None]
    /\ running = "idle"
    /\ onlyOpen = FALSE
    /\ token = None
    /\ list = <<>>
    /\ matched = {}

----------------------------------------------------------------------------
(* The server.                                                              *)
Matches(e) == e # None /\ (onlyOpen => e.status = "running")

StartWorkflow(w) ==
    /\ execs[w] = None
    /\ now < MaxTime
    /\ now' = now + 1
    /\ execs' = [execs EXCEPT ![w] = [status |-> "running", start |-> now', close |-> 0]]
    /\ UNCHANGED <<indexed, callVars, matched>>

CloseWorkflow(w, outcome) ==
    /\ execs[w] # None
    /\ execs[w].status = "running"
    /\ now < MaxTime
    /\ now' = now + 1
    /\ execs' = [execs EXCEPT ![w] = [@ EXCEPT !.status = outcome, !.close = now']]
    /\ UNCHANGED <<indexed, callVars, matched>>

(* The visibility record of a workflow catches up.                          *)
Index(w) ==
    /\ indexed[w] # execs[w]
    /\ indexed' = [indexed EXCEPT ![w] = execs[w]]
    /\ matched' = {x \in matched : Matches(indexed'[x])}
    /\ UNCHANGED <<now, execs, callVars>>

(* The place of an execution in the store's order, and what is behind a     *)
(* place.                                                                   *)
Place(e) == [closed |-> e.status # "running",
             time |-> IF e.status = "running" THEN e.start ELSE e.close]
Behind(p, q) ==     \* p comes after q
    \/ p.closed /\ ~q.closed
    \/ p.closed = q.closed /\ p.time < q.time
Rest(t) == {w \in Workflows :
              Matches(indexed[w]) /\ (t = None \/ Behind(Place(indexed[w]), t))}
Before(w, S) == {x \in S : Behind(Place(indexed[w]), Place(indexed[x]))}
InOrder(S) == [i \in 1..Cardinality(S) |-> CHOOSE w \in S : Cardinality(Before(w, S)) = i - 1]

----------------------------------------------------------------------------
(* ListAllWorkflows.                                                        *)
ListAllWorkflows(open) ==
    /\ running # "paging"
    /\ running' = "paging"
    /\ onlyOpen' = open
    /\ token' = None
    /\ list' = <<>>
    /\ matched' = {w \in Workflows :
                     indexed[w] # None /\ (open => indexed[w].status = "running")}
    /\ UNCHANGED serverVars

(* Mutant: both times are taken from the same field.                        *)
statusOneTime(w, e) == [id |-> w, status |-> e.status, start |-> e.start,
                        close |-> IF e.close # 0 THEN e.start ELSE 0]
status(w, e) == [id |-> w, status |-> e.status, start |-> e.start, close |-> e.close]

(* Mutant: the token is assigned to a variable of the loop's body.          *)
NextTokenShadowed(page) == None
NextToken(page) == Place(indexed[page[Len(page)]])

(* Mutant: a page that is not full is taken for the last.                   *)
LastPageIfShort(page, more) == Len(page) < PageSize \/ ~more
LastPage(page, more) == ~more

(* A page comes back: at most PageSize executions, fewer if the server      *)
(* likes, and a token as long as there are more behind it.                  *)
ListWorkflow ==
    /\ running = "paging"
    /\ \E rest \in {InOrder(Rest(token))}, n \in 1..PageSize :
         LET page == SubSeq(rest, 1, IF n < Len(rest) THEN n ELSE Len(rest))
         IN  /\ list' = list \o [i \in DOMAIN page |-> status(page[i], indexed[page[i]])]
             /\ IF LastPage(page, Len(rest) > n)
                  THEN running' = "ok" /\ token' = None
                  ELSE UNCHANGED running /\ token' = NextToken(page)
    /\ UNCHANGED <<serverVars, onlyOpen, matched>>

(* Mutant: a page that fails starts the listing over.                       *)
ListWorkflowFailsRestarts ==
    /\ running = "paging"
    /\ token' = None
    /\ list' = <<>>
    /\ UNCHANGED <<serverVars, running, onlyOpen, matched>>

(* A page fails: no page is asked for again, and what was collected is      *)
(* dropped.                                                                 *)
ListWorkflowFails ==
    /\ running = "paging"
    /\ running' = "error"
    /\ token' = None
    /\ list' = <<>>
    /\ UNCHANGED <<serverVars, onlyOpen, matched>>

(* GetWorkflowStatus asks for the execution itself, not for its record, and *)
(* converts it by code of its own.                                          *)
GetWorkflowStatus(w) ==
    [id |-> w, status |-> execs[w].status, start |-> execs[w].start,
     close |-> execs[w].close]

IsWorkflowRunning(s)    == s = "running"
IsWorkflowCompleted(s)  == s = "completed"
IsWorkflowFailed(s)     == s = "failed"
IsWorkflowCanceled(s)   == s = "canceled"
IsWorkflowTerminated(s) == s = "terminated"
IsWorkflowTimedOut(s)   == s = "timedOut"

----------------------------------------------------------------------------
Next ==
    \/ \E w \in Workflows :
         \/ StartWorkflow(w) \/ Index(w)
         \/ \E s \in Outcomes : CloseWorkflow(w, s)
    \/ \E open \in BOOLEAN : ListAllWorkflows(open)
    \/ ListWorkflow \/ ListWorkflowFails

(* Every request gets an answer or an error; nobody has to start, close or  *)
(* ask for anything.                                                        *)
Spec == Init /\ [][Next]_vars
FairSpec == Spec /\ WF_vars(ListWorkflow \/ ListWorkflowFails)

----------------------------------------------------------------------------
Ids(l) == {l[i].id : i \in DOMAIN l}

(* A listing that succeeded has every workflow whose record matched the     *)
(* query from the first page to the last, however many started and closed   *)
(* between the pages.                                                       *)
NoneMissed == running = "ok" => matched \subseteq Ids(list)

(* A workflow is listed twice only if it was listed running and closed      *)
(* before a later page: a caller that counts must look at the identifiers.  *)
TwiceOnlyIfClosed ==
    \A i, j \in DOMAIN list :
        i < j /\ list[i].id = list[j].id =>
            IsWorkflowRunning(list[i].status) /\ ~IsWorkflowRunning(list[j].status)

Predicates(s) == {p \in 1..6 : <<IsWorkflowRunning(s), IsWorkflowCompleted(s), IsWorkflowFailed(s),
                                IsWorkflowCanceled(s), IsWorkflowTerminated(s), IsWorkflowTimedOut(s)>>[p]}

(* What was listed stays true: GetWorkflowStatus says the same of a         *)
(* workflow listed as closed, and of one listed as running the same start.  *)
(* That it runs may be over when it is listed.  Each status satisfies one   *)
(* of the six predicates; only continued-as-new satisfies none.             *)
ClosedIsFinal ==
    \A i \in DOMAIN list :
        LET l == list[i]
            d == GetWorkflowStatus(l.id)
        IN  /\ IF IsWorkflowRunning(l.status) THEN l.start = d.start /\ l.close = 0 ELSE l = d
            /\ Cardinality(Predicates(l.status)) = IF l.status = "continuedAsNew" THEN 0 ELSE 1

(* The loop comes to an end although workflows go on starting and closing.  *)
ListingEnds == running = "paging" ~> running # "paging"
=============================================================================
