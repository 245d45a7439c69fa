---------------------------- MODULE PlatformCall ----------------------------
(***************************************************************************)
(* One HTTP call to the platform: the machine's proxy policy is asked of a *)
(* resolver that may hang (src/src/common/platform_proxy.c), then the      *)
(* routes it names are tried in order, each under the clocks of the upload,*)
(* of the answer and of its body (src/src/common/platform_http.c).  The    *)
(* transfer is libcurl's: a turn of its loop delivers one event or none.   *)
(* A time is kept as what has gone since, in units the configuration       *)
(* scales.                                                                 *)
(***************************************************************************)
EXTENDS Integers, FiniteSets

CONSTANTS
    Callers,       \* threads that call
    Me,            \* the one whose call is followed beyond its lookup
    MaxResolvers,  \* lookups that may run at once (2)
    Calls,         \* the calls there are: records of budgets, see below
    ConnectMs,     \* connect_ms
    Ttls,          \* what a receipt may leave of a delivery
    MaxAge         \* bound: clocks stop here; beyond every budget

\* A call: total, headers, idle and body are budgets (0: none), size is what it uploads,
\* large says its body is of 64 KiB or more, receipt that its answer carries a delivery's
\* deadline, retries that it is a desktop read, which is tried once again, leaves that its
\* caller may give up.
Measures == 0..(MaxAge - 1)
CallKinds == [total : Measures, headers : Measures, idle : Measures, body : Measures, size : Measures,
              large : BOOLEAN, receipt : BOOLEAN, retries : BOOLEAN, leaves : BOOLEAN]
ASSUME PlatformCallAssumption ==
    /\ Me \in Callers /\ IsFiniteSet(Callers)
    /\ MaxResolvers \in Nat \ {0} /\ ConnectMs \in Nat \ {0}
    /\ Ttls \subseteq Nat /\ MaxAge \in Nat /\ Calls \subseteq CallKinds

VARIABLES
    lookup,            \* where each caller's lookup stands
    active_resolvers, held, orphans,  \* resolvers, their queries, those nobody waits for
    call,              \* what Me calls
    xfer,              \* the transfer: where it stands, on which route, what has moved
    age,               \* what has gone since: the start, the end of the upload, the last
                       \* byte, the beginning of the answer, and of its body; -1: not yet
    due,               \* the delivery's deadline, as what is left of it; -1: none
    tries,             \* attempts a desktop read has left
    abandoned,         \* the caller gives up
    reached,           \* history: routes on which some of the request may have left
    promptly           \* history: nothing moved for this long, on this route

callVars == <<lookup, active_resolvers, held, orphans, call, xfer, age, due, tries, abandoned, reached, promptly>>
lookupVars == <<lookup, active_resolvers, held, orphans>>

Idle == [at |-> "idle", routes |-> 0]
NoTransfer == [at |-> "none", route |-> 0, routes |-> 0, sent |-> 0, got |-> 0, status |-> "none", why |-> "none"]
NoAge == [start |-> 0, upload |-> -1, move |-> 0, answer |-> -1, body |-> -1]

PlatformCallInit ==
    /\ lookup = [c \in Callers |-> Idle] /\ active_resolvers = 0 /\ held = 0 /\ orphans = 0
    /\ call \in Calls
    /\ xfer = NoTransfer /\ age = NoAge /\ due = -1 /\ tries = (IF call.retries THEN 1 ELSE 0)
    /\ abandoned = FALSE /\ reached = 0 /\ promptly = 0

AtMe(s) == xfer.at = s
Restful == <<call, xfer, age, due, tries, abandoned, reached, promptly>>

----------------------------------------------------------------------------
\* idletoken_platform_proxies_cancel

Look(c, s, routes) == lookup' = [lookup EXCEPT ![c] = [at |-> s, routes |-> routes]]

\* A loopback or bypassed address is direct, a proxy of the environment is the one route;
\* else the system's policy has to be asked.
Ask(c) ==
    /\ lookup[c] = Idle /\ (c = Me => AtMe("none") /\ ~abandoned)
    /\ \/ Look(c, "routed", 1) /\ UNCHANGED held
       \/ Look(c, "blocked", 0) /\ UNCHANGED held
       \/ Look(c, "queued", 0) /\ held' = held + 1
    /\ UNCHANGED <<active_resolvers, orphans, Restful>>

\* Its own killable resolver, if there is room; the thread may not start.
StartResolver(c) ==
    /\ lookup[c].at = "queued" /\ active_resolvers < MaxResolvers
    /\ \/ Look(c, "waiting", 0) /\ active_resolvers' = active_resolvers + 1 /\ UNCHANGED held
       \/ Look(c, "blocked", 0) /\ held' = held - 1 /\ UNCHANGED active_resolvers
    /\ UNCHANGED <<orphans, Restful>>

\* resolve_native: the slot is given back when the resolver really returns.
Resolved(c) ==
    /\ lookup[c].at = "waiting"
    /\ \E routes \in 0..2 : Look(c, "resolved", routes)
    /\ active_resolvers' = active_resolvers - 1
    /\ UNCHANGED <<held, orphans, Restful>>
OrphanReturns ==
    /\ orphans > 0
    /\ orphans' = orphans - 1 /\ active_resolvers' = active_resolvers - 1 /\ held' = held - 1
    /\ UNCHANGED <<lookup, Restful>>

TakeVerdict(c) ==
    /\ lookup[c].at = "resolved"
    /\ Look(c, IF lookup[c].routes = 0 THEN "blocked" ELSE "routed", lookup[c].routes)
    /\ held' = held - 1
    /\ UNCHANGED <<active_resolvers, orphans, Restful>>

\* The budget of the lookup is over, or its caller gave up: a proxy that may be required is
\* not passed by, and a resolver that runs keeps its query and its slot.
\* MUTANT: a caller that gives up frees the query its resolver still writes to.
GiveUpAnyway(c) ==
    /\ lookup[c].at \in {"queued", "waiting", "resolved"}
    /\ Look(c, "blocked", 0)
    /\ held' = held - 1
    /\ orphans' = IF lookup[c].at = "waiting" THEN orphans + 1 ELSE orphans
    /\ UNCHANGED <<active_resolvers, Restful>>
GiveUp(c) ==
    /\ lookup[c].at \in {"queued", "waiting", "resolved"}
    /\ Look(c, "blocked", 0)
    /\ IF lookup[c].at = "waiting"
         THEN orphans' = orphans + 1 /\ UNCHANGED held
       ELSE held' = held - 1 /\ UNCHANGED orphans
    /\ UNCHANGED <<active_resolvers, Restful>>

\* Another thread's call goes its way.
CallsOn(c) ==
    /\ c # Me /\ lookup[c].at \in {"routed", "blocked"}
    /\ lookup' = [lookup EXCEPT ![c] = Idle]
    /\ UNCHANGED <<active_resolvers, held, orphans, Restful>>

LookupOf(c) == Ask(c) \/ StartResolver(c) \/ Resolved(c) \/ TakeVerdict(c) \/ GiveUp(c) \/ CallsOn(c)
LookupStep == (\E c \in Callers : LookupOf(c)) \/ OrphanReturns

----------------------------------------------------------------------------
\* idletoken_platform_http: the transfer.

Uploading == age.upload < 0
Late(budget, a) == budget > 0 /\ a >= budget
\* The answer clock of a large body also gets the idle budget: it may still drain.
answer_ms == IF call.headers > 0 /\ call.idle > 0 /\ call.large THEN call.headers + call.idle ELSE call.headers

\* MUTANT: the server's time to answer runs from the start of the request.
check_deadlines_started ==
    IF abandoned THEN "cancelled"
    ELSE IF \/ Late(call.total, age.start)
            \/ age.body < 0 /\ Late(answer_ms, age.start)
            \/ Uploading /\ Late(call.body, age.start)
            \/ age.body >= 0 /\ Late(call.body, age.body)
            \/ due = 0
      THEN "deadline"
    ELSE IF (Uploading \/ age.body >= 0) /\ Late(call.idle, age.move) THEN "stalled" ELSE "none"
check_deadlines ==
    IF abandoned THEN "cancelled"
    ELSE IF \/ Late(call.total, age.start)
            \/ ~Uploading /\ age.body < 0 /\ Late(answer_ms, age.upload)
            \/ Uploading /\ Late(call.body, age.start)
            \/ age.body >= 0 /\ Late(call.body, age.body)
            \/ due = 0
      THEN "deadline"
    ELSE IF (Uploading \/ age.body >= 0) /\ Late(call.idle, age.move) THEN "stalled" ELSE "none"

\* A route is a fresh transfer; the clock of the whole runs on.
OnRoute(r, a) ==
    /\ xfer' = [NoTransfer EXCEPT !.at = "check", !.route = r, !.routes = lookup[Me].routes, !.status = "connecting"]
    /\ age' = [a EXCEPT !.move = 0, !.upload = IF call.size = 0 THEN 0 ELSE -1]
    /\ promptly' = 0

Fails(why) == xfer' = [xfer EXCEPT !.at = "failed", !.why = why]

\* The lookup has a budget of its own: the call's clocks start after it.
Begin ==
    /\ AtMe("none") /\ lookup[Me].at \in {"routed", "blocked"}
    /\ IF lookup[Me].at = "blocked" THEN Fails("blocked") /\ UNCHANGED <<age, promptly>>
       ELSE OnRoute(1, NoAge)
    /\ UNCHANGED <<lookupVars, call, due, tries, abandoned, reached>>

\* The loop asks the clocks before every turn of libcurl's, and once more behind the last.
Check ==
    /\ AtMe("check")
    /\ IF check_deadlines = "none" THEN xfer' = [xfer EXCEPT !.at = "perform"] ELSE Fails(check_deadlines)
    /\ UNCHANGED <<lookupVars, call, age, due, tries, abandoned, reached, promptly>>
\* MUTANT: an answer that is there is taken.
LastCheckNot ==
    /\ AtMe("complete") /\ xfer' = [xfer EXCEPT !.at = "ok"]
    /\ UNCHANGED <<lookupVars, call, age, due, tries, abandoned, reached, promptly>>
LastCheck ==
    /\ AtMe("complete")
    /\ IF check_deadlines = "none" THEN xfer' = [xfer EXCEPT !.at = "ok"] ELSE Fails(check_deadlines)
    /\ UNCHANGED <<lookupVars, call, age, due, tries, abandoned, reached, promptly>>

Quiet ==
    /\ AtMe("perform") /\ xfer' = [xfer EXCEPT !.at = "check"]
    /\ UNCHANGED <<lookupVars, call, age, due, tries, abandoned, reached, promptly>>

ConnectFails ==
    /\ AtMe("perform") /\ xfer.status = "connecting"
    /\ xfer' = [xfer EXCEPT !.at = "broken", !.why = "not connected"]
    /\ UNCHANGED <<lookupVars, call, age, due, tries, abandoned, reached, promptly>>
\* libcurl's own connect timeout, or a name that is no name: no other route is tried.
ConnectTimesOut ==
    /\ AtMe("perform") /\ xfer.status = "connecting" /\ age.start >= ConnectMs
    /\ xfer' = [xfer EXCEPT !.at = "broken", !.why = "transport"]
    /\ UNCHANGED <<lookupVars, call, age, due, tries, abandoned, reached, promptly>>
Connects ==
    /\ AtMe("perform") /\ xfer.status = "connecting" /\ age.start < ConnectMs
    /\ xfer' = [xfer EXCEPT !.at = "check", !.status = "connected"]
    /\ reached' = reached + 1
    /\ UNCHANGED <<lookupVars, call, age, due, tries, abandoned, promptly>>

\* transfer_progress
Uploads ==
    /\ AtMe("perform") /\ xfer.status # "connecting" /\ xfer.sent < call.size
    /\ xfer' = [xfer EXCEPT !.at = "check", !.sent = @ + 1]
    /\ age' = [age EXCEPT !.move = 0,
                          !.upload = IF @ < 0 /\ xfer.sent + 1 = call.size THEN 0 ELSE @]
    /\ promptly' = 0
    /\ UNCHANGED <<lookupVars, call, due, tries, abandoned, reached>>

\* receive_header: a status line begins an answer, and the one before it was not the last:
\* the peer has taken the upload, or will not; the blank line ends the head of an answer that
\* is not an interim one.
StatusLine ==
    /\ AtMe("perform") /\ xfer.status \in {"connected", "interim"}
    /\ \E s \in {"interim", "head"} : xfer' = [xfer EXCEPT !.at = "check", !.status = s]
    /\ age' = [age EXCEPT !.answer = 0, !.body = -1, !.upload = IF @ < 0 THEN 0 ELSE @]
    /\ UNCHANGED <<lookupVars, call, due, tries, abandoned, reached, promptly>>
BlankLine ==
    /\ AtMe("perform") /\ xfer.status = "head"
    /\ xfer' = [xfer EXCEPT !.at = "check", !.status = "body"]
    /\ age' = [age EXCEPT !.body = 0, !.move = 0]
    /\ promptly' = 0
    /\ UNCHANGED <<lookupVars, call, due, tries, abandoned, reached>>

\* receive_body, with receipt_deadline: what is left of a delivery counts from the answer's
\* first line, not from when its body came.
Receipt == call.receipt /\ xfer.got = 0
\* MUTANT: the delivery's time counts from when its receipt is read.
DueNow(ttl) == ttl
Due(ttl) == IF ttl > age.answer THEN ttl - age.answer ELSE 0
BodyArrives ==
    /\ AtMe("perform") /\ xfer.status = "body" /\ xfer.got < 2
    /\ xfer' = [xfer EXCEPT !.at = "check", !.got = @ + 1]
    /\ age' = [age EXCEPT !.move = 0]
    /\ \/ Receipt /\ \E ttl \in Ttls : due' = Due(ttl)
       \/ ~Receipt /\ UNCHANGED due
    /\ promptly' = 0
    /\ UNCHANGED <<lookupVars, call, tries, abandoned, reached>>
AnswerCompletes ==
    /\ AtMe("perform") /\ xfer.status = "body" /\ (call.receipt => xfer.got > 0)
    /\ xfer' = [xfer EXCEPT !.at = "complete"]
    /\ UNCHANGED <<lookupVars, call, age, due, tries, abandoned, reached, promptly>>
\* The connection breaks, the answer is over the limit, or its consumer will have no more.
TransferBreaks ==
    /\ AtMe("perform") /\ xfer.status # "connecting"
    /\ \E why \in {"transport", "refused"} : xfer' = [xfer EXCEPT !.at = "broken", !.why = why]
    /\ UNCHANGED <<lookupVars, call, age, due, tries, abandoned, reached, promptly>>

\* Another route is tried only when nothing of the request can have reached the peer.
\* MUTANT: or when the connection broke.
NextRouteAlways ==
    /\ AtMe("broken") /\ check_deadlines = "none"
    /\ xfer.route < xfer.routes
    /\ IF age.start < ConnectMs THEN OnRoute(xfer.route + 1, age)
       ELSE Fails("deadline") /\ UNCHANGED <<age, promptly>>
    /\ UNCHANGED <<lookupVars, call, due, tries, abandoned, reached>>
NextRoute ==
    /\ AtMe("broken") /\ check_deadlines = "none"
    /\ xfer.why = "not connected" /\ xfer.route < xfer.routes
    /\ IF age.start < ConnectMs THEN OnRoute(xfer.route + 1, age)
       ELSE Fails("deadline") /\ UNCHANGED <<age, promptly>>
    /\ UNCHANGED <<lookupVars, call, due, tries, abandoned, reached>>
NoRoute ==
    /\ AtMe("broken")
    /\ check_deadlines # "none" \/ xfer.why # "not connected" \/ xfer.route = xfer.routes
    /\ Fails(IF check_deadlines # "none" THEN check_deadlines ELSE xfer.why)
    /\ UNCHANGED <<lookupVars, call, age, due, tries, abandoned, reached, promptly>>

\* platform_http_stdio: a desktop read without an answer is tried once more, in what is
\* left of its time.
TryAgain ==
    /\ AtMe("failed") /\ tries > 0 /\ call.size = 0
    /\ xfer.why \in {"not connected", "transport"} /\ age.answer < 0
    /\ age.start < call.total
    /\ tries' = tries - 1
    /\ call' = [call EXCEPT !.total = @ - age.start]
    /\ xfer' = NoTransfer /\ age' = NoAge
    /\ lookup' = [lookup EXCEPT ![Me] = Idle]
    /\ UNCHANGED <<active_resolvers, held, orphans, due, abandoned, reached, promptly>>

\* The caller leaves; time goes by.
Leave ==
    /\ call.leaves /\ ~abandoned /\ abandoned' = TRUE
    /\ UNCHANGED <<lookupVars, call, xfer, age, due, tries, reached, promptly>>
Older(a) == IF a < 0 \/ a >= MaxAge THEN a ELSE a + 1
CallTick ==
    /\ xfer.at \in {"check", "perform", "complete", "broken"}
    /\ age' = [k \in DOMAIN age |-> Older(age[k])]
    /\ due' = IF due > 0 THEN due - 1 ELSE due
    /\ promptly' = Older(promptly)
    /\ UNCHANGED <<lookupVars, call, xfer, tries, abandoned, reached>>

TransferStep ==
    \/ Begin \/ Check \/ LastCheck \/ Quiet \/ NextRoute \/ NoRoute \/ TryAgain
    \/ ConnectFails \/ ConnectTimesOut \/ Connects \/ Uploads \/ StatusLine \/ BlankLine
    \/ BodyArrives \/ AnswerCompletes \/ TransferBreaks
PlatformCallNext == LookupStep \/ TransferStep \/ Leave \/ CallTick
PlatformCallSpec == PlatformCallInit /\ [][PlatformCallNext]_callVars

----------------------------------------------------------------------------
\* Every resolver that runs writes to a query that is still there, the two of them are all
\* there are however many callers gave up, and every query is freed once it is nobody's.
LookupsAreKept ==
    LET Count(s) == Cardinality({c \in Callers : lookup[c].at \in s})
    IN  /\ active_resolvers <= MaxResolvers
        /\ active_resolvers = Count({"waiting"}) + orphans
        /\ held = Count({"queued", "waiting", "resolved"}) + orphans

\* A request leaves on one route only, whatever fails, and on none if the policy is unknown
\* ("direct fallback blocked"); only a read that has had no answer leaves a second time.
LeavesOnce ==
    /\ reached <= IF call.retries THEN 2 ELSE 1
    /\ xfer.why = "blocked" => reached <= (IF call.retries THEN 1 ELSE 0)

\* An answer is given to the caller within its budgets, or not at all; and a delivery's time
\* never counts from later than the first line of the answer that brought its receipt.
InTime ==
    /\ AtMe("ok") => check_deadlines \in {"none", "cancelled"}
    /\ due > 0 => \E ttl \in Ttls : due + age.answer <= ttl

\* What stops an upload before the peer has begun to answer is a budget of the whole or of
\* uploads, never the server's time to answer; and "stalled" means that nothing has moved
\* for the idle budget.
SlowIsNotStuck ==
    AtMe("failed") =>
        /\ xfer.why = "stalled" => promptly >= call.idle
        /\ xfer.why = "deadline" /\ xfer.status = "connected" /\ xfer.sent < call.size =>
              Late(call.total, age.start) \/ Late(call.body, age.start)

CallIsKept == LookupsAreKept /\ LeavesOnce /\ InTime /\ SlowIsNotStuck

\* A call ends: by its budgets, if it has any, and once its caller leaves in any case.
MyStep == Ask(Me) \/ StartResolver(Me) \/ TakeVerdict(Me) \/ GiveUp(Me) \/ TransferStep
CallEnds ==
    lookup[Me] # Idle /\ (call.total > 0 \/ (call.headers > 0 /\ call.idle > 0) \/ abandoned)
        ~> xfer.at \in {"ok", "failed"}
=============================================================================
