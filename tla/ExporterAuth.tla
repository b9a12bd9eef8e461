----------------------------- MODULE ExporterAuth -----------------------------
(***************************************************************************)
(* Who is let in.  A login is put to the OVM manager whose address the     *)
(* process read when it started; the token it gets is checked by whatever  *)
(* process serves when it is used, against nothing but that process's      *)
(* secret and the time.  No token is recorded anywhere, so none is lost    *)
(* with a process and none can be taken back.                              *)
(***************************************************************************)
EXTENDS ExporterService, FiniteSets, Bags, BagsExt

CONSTANTS
    Users,
    TTL,       \* how long a token is valid
    MaxLogins, \* bound on the logins that are handled at once
    MaxTokens, \* bound on the tokens
    MaxTime    \* bound on the clock

ASSUME AuthAssumption == TTL \in Nat /\ MaxLogins \in Nat /\ MaxTokens \in Nat /\ MaxTime \in Nat \ {0}

VARIABLES
    now,    \* the time
    left,   \* manager -> user -> when the account was removed, or None
    logins, \* the requests for a login that are being handled, some of them alike
    tokens  \* all tokens given out; asked, issued and by are history

vars == <<pc, conf, lock, port, file, certs, managerIP, order, events, now, left, logins, tokens>>

-----------------------------------------------------------------------------
Init ==
    /\ ServiceInit
    /\ now = 1 /\ left = [m \in Managers |-> [u \in Users |-> None]]
    /\ logins = EmptyBag /\ tokens = {}

LoginHandler(p, u) ==
    /\ port = p
    /\ BagCardinality(logins) < MaxLogins
    /\ logins' = BagAdd(logins, [user |-> u, proc |-> p, asked |-> now, vouched |-> FALSE])
    /\ UNCHANGED <<service, now, left, tokens>>

\* The manager has vouched for one of the logins that are like l.
Vouched(l) == BagAdd(BagRemove(logins, l), [l EXCEPT !.vouched = TRUE])

\* Fault: an answer that refuses the login is taken for a success.
AttemptRequest_AnyAnswer(l) ==
    /\ ~ l.vouched
    /\ logins' \in {Vouched(l), BagRemove(logins, l)}
    /\ UNCHANGED <<service, now, left, tokens>>

\* The repositories of the manager are listed with the user's credentials: it
\* does so for the accounts it has.  Any error refuses the login.
AttemptRequest(l) ==
    /\ ~ l.vouched
    /\ \/ left[conf[l.proc].endpoint][l.user] = None /\ logins' = Vouched(l)
       \/ logins' = BagRemove(logins, l)
    /\ UNCHANGED <<service, now, left, tokens>>

\* The rest of LoginHandler.
IssueToken(l) ==
    /\ l.vouched
    /\ Cardinality(tokens) < MaxTokens
    /\ tokens' = tokens \cup {[user |-> l.user, secret |-> conf[l.proc].secret,
                               exp |-> now + TTL, asked |-> l.asked, issued |-> now,
                               by |-> conf[l.proc].endpoint]}
    /\ logins' = BagRemove(logins, l)
    /\ UNCHANGED <<service, now, left>>

RemoveAccount(m, u) ==
    /\ left[m][u] = None
    /\ Event
    /\ left' = [left EXCEPT ![m][u] = now]
    /\ UNCHANGED <<pc, conf, lock, port, file, certs, managerIP, order, now, logins, tokens>>

Tick ==
    /\ now < MaxTime
    /\ now' = now + 1
    /\ UNCHANGED <<service, left, logins, tokens>>

\* The requests that a process handles end with it.
WithLogins ==
    /\ logins' = [l \in {k \in BagToSet(logins) : port' = k.proc} |-> logins[l]]
    /\ UNCHANGED <<now, left, tokens>>

Next ==
    \/ ServiceNext /\ WithLogins
    \/ \E p \in Procs, u \in Users : LoginHandler(p, u)
    \/ \E l \in BagToSet(logins) : AttemptRequest(l) \/ IssueToken(l)
    \/ \E m \in Managers, u \in Users : RemoveAccount(m, u)
    \/ Tick

\* main and the server's goroutine go on, and the supervisor does its part.
Fairness ==
    /\ \A p \in Procs : /\ WF_vars(Main(p) /\ WithLogins)
                        /\ WF_vars(ListenAndServeTLS(p) /\ WithLogins)
    /\ WF_vars(Restart /\ WithLogins)

Spec == Init /\ [][Next]_vars /\ Fairness

-----------------------------------------------------------------------------
(***************************************************************************)
(* Properties.                                                             *)
(***************************************************************************)
\* The middleware passes a request with this token on to its handler.
Accepts(p, t) ==
    /\ port = p
    /\ t.secret = conf[p].secret
    /\ now <= t.exp

Login == [user : Users, proc : Procs, asked : Nat, vouched : BOOLEAN]
Token == [user : Users, secret : Secrets, exp : Nat, asked : Nat, issued : Nat, by : Managers]

\* Every variable has its type; the process that serves handles all logins.
TypeOK ==
    /\ ServiceTypeOK
    /\ now \in 1 .. MaxTime
    /\ left \in [Managers -> [Users -> 1 .. now \cup {None}]]
    /\ IsABag(logins) /\ BagToSet(logins) \subseteq Login /\ tokens \subseteq Token
    /\ \A l \in BagToSet(logins) : l.proc = port /\ l.asked \in 1 .. now
    /\ \A t \in tokens : t.issued \in 1 .. now /\ t.asked \in 1 .. t.issued

\* Through restarts, changes of the configuration and of the manager: a user is
\* let in only on a login that began before the account was removed from the
\* manager that vouched for it, and for no longer than TTL after that login.
AccessIsRecent ==
    \A p \in Procs, t \in tokens : Accepts(p, t) =>
        /\ now <= t.issued + TTL
        /\ left[t.by][t.user] # None => t.asked <= left[t.by][t.user]
=============================================================================
