-------------------------------- MODULE ApiGate --------------------------------
(***************************************************************************)
(* The way of a request to a handler behind the limiter of runs and        *)
(* replays: Login and RequireAuth of backend/internal/middleware/auth.go,  *)
(* RequirePermission of middleware/rbac.go and the limiter, in the order   *)
(* in which cmd/server/main.go and the router of evaluations put them.     *)
(*                                                                         *)
(* A login reads the account, compares the password, and only then reads   *)
(* the clock and issues a token, with the role it read.  A request is let  *)
(* in on a token until the token expires; later it reads the clock again   *)
(* and is limited by the user the token names.  A call that is refused for *)
(* its token or its role changes nothing, nor does a login that fails.     *)
(* The role and the activity of an account are changed by its              *)
(* administrator in the database: no handler does.  Each of these waits    *)
(* takes at most MaxDelay, too.                                            *)
(***************************************************************************)
EXTENDS RateLimiter, AccessControl

CONSTANTS
  Logins,        \* the logins of one life of the server
  Users,
  Scopes,        \* the routes that share the limiter: runs and replays
  AccountRoles,  \* roles an account is given
  Expiry,        \* ticks a token is valid, JWT_EXPIRY
  MaxChanges,    \* bound: changes of accounts
  MaxActive      \* bound: logins and requests under way at a time

ASSUME GateAssumption ==
  /\ Keys = Scopes \X Users
  /\ AccountRoles \subseteq Roles /\ None \notin Roles
  /\ None \notin [user : Users, scope : Scopes]
  /\ Expiry \in Nat /\ Expiry > Second
  /\ MaxChanges \in Nat /\ MaxActive \in Nat

VARIABLES
  account,      \* table users: the role of an account, None when it is not active
  changes,      \* how often accounts were changed
  logins,       \* logins[l]: how far login l is
  user,         \* user[l]: the account as login l has read it, and when, until it is answered
  tokens,       \* the tokens that were issued
  sent,         \* sent[r]: the user and the route of request r, None before it is let in
  admitted,     \* admitted[r]: when the token of r was found valid, until r is limited
  lastEntitled  \* lastEntitled[u]: the last tick in which u could run evaluations (history)

gateVars == <<account, changes, logins, user, tokens, sent, admitted, lastEntitled>>
allVars == <<vars, gateVars>>

\* Claims, the part that decides.
Tokens == [user : Users, role : AccountRoles, expires : Nat]

\* What a login knows of the account, and when it read it.
Accounts == [name : Users, role : AccountRoles, read : Times]

GateTypeOK ==
  /\ account \in [Users -> AccountRoles \cup {None}]
  /\ changes \in 0..MaxChanges
  /\ logins \in [Logins -> {"new", "comparing", "answered"}]
  /\ user \in [Logins -> Accounts \cup {None}]
  /\ tokens \subseteq Tokens
  /\ sent \in [Requests -> [user : Users, scope : Scopes] \cup {None}]
  /\ admitted \in [Requests -> Times \cup {None}]
  /\ lastEntitled \in [Users -> Times \cup {None}]

MayRun(role) == role # None /\ HasPermission(role, "evaluation:run")

GateInit ==
  /\ Init
  /\ account \in [Users -> AccountRoles]
  /\ changes = 0
  /\ logins = [l \in Logins |-> "new"]
  /\ user = [l \in Logins |-> None]
  /\ tokens = {}
  /\ sent = [r \in Requests |-> None]
  /\ admitted = [r \in Requests |-> None]
  /\ lastEntitled = [u \in Users |-> IF MayRun(account[u]) THEN 0 ELSE None]

Active ==
  {l \in Logins : logins[l] = "comparing"}
    \cup {r \in Requests : admitted[r] # None \/ outcome[r] = "waiting"}

-----------------------------------------------------------------------------
(* POST /auth/login.                                                       *)

\* An inactive account is refused.
ReadAccount(l) ==
  /\ logins[l] = "new" /\ Cardinality(Active) < MaxActive
  /\ logins' = [logins EXCEPT ![l] = "comparing"]
  /\ \E u \in Users :
       /\ account[u] # None
       /\ user' = [user EXCEPT ![l] = [name |-> u, role |-> account[u], read |-> now]]
  /\ UNCHANGED <<vars, account, changes, tokens, sent, admitted, lastEntitled>>

\* Mutant: the token does not expire before the server stops.
TokenForEver(l) == [user |-> user[l].name, role |-> user[l].role, expires |-> MaxTime + 1]

\* The expiry is written in whole seconds, rounded down.
NewToken(l) ==
  [user |-> user[l].name, role |-> user[l].role,
   expires |-> ((now + Expiry) \div Second) * Second]

Login(l) ==
  /\ logins[l] = "comparing"
  /\ logins' = [logins EXCEPT ![l] = "answered"]
  /\ user' = [user EXCEPT ![l] = None]
  /\ tokens' = tokens \cup {NewToken(l)}
  /\ UNCHANGED <<vars, account, changes, sent, admitted, lastEntitled>>

-----------------------------------------------------------------------------
(* POST /coverage-evaluations and /:id/replay: token, permission, limiter. *)

LetIn(token) == now < token.expires /\ MayRun(token.role)

Authenticate(r) ==
  /\ sent[r] = None /\ Cardinality(Active) < MaxActive
  /\ \E token \in tokens, scope \in Scopes :
       /\ LetIn(token)
       /\ sent' = [sent EXCEPT ![r] = [user |-> token.user, scope |-> scope]]
  /\ admitted' = [admitted EXCEPT ![r] = now]
  /\ UNCHANGED <<vars, account, changes, logins, user, tokens, lastEntitled>>

\* Mutant: all routes share the windows of a user.
KeyWithoutScope(scope, name) == <<CHOOSE other \in Scopes : TRUE, name>>

KeyOf(scope, name) == <<scope, name>>

ReachLimiter(r) ==
  /\ admitted[r] # None
  /\ Arrive(r) /\ key'[r] = KeyOf(sent[r].scope, sent[r].user)
  /\ admitted' = [admitted EXCEPT ![r] = None]
  /\ UNCHANGED <<account, changes, logins, user, tokens, sent, lastEntitled>>

PassLimiter(r) ==
  /\ Check(r)
  /\ UNCHANGED gateVars

-----------------------------------------------------------------------------
NoteEntitled ==
  lastEntitled' = [u \in Users |-> IF MayRun(account'[u]) THEN now' ELSE lastEntitled[u]]

ChangeAccount ==
  /\ changes < MaxChanges
  /\ changes' = changes + 1
  /\ \E u \in Users, role \in AccountRoles \cup {None} :
       account' = [account EXCEPT ![u] = role]
  /\ UNCHANGED <<vars, logins, user, tokens, sent, admitted>>
  /\ NoteEntitled

GateTick ==
  /\ Tick
  /\ \A l \in Logins : logins[l] = "comparing" => now < user[l].read + MaxDelay
  /\ \A r \in Requests : admitted[r] # None => now < admitted[r] + MaxDelay
  /\ UNCHANGED <<account, changes, logins, user, tokens, sent, admitted>>
  /\ NoteEntitled

\* No login and no request is under way: the server waits.
Resting ==
  /\ now = MaxTime
  /\ Active = {}
  /\ UNCHANGED allVars

GateNext ==
  \/ \E r \in Requests : Authenticate(r) \/ ReachLimiter(r) \/ PassLimiter(r)
  \/ \E l \in Logins : ReadAccount(l) \/ Login(l)
  \/ ChangeAccount \/ GateTick \/ Resting

GateSpec == GateInit /\ [][GateNext]_allVars

-----------------------------------------------------------------------------
(* Safety.                                                                 *)

\* Whoever reaches the limiter could run evaluations less than the life of a token ago, and
\* the time a login and a request may wait, though neither his role nor his account is
\* looked at again: a role that is withdrawn or an account that is closed is of no use for
\* longer than that (Login, RequireAuth, RequirePermission).
EntitledNotLongAgo ==
  \A r \in Requests : outcome[r] # "new" =>
    /\ lastEntitled[sent[r].user] # None
    /\ stamp[r] < lastEntitled[sent[r].user] + Expiry + 2 * MaxDelay

\* A user's request is turned away by the limiter only if as many of the same user on the
\* same route were let in less than a minute before: runs do not use up the limit of
\* replays though both share a limiter, nor one user that of another, nor a call that is
\* refused for its token or its role anybody's (Middleware, and the order in which the
\* routes name the middlewares).
OnlyOwnCallsCount ==
  \A r \in Requests : outcome[r] = "limited" =>
    Cardinality({q \in Requests :
      /\ outcome[q] = "allowed" /\ sent[q] = sent[r]
      /\ at[q] <= at[r] /\ stamp[r] < at[q] + Minute}) >= limit
=============================================================================
