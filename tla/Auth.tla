-------------------------------- MODULE Auth --------------------------------
(***************************************************************************)
(* Who is let in: accounts and their not_before (src/src/v1/db/db_auth.rs, *)
(* src/src/v1/user/src.rs), signed tokens, the check that every request    *)
(* passes, logout_all, and the web sockets that live on what was checked   *)
(* at their handshake (src/src/v1/auth.rs, src/src/v1/socket.rs).          *)
(*                                                                         *)
(* Time is whole seconds, as in get_secs.  Passwords and the rules for     *)
(* names are left out: a call that is refused changes nothing, and of the  *)
(* rules only that "public" is nobody's name matters here.  Stop and start *)
(* are one step; what a crash does to the files is in Persistence.         *)
(***************************************************************************)
EXTENDS Naturals

CONSTANTS Users,
          Public,     \* whom a request without a valid token acts for
          Absent,     \* for a name without an account
          Tokens,     \* bound: every one of them is issued at most once
          NoToken,
          Conns,      \* bound: requests and sockets at a time
          Week,       \* seconds from a token's issue to its expiration
          MaxTime,    \* bound on the clock
          MaxBacks,   \* bound: how often the clock is set back
          MaxRuns     \* bound: how often the server is started

Times == 0..MaxTime
Runs  == 1..MaxRuns

ASSUME AuthAssumption ==
  /\ Public \notin Users
  /\ Absent \notin Times
  /\ NoToken \notin Tokens
  /\ Week \in Nat /\ MaxTime \in Nat /\ MaxBacks \in Nat
  /\ MaxRuns \in Nat \ {0}

VARIABLES
  now, backs,
  run,        \* the process: each makes a key pair of its own
  notBefore,  \* user -> not_before of the account, or Absent
  saved,      \* notBefore in the store's file
  token,      \* token -> what it says, and what became of it since (history)
  ahead,      \* tokens that were to be ended by a clock set back behind their
              \* iat (history)
  conn,       \* connection -> how far the request is, for whom it acts
  late,       \* sockets whose token was logged out when they subscribed (history)
  due,        \* sockets for which a message waits that closes them
  poisoned    \* did a request panic under the write guard of the DB?

clock    == <<now, backs>>
accounts == <<run, notBefore, saved>>
tokens   == <<token, ahead>>
conns    == <<conn, late, due>>
vars     == <<clock, accounts, tokens, conns, poisoned>>

\* fate: "reset" or "logout" if these meant to end it, "lost" if its account
\* was lost in a restart.
Blank  == [user |-> Public, iat |-> 0, key |-> 0, fate |-> "none"]
Issued == [user : Users, iat : Times, key : Runs,
           fate : {"good", "reset", "logout", "lost"}]

Idle == [at |-> "idle", user |-> Public, tok |-> NoToken]
Busy == [at : {"checked", "telling", "open"}, user : Users \union {Public},
         tok : Tokens \union {NoToken}]

TypeOK ==
  /\ now \in Times /\ backs \in 0..MaxBacks /\ run \in Runs
  /\ notBefore \in [Users -> Times \union {Absent}]
  /\ saved \in [Users -> Times \union {Absent}]
  /\ token \in [Tokens -> Issued \union {Blank}]
  /\ ahead \subseteq Tokens
  /\ conn \in [Conns -> Busy \union {Idle}]
  /\ late \subseteq Conns /\ due \subseteq Conns
  /\ \A c \in Conns :
       /\ c \in late \union due => conn[c].at = "open"
       /\ conn[c].at = "telling" => conn[c].user # Public
       /\ conn[c].user # Public => token[conn[c].tok].user = conn[c].user
  /\ poisoned \in BOOLEAN

Init ==
  /\ now = 0 /\ backs = 0 /\ run = 1
  /\ notBefore = [u \in Users |-> Absent]
  /\ saved = notBefore
  /\ token = [k \in Tokens |-> Blank]
  /\ ahead = {}
  /\ conn = [c \in Conns |-> Idle]
  /\ late = {} /\ due = {}
  /\ poisoned = FALSE

-----------------------------------------------------------------------------
(* Accounts *)

HasAccount(u) == u \in Users /\ notBefore[u] # Absent

\* DBAuth::new_user.
Register(u) ==
  /\ ~poisoned
  /\ ~HasAccount(u)
  /\ notBefore' = [notBefore EXCEPT ![u] = now]
  /\ UNCHANGED <<clock, run, saved, tokens, conns, poisoned>>

\* Mutant of MayLogin: only the password is verified.
MayLoginAnyTime(u) == HasAccount(u)

\* User::verify: the clock has not been set back behind not_before.
MayLogin(u) == HasAccount(u) /\ now >= notBefore[u]

Login(u, k) ==
  /\ ~poisoned
  /\ MayLogin(u)
  /\ token[k] = Blank
  /\ token' = [token EXCEPT ![k] =
       [user |-> u, iat |-> now, key |-> run, fate |-> "good"]]
  /\ UNCHANGED <<clock, accounts, ahead, conns, poisoned>>

\* reset_not_before, and what that means to the user's tokens.
Revoke(u, why) ==
  /\ notBefore' = [notBefore EXCEPT ![u] = now]
  /\ token' = [k \in Tokens |->
       IF token[k].user # u \/ token[k].fate = "lost" THEN token[k]
       ELSE [token[k] EXCEPT !.fate = IF @ = "logout" THEN @ ELSE why]]
  /\ ahead' = ahead \union {k \in Tokens : token[k].user = u /\ now < token[k].iat}

\* User::reset_pass by one who knows the old password, for which the clock does
\* not matter.  No socket is told.
Reset(u) ==
  /\ ~poisoned
  /\ HasAccount(u)
  /\ Revoke(u, "reset")
  /\ UNCHANGED <<clock, run, saved, conns, poisoned>>

-----------------------------------------------------------------------------
(* Requests *)

\* get_valid_token: signed with this process's key, and current.
Verified(k) ==
  /\ token[k] # Blank
  /\ token[k].key = run
  /\ token[k].iat <= now /\ now < token[k].iat + Week

\* Mutant of Passes: what the token claims is taken from it unverified.
PassesUnverified(k) == token[k] # Blank

\* authenticate: the account is there, and the token is not from before its
\* not_before.
Passes(k) ==
  /\ Verified(k)
  /\ HasAccount(token[k].user)
  /\ token[k].iat >= notBefore[token[k].user]

\* Connection c gets on, or is over.
Goes(c, new) == conn' = [conn EXCEPT ![c] = new] /\ UNCHANGED <<late, due>>

Ends(c) ==
  /\ conn' = [conn EXCEPT ![c] = Idle]
  /\ late' = late \ {c}
  /\ due' = due \ {c}

\* A request that brings token k passes authenticate.  With a verified token the
\* DB is read, and the request panics if that is poisoned.
Authenticate(c, k) ==
  /\ conn[c] = Idle
  /\ Passes(k)
  /\ ~poisoned
  /\ Goes(c, [at |-> "checked", user |-> token[k].user, tok |-> k])
  /\ UNCHANGED <<clock, accounts, tokens, poisoned>>

\* A request without a token, or with one that does not pass.
PassPublic(c) ==
  /\ conn[c] = Idle
  /\ Goes(c, [at |-> "checked", user |-> Public, tok |-> NoToken])
  /\ UNCHANGED <<clock, accounts, tokens, poisoned>>

LoggedOut(k) == k # NoToken /\ token[k].fate = "logout"

\* websocket_handler and the start of handle_socket, in a task of its own.
Open(c) ==
  /\ conn[c].at = "checked"
  /\ conn' = [conn EXCEPT ![c].at = "open"]
  /\ late' = IF LoggedOut(conn[c].tok) THEN late \union {c} ELSE late
  /\ UNCHANGED <<clock, accounts, tokens, due, poisoned>>

\* logout_all, under the write guard.
LogoutAll(c) ==
  /\ conn[c].at = "checked"
  /\ ~poisoned
  /\ HasAccount(conn[c].user)
  /\ Revoke(conn[c].user, "logout")
  /\ Goes(c, [conn[c] EXCEPT !.at = "telling"])
  /\ UNCHANGED <<clock, run, saved, poisoned>>

\* users.get(..).unwrap() of logout_all, under the write guard.
LogoutPanics(c) ==
  /\ conn[c].at = "checked"
  /\ ~poisoned
  /\ ~HasAccount(conn[c].user)
  /\ poisoned' = TRUE
  /\ Ends(c)
  /\ UNCHANGED <<clock, accounts, tokens>>

\* Mutant of Told: only the sockets of the token that asked for it.
ToldOfToken(c) == {s \in Conns : conn[s].at = "open" /\ conn[s].tok = conn[c].tok}

\* Mutant of Told: requests of the user that are no sockets yet as well.
ToldAll(c) == {s \in Conns \ {c} : conn[s].user = conn[c].user}

\* The sockets that receive the message of c's logout and close for it.
Told(c) == {s \in Conns : conn[s].at = "open" /\ conn[s].user = conn[c].user}

\* logout_all, after the guard was dropped.
LogoutTells(c) ==
  /\ conn[c].at = "telling"
  /\ due' = due \union Told(c)
  /\ conn' = [conn EXCEPT ![c] = Idle]
  /\ UNCHANGED <<clock, accounts, tokens, late, poisoned>>

\* handle_resource sees the message, and the loop of the socket ends.
Close(c) ==
  /\ c \in due
  /\ Ends(c)
  /\ UNCHANGED <<clock, accounts, tokens, poisoned>>

\* Any other request is done, or the client goes away.
Leave(c) ==
  /\ conn[c].at \in {"checked", "open"}
  /\ Ends(c)
  /\ UNCHANGED <<clock, accounts, tokens, poisoned>>

-----------------------------------------------------------------------------
(* The process and its clock *)

\* Mutant of NewRun: the key pair is kept somewhere.
NewRunSameKey == run

\* KP is generated when it is first used.
NewRun == run + 1

\* A start with the accounts of the file, or with none if it cannot be read.
Starts(file) ==
  /\ run < MaxRuns
  /\ run' = NewRun
  /\ \E users \in {file, [u \in Users |-> Absent]} :
       /\ notBefore' = users
       /\ token' = [k \in Tokens |->
            IF token[k] # Blank /\ users[token[k].user] = Absent
            THEN [token[k] EXCEPT !.fate = "lost"] ELSE token[k]]
  /\ saved' = file
  /\ conn' = [c \in Conns |-> Idle]
  /\ late' = {} /\ due' = {}
  /\ poisoned' = FALSE
  /\ UNCHANGED <<clock, ahead>>

\* The server waits for its requests, not for the sockets; a poisoned DB cannot
\* be saved.
Restart ==
  /\ \A c \in Conns : conn[c].at \in {"idle", "open"}
  /\ Starts(IF poisoned THEN saved ELSE notBefore)

Crash == Starts(saved)

Tick ==
  /\ now < MaxTime
  /\ now' = now + 1
  /\ UNCHANGED <<backs, accounts, tokens, conns, poisoned>>

SetBack ==
  /\ backs < MaxBacks
  /\ backs' = backs + 1
  /\ now' \in {t \in Times : t < now}
  /\ UNCHANGED <<accounts, tokens, conns, poisoned>>

Next ==
  \/ \E u \in Users : Register(u) \/ Reset(u) \/ \E k \in Tokens : Login(u, k)
  \/ \E c \in Conns :
       \/ \E k \in Tokens : Authenticate(c, k)
       \/ PassPublic(c) \/ Open(c) \/ LogoutAll(c) \/ LogoutPanics(c)
       \/ LogoutTells(c) \/ Close(c) \/ Leave(c)
  \/ Restart \/ Crash \/ Tick \/ SetBack

\* A handler that has invalidated the tokens goes on to send its message: there
\* is no await between.  A socket whose client takes what it is sent comes to
\* the messages that wait for it.
Spec == /\ Init /\ [][Next]_vars
        /\ \A c \in Conns : WF_vars(LogoutTells(c)) /\ WF_vars(Close(c))

-----------------------------------------------------------------------------
(* Properties *)

Revoked(k) == token[k].fate \in {"reset", "logout", "lost"}

\* A token that a reset or a logout was to end does not pass authenticate any
\* more, through crashes that bring the old not_before back and restarts: but
\* for one issued in the very second of not_before, or one from the future of a
\* clock that was set back.  That of an account which was lost never passes,
\* whoever takes the name.
RevokedStayOut ==
  \A k \in Tokens : Revoked(k) /\ Passes(k) =>
    /\ token[k].fate # "lost"
    /\ token[k].iat = notBefore[token[k].user] \/ k \in ahead

\* No one is locked out with a token of this process that is current and that
\* nothing has revoked, not even after the clock was set back.
FreshTokensPass ==
  \A k \in Tokens : token[k].fate = "good" /\ Verified(k) => Passes(k)

OpenFor(c, u) == conn[c].at = "open" /\ conn[c].user = u

\* A socket that survives the logout of its token has subscribed after the
\* tokens were invalidated, on a check made before; all others are told.
SurvivorsCameLate ==
  \A c \in Conns : conn[c].at = "open" /\ LoggedOut(conn[c].tok) =>
    \/ c \in late \union due
    \/ \E d \in Conns : conn[d].at = "telling" /\ conn[d].user = conn[c].user

\* The unwrap of logout_all, which poisons the DB, fails for the public only:
\* the account that a request was let in for is there when it acts.
LogoutUnwrapSafe ==
  [][\A c \in Conns : LogoutPanics(c) => conn[c].user = Public]_vars

\* Sockets of the user that are open between the two steps of logout_all close.
LogoutReaches ==
  \A c, d \in Conns, u \in Users :
    OpenFor(c, u) /\ conn[d].at = "telling" /\ conn[d].user = u ~> ~OpenFor(c, u)

=============================================================================
