------------------------------ MODULE AuthProofs ------------------------------
(***************************************************************************)
(* What holds of Auth for any number of users, tokens and connections, any *)
(* validity of tokens and every bound on clock and starts.                 *)
(*                                                                         *)
(* The inductive invariant Inv says of a token of the running process that *)
(* its account is there, and how its iat and not_before lie to each other  *)
(* (Kept); and of a connection that the account it was let in for is there *)
(* as long as it lives (Held).                                             *)
(***************************************************************************)
EXTENDS Auth, TLAPS

KeptFor(k) ==
  /\ token[k].key <= run
  /\ token[k].key = run =>
       /\ token[k].fate # "lost"
       /\ notBefore[token[k].user] # Absent
       /\ token[k].fate = "good" => token[k].iat >= notBefore[token[k].user]
       /\ token[k].fate # "good" =>
            token[k].iat <= notBefore[token[k].user] \/ k \in ahead

Kept == \A k \in Tokens : token[k] # Blank => KeptFor(k)

Held ==
  \A c \in Conns :
    /\ conn[c].user = Public => conn[c].tok = NoToken
    /\ conn[c].user # Public =>
         conn[c].tok \in Tokens /\ notBefore[conn[c].user] # Absent

Inv == TypeOK /\ Kept /\ Held /\ SurvivorsCameLate

USE AuthAssumption DEF Times, Runs

-----------------------------------------------------------------------------
(* Tokens and connections *)

LEMMA BlankToken ==
  /\ Blank \notin Issued
  /\ Blank.user = Public
  /\ Blank.fate = "none"
  BY DEF Blank, Issued

LEMMA IdleConn ==
  /\ Idle \notin Busy
  /\ Idle.at = "idle" /\ Idle.user = Public /\ Idle.tok = NoToken
  BY DEF Idle, Busy

\* What the types say of one token that was issued.
LEMMA TokenType ==
  ASSUME TypeOK, NEW k \in Tokens, token[k] # Blank
  PROVE  /\ token[k] \in Issued
         /\ token[k].user \in Users
         /\ token[k].iat \in Nat
         /\ token[k].key \in Nat
         /\ token[k].fate \in {"good", "reset", "logout", "lost"}
<1>1. token[k] \in Issued
  BY DEF TypeOK
<1> QED
  BY <1>1 DEF Issued

\* ... and of one connection.
LEMMA ConnType ==
  ASSUME TypeOK, NEW c \in Conns
  PROVE  /\ conn[c] \in Busy \union {Idle}
         /\ conn[c].at \in {"idle", "checked", "telling", "open"}
         /\ conn[c].user \in Users \union {Public}
         /\ conn[c].at # "idle" => conn[c] \in Busy
<1>1. conn[c] \in Busy \union {Idle}
  BY DEF TypeOK
<1> QED
  BY <1>1, IdleConn DEF Busy

LEMMA InitInv == Init => Inv
<1> SUFFICES ASSUME Init PROVE Inv
  OBVIOUS
<1>1. TypeOK
  <2>1. now \in Times /\ backs \in 0..MaxBacks /\ run \in Runs
    BY DEF Init
  <2>4. poisoned \in BOOLEAN
    BY Zenon DEF Init
  <2>2. /\ notBefore \in [Users -> Times \union {Absent}]
        /\ saved \in [Users -> Times \union {Absent}]
        /\ token \in [Tokens -> Issued \union {Blank}]
        /\ conn \in [Conns -> Busy \union {Idle}]
    BY DEF Init
  <2>3. \A c \in Conns : conn[c] = Idle
    BY DEF Init
  <2> QED
    BY <2>1, <2>2, <2>3, <2>4, IdleConn DEF Init, TypeOK
<1>2. Kept
  BY DEF Init, Kept
<1>3. Held
  BY IdleConn DEF Init, Held
<1>4. SurvivorsCameLate
  BY IdleConn DEF Init, SurvivorsCameLate
<1> QED
  BY <1>1, <1>2, <1>3, <1>4 DEF Inv

-----------------------------------------------------------------------------
(* Accounts *)

LEMMA RegisterKeeps ==
  ASSUME Inv, NEW u \in Users, Register(u)
  PROVE  Inv'
<1> USE DEF Inv
<1>1. /\ notBefore[u] = Absent
      /\ notBefore' = [notBefore EXCEPT ![u] = now]
      /\ UNCHANGED <<now, backs, run, saved, token, ahead, conn, late, due, poisoned>>
  BY DEF Register, HasAccount, clock, tokens, conns
<1>2. TypeOK'
  BY <1>1 DEF TypeOK
<1>3. \A v \in Users : notBefore[v] # Absent => notBefore'[v] = notBefore[v]
  BY <1>1 DEF TypeOK
<1>4. Kept'
  BY <1>1, <1>3, TokenType DEF Kept, KeptFor
<1>5. Held'
  <2>1. now # Absent
    BY DEF TypeOK
  <2> QED
    BY <1>1, <1>3, ConnType DEF Held
<1>6. SurvivorsCameLate'
  BY <1>1 DEF SurvivorsCameLate, LoggedOut
<1> QED
  BY <1>2, <1>4, <1>5, <1>6

LEMMA LoginKeeps ==
  ASSUME Inv, NEW u \in Users, NEW k \in Tokens, Login(u, k)
  PROVE  Inv'
<1> USE DEF Inv
<1> DEFINE new == [user |-> u, iat |-> now, key |-> run, fate |-> "good"]
<1>1. /\ notBefore[u] # Absent
      /\ now >= notBefore[u]
      /\ token[k] = Blank
      /\ token' = [token EXCEPT ![k] = new]
      /\ UNCHANGED <<now, backs, run, notBefore, saved, ahead, conn, late, due, poisoned>>
  BY DEF Login, MayLogin, HasAccount, clock, accounts, conns
<1>2. new \in Issued
  BY DEF TypeOK, Issued
\* No connection acts with a token that was not issued.
<1>3. \A c \in Conns : conn[c].tok # k
  BY <1>1, BlankToken, ConnType DEF TypeOK, Held
<1>4. TypeOK'
  <2>1. token' \in [Tokens -> Issued \union {Blank}]
    BY <1>1, <1>2 DEF TypeOK
  <2>2. \A c \in Conns : conn[c].user # Public => token'[conn[c].tok] = token[conn[c].tok]
    BY <1>1, <1>3 DEF TypeOK, Held
  <2> QED
    BY <1>1, <2>1, <2>2 DEF TypeOK
<1>5. Kept'
  <2> SUFFICES ASSUME NEW j \in Tokens, token'[j] # Blank PROVE KeptFor(j)'
    BY DEF Kept
  <2>1. CASE j = k
    BY <1>1, <2>1 DEF Kept, KeptFor, TypeOK
  <2>2. CASE j # k
    BY <1>1, <2>2 DEF Kept, KeptFor, TypeOK
  <2> QED
    BY <2>1, <2>2
<1>6. Held'
  BY <1>1 DEF Held
<1>7. SurvivorsCameLate'
  <2>1. \A c \in Conns : LoggedOut(conn[c].tok)' => LoggedOut(conn[c].tok)
    BY <1>1, <1>3, ConnType DEF LoggedOut, TypeOK, Held
  <2> QED
    BY <1>1, <2>1 DEF SurvivorsCameLate
<1> QED
  BY <1>4, <1>5, <1>6, <1>7

\* reset_not_before keeps what is known of the tokens: those of the user are
\* from before the new not_before, or were ahead of the clock.
LEMMA RevokeKeeps ==
  ASSUME TypeOK, Kept, NEW u \in Users, NEW why \in {"reset", "logout"},
         notBefore[u] # Absent, Revoke(u, why), UNCHANGED <<now, run>>
  PROVE  /\ notBefore' \in [Users -> Times \union {Absent}]
         /\ token' \in [Tokens -> Issued \union {Blank}]
         /\ ahead' \subseteq Tokens
         /\ \A k \in Tokens : token'[k].user = token[k].user
         /\ \A v \in Users : notBefore[v] # Absent => notBefore'[v] # Absent
         /\ \A k \in Tokens : token[k].user # u => token'[k] = token[k]
         /\ \A k \in Tokens : token[k].fate = "logout" => token'[k].fate = "logout"
         /\ Kept'
<1>1. /\ notBefore' = [notBefore EXCEPT ![u] = now]
      /\ ahead' = ahead \union {k \in Tokens : token[k].user = u /\ now < token[k].iat}
  BY DEF Revoke
<1>2. \A k \in Tokens :
        token'[k] = IF token[k].user # u \/ token[k].fate = "lost" THEN token[k]
                    ELSE [token[k] EXCEPT !.fate = IF @ = "logout" THEN @ ELSE why]
  BY DEF Revoke
<1>3. now \in Nat /\ now \in Times
  BY DEF TypeOK
<1>4. \A k \in Tokens : token[k] = Blank => token'[k] = Blank
  BY <1>2, BlankToken
<1>5. ASSUME NEW k \in Tokens, token[k] # Blank
      PROVE  /\ token'[k] \in Issued
             /\ token'[k].user = token[k].user
             /\ token'[k].iat = token[k].iat
             /\ token'[k].key = token[k].key
             /\ token[k].fate = "logout" => token'[k].fate = "logout"
             /\ token[k].user # u \/ token[k].fate = "lost" => token'[k] = token[k]
             /\ token[k].user = u /\ token[k].fate # "lost" =>
                  token'[k].fate \in {"reset", "logout"}
  <2>1. token[k] \in Issued
    BY <1>5, TokenType
  <2>2. CASE token[k].user # u \/ token[k].fate = "lost"
    BY <1>2, <2>1, <2>2
  <2>3. CASE token[k].user = u /\ token[k].fate # "lost"
    BY <1>2, <2>1, <2>3 DEF Issued
  <2> QED
    BY <2>2, <2>3
<1>6. notBefore' \in [Users -> Times \union {Absent}]
  BY <1>1, <1>3 DEF TypeOK
<1>7. token' \in [Tokens -> Issued \union {Blank}]
  <2>1. token' = [k \in Tokens |-> token'[k]]
    BY DEF Revoke
  <2> QED
    BY <1>4, <1>5, <2>1
<1>8. \A v \in Users : notBefore[v] # Absent => notBefore'[v] # Absent
  BY <1>1, <1>3 DEF TypeOK
<1>9. Kept'
  <2> SUFFICES ASSUME NEW k \in Tokens, token'[k] # Blank PROVE KeptFor(k)'
    BY DEF Kept
  <2>1. token[k] # Blank /\ token[k].iat \in Nat
    BY <1>4, TokenType
  <2>2. CASE token[k].user = u
    <3>1. notBefore'[token'[k].user] = now /\ now # Absent
      BY <1>1, <1>3, <1>5, <2>1, <2>2 DEF TypeOK
    <3>2. token'[k].iat <= now \/ k \in ahead'
      BY <1>1, <1>3, <1>5, <2>1, <2>2
    <3> QED
      BY <1>5, <2>1, <2>2, <3>1, <3>2 DEF Kept, KeptFor
  <2>3. CASE token[k].user # u
    <3>1. token[k].user \in Users /\ notBefore'[token[k].user] = notBefore[token[k].user]
      BY <1>1, <2>1, <2>3, TokenType DEF TypeOK
    <3> QED
      BY <1>1, <1>5, <2>1, <2>3, <3>1 DEF Kept, KeptFor
  <2> QED
    BY <2>2, <2>3
<1>10. \A k \in Tokens : /\ token'[k].user = token[k].user
                         /\ token[k].user # u => token'[k] = token[k]
                         /\ token[k].fate = "logout" => token'[k].fate = "logout"
  BY <1>4, <1>5
<1>11. ahead' \subseteq Tokens
  BY <1>1 DEF TypeOK
<1> QED
  BY <1>6, <1>7, <1>8, <1>9, <1>10, <1>11

LEMMA ResetKeeps ==
  ASSUME Inv, NEW u \in Users, Reset(u)
  PROVE  Inv'
<1> USE DEF Inv
<1>1. /\ notBefore[u] # Absent /\ Revoke(u, "reset")
      /\ UNCHANGED <<now, backs, run, saved, conn, late, due, poisoned>>
  BY DEF Reset, HasAccount, clock, conns
<1>2. /\ notBefore' \in [Users -> Times \union {Absent}]
      /\ token' \in [Tokens -> Issued \union {Blank}]
      /\ ahead' \subseteq Tokens
      /\ \A k \in Tokens : token'[k].user = token[k].user
      /\ \A v \in Users : notBefore[v] # Absent => notBefore'[v] # Absent
      /\ Kept'
  BY <1>1, RevokeKeeps
<1>3. TypeOK'
  BY <1>1, <1>2 DEF TypeOK, Held
<1>4. Held'
  BY <1>1, <1>2, ConnType DEF Held
\* Nothing is logged out by a reset.
<1>5. \A k \in Tokens : token'[k].fate = "logout" => token[k].fate = "logout"
  <2> SUFFICES ASSUME NEW k \in Tokens, token'[k].fate = "logout"
               PROVE  token[k].fate = "logout"
    OBVIOUS
  <2>1. CASE token[k] = Blank
    BY <1>1, <2>1, BlankToken DEF Revoke
  <2>2. CASE token[k] # Blank
    BY <1>1, <2>2, TokenType DEF Revoke, Issued
  <2> QED
    BY <2>1, <2>2
<1>6. SurvivorsCameLate'
  <2>1. \A c \in Conns : LoggedOut(conn[c].tok)' => LoggedOut(conn[c].tok)
    BY <1>1, <1>5, ConnType DEF LoggedOut, Held
  <2> QED
    BY <1>1, <2>1 DEF SurvivorsCameLate
<1> QED
  BY <1>2, <1>3, <1>4, <1>6

-----------------------------------------------------------------------------
(* Requests *)

\* A step of one connection that leaves accounts and tokens alone keeps what is
\* known of the tokens.
LEMMA KeptStays ==
  ASSUME Kept, UNCHANGED <<run, notBefore, token, ahead>>
  PROVE  Kept'
  BY DEF Kept, KeptFor

\* ... and keeps the types, and what is known of the others, if the connection
\* is well-formed after it.
LEMMA ConnKeeps ==
  ASSUME TypeOK, Held, NEW c \in Conns, NEW new \in Busy \union {Idle},
         UNCHANGED <<now, backs, run, notBefore, saved, token, ahead>>,
         poisoned' \in BOOLEAN,
         conn' = [conn EXCEPT ![c] = new],
         late' \subseteq late \union {c}, due' \subseteq Conns,
         \A d \in late' \union due' : conn'[d].at = "open",
         new.at = "telling" => new.user # Public,
         new.user = Public => new.tok = NoToken,
         new.user # Public => /\ new.tok \in Tokens
                              /\ token[new.tok].user = new.user
                              /\ notBefore[new.user] # Absent
  PROVE  TypeOK' /\ Held'
<1>1. conn' \in [Conns -> Busy \union {Idle}]
  BY DEF TypeOK
<1>2. \A d \in Conns : conn'[d] = IF d = c THEN new ELSE conn[d]
  BY DEF TypeOK
<1>3. Held'
  BY <1>2 DEF Held
<1>4. late' \subseteq Conns
  BY DEF TypeOK
<1>5. \A d \in Conns : /\ conn'[d].at = "telling" => conn'[d].user # Public
                       /\ conn'[d].user # Public => token'[conn'[d].tok].user = conn'[d].user
  BY <1>2 DEF TypeOK
<1> QED
  BY <1>1, <1>3, <1>4, <1>5 DEF TypeOK

LEMMA AuthenticateKeeps ==
  ASSUME Inv, NEW c \in Conns, NEW k \in Tokens, Authenticate(c, k)
  PROVE  Inv'
<1> USE DEF Inv
<1> DEFINE new == [at |-> "checked", user |-> token[k].user, tok |-> k]
<1>1. /\ conn[c] = Idle /\ token[k] # Blank /\ notBefore[token[k].user] # Absent
      /\ conn' = [conn EXCEPT ![c] = new]
      /\ UNCHANGED <<now, backs, run, notBefore, saved, token, ahead, late, due, poisoned>>
  BY DEF Authenticate, Passes, Verified, HasAccount, Goes, clock, accounts, tokens
<1>2. token[k].user \in Users
  BY <1>1, TokenType
<1>3. new \in Busy /\ new.user # Public /\ new.at = "checked" /\ new.tok = k
  BY <1>2 DEF Busy
<1>4. c \notin late \union due
  BY <1>1, IdleConn DEF TypeOK
<1>5. \A d \in Conns : d # c => conn'[d] = conn[d]
  BY <1>1 DEF TypeOK
<1> HIDE DEF new
<1>6. \A d \in late' \union due' : conn'[d].at = "open"
  BY <1>1, <1>4, <1>5 DEF TypeOK
<1>7. late' \subseteq late \union {c} /\ due' \subseteq Conns /\ poisoned' \in BOOLEAN
  BY <1>1 DEF TypeOK
<1>8. TypeOK' /\ Held'
  BY <1>1, <1>3, <1>6, <1>7, ConnKeeps DEF new
<1>9. SurvivorsCameLate'
  <2>1. conn'[c].at = "checked" /\ conn[c].at = "idle"
    BY <1>1, <1>3, IdleConn DEF TypeOK
  <2> QED
    BY <1>1, <1>5, <2>1 DEF SurvivorsCameLate, LoggedOut
<1> QED
  BY <1>1, <1>8, <1>9, KeptStays

LEMMA PassPublicKeeps ==
  ASSUME Inv, NEW c \in Conns, PassPublic(c)
  PROVE  Inv'
<1> USE DEF Inv
<1> DEFINE new == [at |-> "checked", user |-> Public, tok |-> NoToken]
<1>1. /\ conn[c] = Idle
      /\ conn' = [conn EXCEPT ![c] = new]
      /\ UNCHANGED <<now, backs, run, notBefore, saved, token, ahead, late, due, poisoned>>
  BY DEF PassPublic, Goes, clock, accounts, tokens
<1>2. new \in Busy /\ new.user = Public /\ new.at = "checked" /\ new.tok = NoToken
  BY DEF Busy
<1>3. c \notin late \union due
  BY <1>1, IdleConn DEF TypeOK
<1>4. \A d \in Conns : d # c => conn'[d] = conn[d]
  BY <1>1 DEF TypeOK
<1> HIDE DEF new
<1>5. \A d \in late' \union due' : conn'[d].at = "open"
  BY <1>1, <1>3, <1>4 DEF TypeOK
<1>6. late' \subseteq late \union {c} /\ due' \subseteq Conns /\ poisoned' \in BOOLEAN
  BY <1>1 DEF TypeOK
<1>7. TypeOK' /\ Held'
  BY <1>1, <1>2, <1>5, <1>6, ConnKeeps
<1>8. SurvivorsCameLate'
  <2>1. conn'[c].at = "checked" /\ conn[c].at = "idle"
    BY <1>1, <1>2, IdleConn DEF TypeOK
  <2> QED
    BY <1>1, <1>4, <2>1 DEF SurvivorsCameLate, LoggedOut
<1> QED
  BY <1>1, <1>7, <1>8, KeptStays

\* A socket that subscribes is late if its token is logged out by then.
LEMMA OpenKeeps ==
  ASSUME Inv, NEW c \in Conns, Open(c)
  PROVE  Inv'
<1> USE DEF Inv
<1> DEFINE new == [conn[c] EXCEPT !.at = "open"]
<1>1. /\ conn[c].at = "checked"
      /\ conn' = [conn EXCEPT ![c] = new]
      /\ late' = IF LoggedOut(conn[c].tok) THEN late \union {c} ELSE late
      /\ UNCHANGED <<now, backs, run, notBefore, saved, token, ahead, due, poisoned>>
  BY DEF Open, clock, accounts, tokens
<1>2. /\ new \in Busy /\ new.at = "open"
      /\ new.user = conn[c].user /\ new.tok = conn[c].tok
  BY <1>1, ConnType DEF Busy
<1>3. \A d \in Conns : d # c => conn'[d] = conn[d]
  BY <1>1 DEF TypeOK
<1>4. conn'[c] = new
  BY <1>1 DEF TypeOK
<1> HIDE DEF new
<1>5. \A d \in late' \union due' : conn'[d].at = "open"
  BY <1>1, <1>2, <1>3, <1>4 DEF TypeOK
<1>6. late' \subseteq late \union {c} /\ due' \subseteq Conns /\ poisoned' \in BOOLEAN
  BY <1>1 DEF TypeOK
<1>7. /\ new.user = Public => new.tok = NoToken
      /\ new.user # Public => /\ new.tok \in Tokens
                              /\ token[new.tok].user = new.user
                              /\ notBefore[new.user] # Absent
  BY <1>2 DEF TypeOK, Held
<1>8. TypeOK' /\ Held'
  BY <1>1, <1>2, <1>5, <1>6, <1>7, ConnKeeps
<1>9. SurvivorsCameLate'
  <2> SUFFICES ASSUME NEW d \in Conns, conn'[d].at = "open", LoggedOut(conn[d].tok)'
               PROVE  \/ d \in late' \union due'
                      \/ \E e \in Conns : conn'[e].at = "telling" /\ conn'[e].user = conn'[d].user
    BY DEF SurvivorsCameLate
  <2>1. \A t \in Tokens \union {NoToken} : LoggedOut(t)' = LoggedOut(t)
    BY <1>1 DEF LoggedOut
  <2>2. CASE d = c
    BY <1>1, <1>2, <1>4, <2>2 DEF LoggedOut
  <2>3. CASE d # c
    <3>1. conn[d].at = "open" /\ LoggedOut(conn[d].tok)
      BY <1>1, <1>3, <2>3 DEF LoggedOut
    <3>2. CASE d \in late \union due
      BY <1>1, <3>2
    <3>3. CASE \E e \in Conns : conn[e].at = "telling" /\ conn[e].user = conn[d].user
      BY <1>1, <1>3, <2>3, <3>3
    <3> QED
      BY <3>1, <3>2, <3>3 DEF SurvivorsCameLate
  <2> QED
    BY <2>2, <2>3
<1> QED
  BY <1>1, <1>8, <1>9, KeptStays

\* A connection that ends, and was not about to tell of a logout.
LEMMA EndsKeeps ==
  ASSUME Inv, NEW c \in Conns, Ends(c), conn[c].at # "telling",
         UNCHANGED <<now, backs, run, notBefore, saved, token, ahead>>,
         poisoned' \in BOOLEAN
  PROVE  Inv'
<1> USE DEF Inv
<1>1. /\ conn' = [conn EXCEPT ![c] = Idle]
      /\ late' = late \ {c} /\ due' = due \ {c}
  BY DEF Ends
<1>2. \A d \in Conns : conn'[d] = IF d = c THEN Idle ELSE conn[d]
  BY <1>1 DEF TypeOK
<1>3. \A d \in late' \union due' : conn'[d].at = "open"
  BY <1>1, <1>2 DEF TypeOK
<1>4. late' \subseteq late \union {c} /\ due' \subseteq Conns
  BY <1>1 DEF TypeOK
<1>5. TypeOK' /\ Held'
  BY <1>1, <1>3, <1>4, IdleConn, ConnKeeps
<1>6. SurvivorsCameLate'
  BY <1>1, <1>2, IdleConn DEF SurvivorsCameLate, LoggedOut
<1> QED
  BY <1>5, <1>6, KeptStays

LEMMA EndingsKeep ==
  ASSUME Inv, NEW c \in Conns, LogoutPanics(c) \/ Close(c) \/ Leave(c)
  PROVE  Inv'
<1>1. Ends(c) /\ UNCHANGED <<now, backs, run, notBefore, saved, token, ahead>>
  BY DEF LogoutPanics, Close, Leave, clock, accounts, tokens
<1>2. conn[c].at # "telling"
  BY DEF LogoutPanics, Close, Leave, Inv, TypeOK
<1>3. poisoned' \in BOOLEAN
  BY DEF LogoutPanics, Close, Leave, Inv, TypeOK
<1> QED
  BY <1>1, <1>2, <1>3, EndsKeeps

-----------------------------------------------------------------------------
(* logout_all *)

\* The sockets of the user survive, for now: the connection that logs out is
\* about to tell them.
LEMMA LogoutAllKeeps ==
  ASSUME Inv, NEW c \in Conns, LogoutAll(c)
  PROVE  Inv'
<1> USE DEF Inv
<1> DEFINE u == conn[c].user
           new == [conn[c] EXCEPT !.at = "telling"]
<1>1. /\ conn[c].at = "checked" /\ u \in Users /\ notBefore[u] # Absent
      /\ Revoke(u, "logout")
      /\ conn' = [conn EXCEPT ![c] = new]
      /\ UNCHANGED <<now, backs, run, saved, late, due, poisoned>>
  BY DEF LogoutAll, HasAccount, Goes, clock
<1>2. /\ new \in Busy /\ new.at = "telling"
      /\ new.user = u /\ new.tok = conn[c].tok
  BY <1>1, ConnType DEF Busy
<1>3. \A d \in Conns : conn'[d] = IF d = c THEN new ELSE conn[d]
  BY <1>1 DEF TypeOK
<1>4. u \in Users /\ u = conn[c].user
  BY <1>1
<1> HIDE DEF new, u
<1>5. /\ notBefore' \in [Users -> Times \union {Absent}]
      /\ token' \in [Tokens -> Issued \union {Blank}]
      /\ ahead' \subseteq Tokens
      /\ \A k \in Tokens : token'[k].user = token[k].user
      /\ \A v \in Users : notBefore[v] # Absent => notBefore'[v] # Absent
      /\ \A k \in Tokens : token[k].user # u => token'[k] = token[k]
      /\ Kept'
  BY <1>1, <1>4, RevokeKeeps
<1>6. \A d \in Conns : conn'[d].user = conn[d].user /\ conn'[d].tok = conn[d].tok
  BY <1>2, <1>3, <1>4
<1>7. Held'
  BY <1>5, <1>6, ConnType DEF Held
<1>8. conn' \in [Conns -> Busy \union {Idle}]
  BY <1>1, <1>2 DEF TypeOK
<1>9. \A d \in Conns :
        /\ d \in late' \union due' => conn'[d].at = "open"
        /\ conn'[d].at = "telling" => conn'[d].user # Public
        /\ conn'[d].user # Public => token'[conn'[d].tok].user = conn'[d].user
  BY <1>1, <1>2, <1>3, <1>4, <1>5, <1>6 DEF TypeOK, Held
<1>10. TypeOK'
  BY <1>1, <1>5, <1>8, <1>9 DEF TypeOK
<1>11. SurvivorsCameLate'
  <2> SUFFICES ASSUME NEW d \in Conns, conn'[d].at = "open", LoggedOut(conn[d].tok)'
               PROVE  \/ d \in late' \union due'
                      \/ \E e \in Conns : conn'[e].at = "telling" /\ conn'[e].user = conn'[d].user
    BY DEF SurvivorsCameLate
  <2>1. d # c /\ conn'[d] = conn[d]
    BY <1>2, <1>3
  <2>2. CASE conn[d].user = u
    BY <1>2, <1>3, <2>1, <2>2
  <2>3. CASE conn[d].user # u
    <3>1. LoggedOut(conn[d].tok)
      BY <1>5, <2>1, <2>3, ConnType DEF LoggedOut, TypeOK, Held
    <3>2. CASE d \in late \union due
      BY <1>1, <3>2
    <3>3. ASSUME NEW e \in Conns, conn[e].at = "telling", conn[e].user = conn[d].user
          PROVE  conn'[e].at = "telling" /\ conn'[e].user = conn'[d].user
      BY <1>1, <1>3, <2>1, <3>3
    <3> QED
      BY <2>1, <3>1, <3>2, <3>3 DEF SurvivorsCameLate
  <2> QED
    BY <2>2, <2>3
<1> QED
  BY <1>5, <1>7, <1>10, <1>11

\* The message is for every socket of the user that has subscribed by now.
LEMMA LogoutTellsKeeps ==
  ASSUME Inv, NEW c \in Conns, LogoutTells(c)
  PROVE  Inv'
<1> USE DEF Inv
<1>1. /\ conn[c].at = "telling"
      /\ due' = due \union Told(c)
      /\ conn' = [conn EXCEPT ![c] = Idle]
      /\ UNCHANGED <<now, backs, run, notBefore, saved, token, ahead, late, poisoned>>
  BY DEF LogoutTells, clock, accounts, tokens
<1>2. \A d \in Conns : conn'[d] = IF d = c THEN Idle ELSE conn[d]
  BY <1>1 DEF TypeOK
<1>3. c \notin late \union due \union Told(c)
  BY <1>1 DEF TypeOK, Told
<1>4. \A d \in late' \union due' : conn'[d].at = "open"
  BY <1>1, <1>2, <1>3 DEF TypeOK, Told
<1>5. late' \subseteq late \union {c} /\ due' \subseteq Conns /\ poisoned' \in BOOLEAN
  BY <1>1 DEF TypeOK, Told
<1>6. TypeOK' /\ Held'
  BY <1>1, <1>4, <1>5, IdleConn, ConnKeeps
<1>7. SurvivorsCameLate'
  <2> SUFFICES ASSUME NEW d \in Conns, conn'[d].at = "open", LoggedOut(conn[d].tok)'
               PROVE  \/ d \in late' \union due'
                      \/ \E e \in Conns : conn'[e].at = "telling" /\ conn'[e].user = conn'[d].user
    BY DEF SurvivorsCameLate
  <2>1. d # c /\ conn'[d] = conn[d] /\ conn[d].at = "open" /\ LoggedOut(conn[d].tok)
    BY <1>1, <1>2, IdleConn DEF LoggedOut
  <2>2. CASE conn[d].user = conn[c].user
    BY <1>1, <2>1, <2>2 DEF Told
  <2>3. CASE conn[d].user # conn[c].user
    <3>1. CASE d \in late \union due
      BY <1>1, <3>1
    <3>2. ASSUME NEW e \in Conns, conn[e].at = "telling", conn[e].user = conn[d].user
          PROVE  conn'[e].at = "telling" /\ conn'[e].user = conn'[d].user
      BY <1>2, <2>1, <2>3, <3>2
    <3> QED
      BY <2>1, <3>1, <3>2 DEF SurvivorsCameLate
  <2> QED
    BY <2>2, <2>3
<1> QED
  BY <1>1, <1>6, <1>7, KeptStays

-----------------------------------------------------------------------------
(* The process and its clock *)

\* Every token is from before the start: none is of the new process.
LEMMA StartsKeeps ==
  ASSUME Inv, NEW file \in [Users -> Times \union {Absent}], Starts(file)
  PROVE  Inv'
<1> USE DEF Inv
<1>1. /\ run < MaxRuns /\ run' = run + 1
      /\ saved' = file
      /\ conn' = [d \in Conns |-> Idle]
      /\ late' = {} /\ due' = {} /\ poisoned' = FALSE
      /\ UNCHANGED <<now, backs, ahead>>
  BY DEF Starts, NewRun, clock
<1>2. PICK users \in {file, [u \in Users |-> Absent]} :
        /\ notBefore' = users
        /\ token' = [k \in Tokens |->
             IF token[k] # Blank /\ users[token[k].user] = Absent
             THEN [token[k] EXCEPT !.fate = "lost"] ELSE token[k]]
  BY DEF Starts
<1>3. run \in Nat /\ run' \in Runs
  BY <1>1 DEF TypeOK
<1>4. notBefore' \in [Users -> Times \union {Absent}]
  BY <1>2
<1>5. \A k \in Tokens : /\ token'[k] \in Issued \union {Blank}
                        /\ token'[k].key = token[k].key
                        /\ token'[k] # Blank => token[k] # Blank
  <2> SUFFICES ASSUME NEW k \in Tokens
               PROVE  /\ token'[k] \in Issued \union {Blank}
                      /\ token'[k].key = token[k].key
                      /\ token'[k] # Blank => token[k] # Blank
    OBVIOUS
  <2>1. CASE token[k] = Blank
    BY <1>2, <2>1
  <2>2. CASE token[k] # Blank
    BY <1>2, <2>2, TokenType DEF Issued
  <2> QED
    BY <2>1, <2>2
<1>6. token' \in [Tokens -> Issued \union {Blank}]
  BY <1>2, <1>5
<1>7. \A d \in Conns : conn'[d] = Idle
  BY <1>1
<1>8. TypeOK'
  <2>1. poisoned' \in BOOLEAN
    BY <1>1
  <2>2. conn' \in [Conns -> Busy \union {Idle}]
    BY <1>1
  <2>3. ahead' \subseteq Tokens /\ now' \in Times /\ backs' \in 0..MaxBacks
    BY <1>1 DEF TypeOK
  <2> QED
    BY <1>1, <1>3, <1>4, <1>6, <1>7, <2>1, <2>2, <2>3, IdleConn DEF TypeOK
<1>9. Kept'
  <2> SUFFICES ASSUME NEW k \in Tokens, token'[k] # Blank PROVE KeptFor(k)'
    BY DEF Kept
  <2>1. token[k] # Blank /\ token[k].key <= run /\ token[k].key \in Nat
    BY <1>5, TokenType DEF Kept, KeptFor
  <2>2. token'[k].key < run'
    BY <1>1, <1>3, <1>5, <2>1
  <2> QED
    BY <1>1, <1>3, <1>5, <2>1, <2>2 DEF KeptFor
<1>10. Held' /\ SurvivorsCameLate'
  BY <1>7, IdleConn DEF Held, SurvivorsCameLate
<1> QED
  BY <1>8, <1>9, <1>10

LEMMA RestartKeeps ==
  ASSUME Inv, Restart \/ Crash
  PROVE  Inv'
<1>1. \E file \in {saved, notBefore} : Starts(file)
  BY DEF Restart, Crash
<1> QED
  BY <1>1, StartsKeeps DEF Inv, TypeOK

LEMMA ClockKeeps ==
  ASSUME Inv, Tick \/ SetBack
  PROVE  Inv'
<1> USE DEF Inv
<1>1. /\ now' \in Times /\ backs' \in 0..MaxBacks
      /\ UNCHANGED <<run, notBefore, saved, token, ahead, conn, late, due, poisoned>>
  BY DEF Tick, SetBack, TypeOK, accounts, tokens, conns
<1> QED
  BY <1>1, KeptStays DEF TypeOK, Held, SurvivorsCameLate, LoggedOut

LEMMA NextInv ==
  ASSUME Inv, [Next]_vars
  PROVE  Inv'
<1>1. ASSUME NEW u \in Users, Register(u) \/ Reset(u) \/ \E k \in Tokens : Login(u, k)
      PROVE  Inv'
  BY <1>1, RegisterKeeps, ResetKeeps, LoginKeeps
<1>2. ASSUME NEW c \in Conns, \E k \in Tokens : Authenticate(c, k)
      PROVE  Inv'
  BY <1>2, AuthenticateKeeps
<1>3. ASSUME NEW c \in Conns, PassPublic(c) \/ Open(c) \/ LogoutAll(c) \/ LogoutTells(c)
      PROVE  Inv'
  BY <1>3, PassPublicKeeps, OpenKeeps, LogoutAllKeeps, LogoutTellsKeeps
<1>4. ASSUME NEW c \in Conns, LogoutPanics(c) \/ Close(c) \/ Leave(c)
      PROVE  Inv'
  BY <1>4, EndingsKeep
<1>5. CASE Restart \/ Crash \/ Tick \/ SetBack
  BY <1>5, RestartKeeps, ClockKeeps
<1>6. CASE UNCHANGED vars
  BY <1>6, KeptStays DEF vars, clock, accounts, tokens, conns, Inv, TypeOK, Held,
                         SurvivorsCameLate, LoggedOut
<1> QED
  BY <1>1, <1>2, <1>3, <1>4, <1>5, <1>6 DEF Next

-----------------------------------------------------------------------------
\* The inductive invariant holds in every reachable state.
THEOREM Invariance == Spec => []Inv
<1>1. Init => Inv
  BY InitInv
<1>2. Inv /\ [Next]_vars => Inv'
  BY NextInv
<1> QED
  BY <1>1, <1>2, PTL DEF Spec

\* Tokens, accounts and connections stay well-formed; a message that closes a
\* socket waits for open sockets only.
THEOREM TypeCorrect == Spec => []TypeOK
<1>1. Inv => TypeOK
  BY DEF Inv
<1> QED
  BY <1>1, Invariance, PTL

\* Tokens that a reset, a logout or the loss of the account was to end do not
\* pass authenticate, but for those of the very second or of a clock that was
\* set back, whatever crashes, restarts and new accounts come between.
THEOREM RevokedTokensFail == Spec => []RevokedStayOut
<1>1. ASSUME Inv, NEW k \in Tokens, Revoked(k), Passes(k)
      PROVE  /\ token[k].fate # "lost"
             /\ token[k].iat = notBefore[token[k].user] \/ k \in ahead
  <2>1. token[k] # Blank /\ token[k].key = run /\ token[k].iat >= notBefore[token[k].user]
    BY <1>1 DEF Passes, Verified
  <2>2. token[k].user \in Users /\ token[k].iat \in Nat
    BY <1>1, <2>1, TokenType DEF Inv
  <2>3. KeptFor(k) /\ token[k].fate # "good"
    BY <1>1, <2>1 DEF Inv, Kept, Revoked
  <2>4. notBefore[token[k].user] \in Nat
    BY <1>1, <2>1, <2>2, <2>3 DEF Inv, TypeOK, KeptFor
  <2> QED
    BY <2>1, <2>2, <2>3, <2>4 DEF KeptFor
<1>2. Inv => RevokedStayOut
  BY <1>1 DEF RevokedStayOut
<1> QED
  BY <1>2, Invariance, PTL

\* A token of this process that is current and not revoked passes authenticate.
THEOREM FreshTokensSucceed == Spec => []FreshTokensPass
<1>1. ASSUME Inv, NEW k \in Tokens, token[k].fate = "good", Verified(k)
      PROVE  Passes(k)
  <2>1. token[k] # Blank /\ token[k].key = run
    BY <1>1 DEF Verified
  <2>2. token[k].user \in Users
    BY <1>1, <2>1, TokenType DEF Inv
  <2> QED
    BY <1>1, <2>1, <2>2 DEF Inv, Kept, KeptFor, Passes, HasAccount
<1>2. Inv => FreshTokensPass
  BY <1>1 DEF FreshTokensPass
<1> QED
  BY <1>2, Invariance, PTL

\* A logout tells every socket that had subscribed before it.
THEOREM LogoutMissesLateOnly == Spec => []SurvivorsCameLate
<1>1. Inv => SurvivorsCameLate
  BY DEF Inv
<1> QED
  BY <1>1, Invariance, PTL

\* logout_all finds the account of every request that was let in as a user's.
THEOREM LogoutFindsAccount == Spec => LogoutUnwrapSafe
<1>1. Inv => \A c \in Conns : LogoutPanics(c) => conn[c].user = Public
  BY ConnType DEF Inv, Held, LogoutPanics, HasAccount
<1>2. Inv /\ [Next]_vars => [\A c \in Conns : LogoutPanics(c) => conn[c].user = Public]_vars
  BY <1>1
<1>3. LogoutUnwrapSafe <=> [][\A c \in Conns : LogoutPanics(c) => conn[c].user = Public]_vars
  BY DEF LogoutUnwrapSafe
<1> QED
  BY <1>2, <1>3, Invariance, PTL DEF Spec
=============================================================================
