---------------------------- MODULE RefreshTokens -----------------------------
(***************************************************************************)
(* The refresh tokens of one user: sign-in, rotation with reuse detection, *)
(* and sign-out.                                                           *)
(*                                                                         *)
(*   cmd/server/auth_service.go         authService                        *)
(*   internal/db/queries/sessions.sql   the statements                     *)
(*                                                                         *)
(* A step is one statement.  The requests are those of one device, whose   *)
(* tabs share the token it holds; the user has a session on another device *)
(* too.  A hash stands for its token.  session_epoch and segment tokens,   *)
(* which cut off access tokens, the expiry of sessions and the second      *)
(* factor are left out.                                                    *)
(***************************************************************************)
EXTENDS Integers

CONSTANTS Caller,        \* the device's concurrent requests
          MaxTok,        \* bound: refresh tokens ever minted
          MaxOutages     \* bound: statements that fail and responses that are lost

VARIABLES
    rows,      \* the user's rows of sessions
    q,         \* the requests
    held,      \* the token the device holds
    ntok,      \* tokens minted
    heirs,     \* history: <<token presented, token handed out for it>>
    lapsed,    \* history: a rotation has left the grace window
    outages

authVars == <<rows, q, held, ntok, heirs, lapsed, outages>>

NoTok == 0
Tok == 0..MaxTok

\* young: the rotation that set last_seen is less than refreshReuseGrace ago.
Session(i, c, p, y) == [id |-> i, cur |-> c, prev |-> p, young |-> y]
Idle == [pc |-> "idle", tok |-> NoTok, id |-> NoTok, new |-> NoTok]

Init ==
    /\ rows = {Session(1, 1, NoTok, FALSE), Session(2, 2, NoTok, FALSE)}
    /\ q = [r \in Caller |-> Idle]
    /\ held = 1
    /\ ntok = 2
    /\ heirs = {}
    /\ lapsed = FALSE
    /\ outages = 0

Outage == outages < MaxOutages /\ outages' = outages + 1

At(r, pc) == q[r].pc = pc

Go(r, pc) == q' = [q EXCEPT ![r].pc = pc]

\* GetSessionByAnyTokenHash
ByAnyHash(t) == {s \in rows : t \in {s.cur, s.prev}}

-----------------------------------------------------------------------------
(* Refresh.                                                                *)

Present(r) ==
    /\ At(r, "idle") /\ held # NoTok
    /\ q' = [q EXCEPT ![r] = [Idle EXCEPT !.pc = "lookup", !.tok = held]]
    /\ UNCHANGED <<rows, held, ntok, heirs, lapsed, outages>>

\* An unknown token is refused, a retired one tolerated within the grace window
\* and otherwise taken for reuse.  No answer of the database is no verdict.
Lookup(r) ==
    /\ At(r, "lookup")
    /\ \/ /\ ByAnyHash(q[r].tok) = {}
          /\ Go(r, "refused")
          /\ UNCHANGED outages
       \/ /\ \E s \in ByAnyHash(q[r].tok) :
                IF s.cur = q[r].tok
                THEN q' = [q EXCEPT ![r] = [@ EXCEPT !.pc = "rotate", !.id = s.id]]
                ELSE Go(r, IF s.young THEN "refused" ELSE "wipe")
          /\ UNCHANGED outages
       \/ Outage /\ Go(r, "retry")
    /\ UNCHANGED <<rows, held, ntok, heirs, lapsed>>

\* The row after a rotation, if the token is still its current one.
Rotated(s, i, t, new) ==
    IF s.id = i /\ s.cur = t THEN Session(i, new, t, TRUE) ELSE s

RotatedRows(r) == {Rotated(s, q[r].id, q[r].tok, ntok + 1) : s \in rows}

\* RotateSessionConditional succeeds; zero rows send the request to look again,
\* and the token minted for it is not used.
Rotate(r) ==
    /\ At(r, "rotate")
    /\ rows' = RotatedRows(r)
    /\ IF rows' # rows
       THEN /\ ntok < MaxTok
            /\ ntok' = ntok + 1
            /\ q' = [q EXCEPT ![r] = [@ EXCEPT !.pc = "ok", !.new = ntok + 1]]
            /\ heirs' = heirs \cup {<<q[r].tok, ntok + 1>>}
       ELSE Go(r, "lookAgain") /\ UNCHANGED <<ntok, heirs>>
    /\ UNCHANGED <<held, lapsed, outages>>

\* ... or reports an error, before or after it committed.
RotateErrs(r) ==
    /\ At(r, "rotate") /\ ntok < MaxTok
    /\ Outage
    /\ rows' \in {rows, RotatedRows(r)}
    /\ ntok' = ntok + 1
    /\ q' = [q EXCEPT ![r] = [@ EXCEPT !.pc = "landed", !.new = ntok + 1]]
    /\ UNCHANGED <<held, heirs, lapsed>>

\* Mutant: an error of the rotation is answered as it is.
LandedUnasked(r) ==
    /\ At(r, "landed")
    /\ Go(r, "retry")
    /\ UNCHANGED <<rows, held, ntok, heirs, lapsed, outages>>

\* The new token's row tells whether the rotation landed.
Landed(r) ==
    /\ At(r, "landed")
    /\ \/ /\ IF \E s \in rows : s.id = q[r].id /\ s.cur = q[r].new
             THEN Go(r, "ok") /\ heirs' = heirs \cup {<<q[r].tok, q[r].new>>}
             ELSE Go(r, "retry") /\ UNCHANGED heirs
          /\ UNCHANGED outages
       \/ Outage /\ Go(r, "retry") /\ UNCHANGED heirs
    /\ UNCHANGED <<rows, held, ntok, lapsed>>

\* Mutant: a lost race counts as reuse.
LookAgainSeesTheft(r) ==
    /\ At(r, "lookAgain")
    /\ Go(r, "wipe")
    /\ UNCHANGED <<rows, held, ntok, heirs, lapsed, outages>>

\* Another request of the owner rotated it just now, or the row has gone or
\* moved on twice.
LookAgain(r) ==
    /\ At(r, "lookAgain")
    /\ \/ /\ Go(r, IF \E s \in rows : s.id = q[r].id /\ s.prev = q[r].tok /\ s.young
                   THEN "refused" ELSE "wipe")
          /\ UNCHANGED outages
       \/ Outage /\ Go(r, "wipe")
    /\ UNCHANGED <<rows, held, ntok, heirs, lapsed>>

\* DeleteSessionsForUser; its failure is only logged.
Wipe(r) ==
    /\ At(r, "wipe")
    /\ Go(r, "refused")
    /\ \/ rows' = {} /\ UNCHANGED outages
       \/ Outage /\ UNCHANGED rows
    /\ UNCHANGED <<held, ntok, heirs, lapsed>>

\* The answer reaches the device, or is lost.
Answer(r) ==
    /\ q[r].pc \in {"ok", "refused", "retry"}
    /\ q' = [q EXCEPT ![r] = Idle]
    /\ \/ /\ held' = IF At(r, "ok") THEN q[r].new ELSE held
          /\ UNCHANGED outages
       \/ At(r, "ok") /\ Outage /\ UNCHANGED held
    /\ UNCHANGED <<rows, ntok, heirs, lapsed>>

-----------------------------------------------------------------------------
(* Sign-in and sign-out.                                                   *)

\* LoginLocal, issueTokenPair: the row is created before the other tokens are
\* minted, and deleted again, if it can be, when that fails.
SignIn(r) ==
    /\ At(r, "idle") /\ ntok < MaxTok
    /\ ntok' = ntok + 1
    /\ rows' = rows \cup {Session(ntok + 1, ntok + 1, NoTok, FALSE)}
    /\ q' = [q EXCEPT ![r] = [Idle EXCEPT !.pc = "mint", !.id = ntok + 1, !.new = ntok + 1]]
    /\ UNCHANGED <<held, heirs, lapsed, outages>>

Mint(r) ==
    /\ At(r, "mint")
    /\ \/ Go(r, "ok") /\ UNCHANGED <<rows, outages>>
       \/ /\ Outage /\ Go(r, "retry")
          /\ rows' \in {rows, {s \in rows : s.id # q[r].id}}
    /\ UNCHANGED <<held, ntok, heirs, lapsed>>

\* Logout finds the session by its current token and deletes it by its id; no
\* row, or an error, is taken for a session that is gone.
LogoutLookup(r) ==
    /\ At(r, "idle") /\ held # NoTok
    /\ held' = NoTok
    /\ \/ /\ \E s \in rows :
                s.cur = held /\ q' = [q EXCEPT ![r] = [Idle EXCEPT !.pc = "logout", !.id = s.id]]
          /\ UNCHANGED outages
       \/ /\ UNCHANGED q
          /\ IF \E s \in rows : s.cur = held THEN Outage ELSE UNCHANGED outages
    /\ UNCHANGED <<rows, ntok, heirs, lapsed>>

LogoutDelete(r) ==
    /\ At(r, "logout")
    /\ \/ rows' = {s \in rows : s.id # q[r].id} /\ UNCHANGED outages
       \/ Outage /\ UNCHANGED rows
    /\ q' = [q EXCEPT ![r] = Idle]
    /\ UNCHANGED <<held, ntok, heirs, lapsed>>

-----------------------------------------------------------------------------
\* refreshReuseGrace has passed since a row was rotated.
Lapse ==
    /\ \E s \in rows :
          /\ s.young
          /\ rows' = (rows \ {s}) \cup {[s EXCEPT !.young = FALSE]}
    /\ lapsed' = TRUE
    /\ UNCHANGED <<q, held, ntok, heirs, outages>>

Next ==
    \/ \E r \in Caller :
          \/ Present(r) \/ Lookup(r) \/ Rotate(r) \/ RotateErrs(r) \/ Landed(r)
          \/ LookAgain(r) \/ Wipe(r) \/ Answer(r)
          \/ SignIn(r) \/ Mint(r) \/ LogoutLookup(r) \/ LogoutDelete(r)
    \/ Lapse

-----------------------------------------------------------------------------
(* Properties.                                                             *)

TypeOK ==
    /\ rows \subseteq [id : Tok, cur : Tok, prev : Tok, young : BOOLEAN]
    /\ q \in [Caller -> [pc : {"idle", "lookup", "rotate", "landed", "lookAgain", "wipe",
                               "ok", "refused", "retry", "mint", "logout"},
                         tok : Tok, id : Tok, new : Tok]]
    /\ held \in Tok /\ ntok \in Tok
    /\ heirs \subseteq Tok \X Tok
    /\ lapsed \in BOOLEAN
    /\ outages \in 0..MaxOutages

\* A token is exchanged once, however requests race and errors are read.
OneHeir == \A x, y \in heirs : x[1] = y[1] => x[2] = y[2]

\* "Try again" is never the answer to a request that itself retired its token,
\* unless the database failed twice: a retry would be taken for reuse.
RetryIsSafe ==
    \A r \in Caller :
        At(r, "retry") /\ q[r].tok # NoTok /\ outages < 2 => \A s \in rows : s.cur # q[r].new

\* See the parts.
RotationSafe == TypeOK /\ OneHeir /\ RetryIsSafe

\* Within the grace window, and with a database that answers, requests of the
\* owner that race never sign the user out everywhere; only one that is still
\* under way when its token is two rotations old, or its session gone, does.
RacesAreTolerated ==
    \A r \in Caller :
        At(r, "wipe") => \/ lapsed \/ outages > 0
                         \/ ByAnyHash(q[r].tok) = {}
=============================================================================
