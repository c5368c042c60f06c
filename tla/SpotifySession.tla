---------------------------- MODULE SpotifySession ----------------------------
(* The authorised Spotify session: one settings row holds the tokens, the login waits for the
   browser on a fixed port, and every analysis of a Spotify link renews the session when its
   access token has expired (spotify_auth.rs).  The service answers a renewal with a new renewal
   token, which replaces the old one, or with none, which leaves it valid.  Token strings are
   numbers, the encryption of the row is left out, and the two bounds are those of the logins
   and of the renewals a behaviour may have. *)
EXTENDS Naturals

CONSTANTS Analyses, MaxLogins, MaxTokens

VARIABLES
    row,        \* the settings row: none, or a grant, its renewal token (0: none) and whether
                \* its access token has a minute left
    valid,      \* grant |-> the renewal token the service accepts (0: not granted yet)
    asker,      \* analysis |-> where it is in spotify_access_token, and what it read or received
    login,      \* where the login is; the page the browser last showed
    opened,     \* the logins so far: each asks for a grant of its own
    lost        \* grants with a renewal whose answer never reached the row, or was written
                \* over a row other than the one it had read
sessionVars == <<row, valid, asker, login, opened, lost>>

NoSession == [grant |-> 0, token |-> 0, fresh |-> FALSE]
Grants == 1..MaxLogins
Idle == [at |-> "idle", read |-> NoSession, got |-> 0]
SessionInit ==
    /\ row = NoSession
    /\ valid = [g \in Grants |-> 0]
    /\ asker = [a \in Analyses |-> Idle]
    /\ login = [at |-> "none", page |-> "none"]
    /\ opened = 0
    /\ lost = {}

(* spotify_access_token, called by an analysis on a thread of its own.                        *)
\* Without a row it fails, and a fresh access token is used as it is.
ReadsRow(a) ==
    /\ asker[a].at = "idle" /\ row # NoSession
    /\ ~row.fresh
    /\ asker' = [asker EXCEPT ![a] = [at |-> "renewing", read |-> row, got |-> 0]]
    /\ UNCHANGED <<row, valid, login, opened, lost>>
\* The service renews with the token it accepts; it may send a new renewal token.
Renewed(a) ==
    /\ asker[a].at = "renewing"
    /\ LET old == asker[a].read
           new == valid[old.grant] + 1
       IN /\ old.token = valid[old.grant]
          /\ \/ /\ new <= MaxTokens
                /\ valid' = [valid EXCEPT ![old.grant] = new]
                /\ asker' = [asker EXCEPT ![a].at = "writing", ![a].got = new]
             \/ /\ asker' = [asker EXCEPT ![a].at = "writing"]
                /\ UNCHANGED valid
    /\ UNCHANGED <<row, login, opened, lost>>
\* Refused or unreachable: the analysis fails and the row stays as it is.
Refused(a) ==
    /\ asker[a].at = "renewing"
    /\ asker' = [asker EXCEPT ![a] = Idle]
    /\ UNCHANGED <<row, valid, login, opened, lost>>
\* An answer without a renewal token keeps the one that was used.
TokenAsReceived(old, got) == got
TokenToKeep(old, got) == IF got = 0 THEN old ELSE got
\* The row is replaced whatever it holds by now.
WritesRow(a) ==
    /\ asker[a].at = "writing"
    /\ row' = [grant |-> asker[a].read.grant, token |-> TokenToKeep(asker[a].read.token, asker[a].got),
               fresh |-> TRUE]
    /\ asker' = [asker EXCEPT ![a] = Idle]
    /\ lost' = IF [row EXCEPT !.fresh = FALSE] = asker[a].read THEN lost
               ELSE lost \cup {asker[a].read.grant}
    /\ UNCHANGED <<valid, login, opened>>
\* The answer is cut off, the database refuses the write or the program is ended.
LosesAnswer(a) ==
    /\ asker[a].at = "writing"
    /\ lost' = lost \cup {asker[a].read.grant}
    /\ asker' = [asker EXCEPT ![a] = Idle]
    /\ UNCHANGED <<row, valid, login, opened>>

(* spotify_login: the port can be bound by one login at a time.                               *)
Opens ==
    /\ login.at = "none" /\ opened < MaxLogins
    /\ login' = [at |-> "waiting", page |-> "none"]
    /\ opened' = opened + 1
    /\ UNCHANGED <<row, valid, asker, lost>>
\* The first connection decides: its bytes are read without a limit on the time, and one that
\* says nothing keeps the login past its three minutes until the browser closes it.
Accepts ==
    /\ login.at = "waiting"
    /\ login' = [login EXCEPT !.at = "reading"]
    /\ UNCHANGED <<row, valid, asker, opened, lost>>
WaitsOn == login.at = "waiting" /\ UNCHANGED sessionVars
\* Three minutes without a connection, or an error accepting one.
TimesOut ==
    /\ login.at = "waiting"
    /\ login' = [at |-> "none", page |-> "none"]
    /\ UNCHANGED <<row, valid, asker, opened, lost>>
\* The browser's request: the expected one; one without a code, as an error without a description
\* is, which gets the page of a success; that of an older tab, whose state is another; one the
\* user refused; a request for another path, which an empty connection also amounts to.
Speaks(request) ==
    /\ login.at = "reading"
    /\ login' = IF request = "code" THEN [at |-> "exchanging", page |-> "connected"]
                ELSE [at |-> "none", page |-> IF request = "codeless" THEN "connected" ELSE "refused"]
    /\ UNCHANGED <<row, valid, asker, opened, lost>>
\* exchange_code, the service granting; then write_stored_token.
Granted ==
    /\ login.at = "exchanging"
    /\ valid' = [valid EXCEPT ![opened] = 1]
    /\ login' = [login EXCEPT !.at = "storing"]
    /\ UNCHANGED <<row, asker, opened, lost>>
NotGranted ==
    /\ login.at = "exchanging"
    /\ login' = [login EXCEPT !.at = "none"]
    /\ UNCHANGED <<row, valid, asker, opened, lost>>
Stores ==
    /\ login.at = "storing"
    /\ row' = [grant |-> opened, token |-> 1, fresh |-> TRUE]
    /\ login' = [login EXCEPT !.at = "none"]
    /\ UNCHANGED <<valid, asker, opened, lost>>
\* spotify_logout: one statement, whatever renewals are under way.
Logout ==
    /\ row # NoSession
    /\ row' = NoSession
    /\ UNCHANGED <<valid, asker, login, opened, lost>>
\* An hour passes: the access token has less than a minute left.
AccessExpires ==
    /\ row.fresh
    /\ row' = [row EXCEPT !.fresh = FALSE]
    /\ UNCHANGED <<valid, asker, login, opened, lost>>

LoginSteps == TimesOut \/ Granted \/ NotGranted \/ Stores
AskerSteps(a) == Renewed(a) \/ Refused(a) \/ WritesRow(a)
SessionNext ==
    \/ Opens \/ Accepts \/ LoginSteps \/ Logout \/ AccessExpires
    \/ \E request \in {"code", "codeless", "stale", "denied", "other"} : Speaks(request)
    \/ \E a \in Analyses : ReadsRow(a) \/ AskerSteps(a) \/ LosesAnswer(a)
------------------------------------------------------------------------------
Pending(g) == \E a \in Analyses : asker[a].at = "writing" /\ asker[a].read.grant = g
\* A stored session can be renewed: its renewal token is the one the service accepts, unless a
\* renewal is between the service and the row, or its answer was lost there for good: cut off,
\* or written over by that of another analysis, which neither a lock nor a condition prevents.
\* It takes a renewal answered without a token, and a later one, to find it missing.
SessionRenewable ==
    row # NoSession => row.token = valid[row.grant] \/ Pending(row.grant) \/ row.grant \in lost
\* What it rests on (proved in PartsProof).  The types:
Sessions == [grant : Grants, token : Nat, fresh : BOOLEAN]
SessionTypeOK ==
    /\ row \in Sessions \cup {NoSession} /\ valid \in [Grants -> Nat]
    /\ asker \in [Analyses -> [at : {"idle", "renewing", "writing"},
                               read : Sessions \cup {NoSession}, got : Nat]]
    /\ \A a \in Analyses : /\ asker[a].at # "idle" => asker[a].read \in Sessions /\ ~asker[a].read.fresh
                           /\ asker[a].at = "renewing" => asker[a].got = 0
    /\ login \in [at : {"none", "waiting", "reading", "exchanging", "storing"},
                  page : {"none", "connected", "refused"}]
    /\ opened \in 0..MaxLogins /\ (login.at # "none" => opened # 0)
    /\ lost \subseteq Grants
\* A stored session, or one that an analysis has read, is that of a login that is over, and its
\* token one that the service has sent.
Sent(session) ==
    /\ session.token <= valid[session.grant]
    /\ session.grant < opened \/ (session.grant = opened /\ login.at = "none")
TokensAreSent ==
    /\ row # NoSession => Sent(row)
    /\ \A a \in Analyses : asker[a].at # "idle" => /\ Sent(asker[a].read)
                                                  /\ asker[a].got <= valid[asker[a].read.grant]
    /\ login.at = "storing" => valid[opened] = 1
\* Analysis a holds a token of grant g that the row never had.
Holds(a, g) == asker[a].at = "writing" /\ asker[a].read.grant = g /\ asker[a].got # 0
\* Of a grant with nothing lost, one analysis at most holds such a token: it is the newest, and
\* neither the row nor a renewal under way has it; if none does, the row has the newest.
NewestIsHeld ==
    \A g \in Grants \ lost :
        /\ \A a \in Analyses : Holds(a, g) =>
               /\ asker[a].got = valid[g]
               /\ row.grant = g => row.token # valid[g]
               /\ \A b \in Analyses \ {a} :
                      /\ ~Holds(b, g)
                      /\ asker[b].at = "renewing" /\ asker[b].read.grant = g
                            => asker[b].read.token # valid[g]
        /\ row.grant = g => row.token = valid[g] \/ \E a \in Analyses : Holds(a, g)
SessionInv == SessionTypeOK /\ TokensAreSent /\ NewestIsHeld

\* A login ends, unless a connection that says nothing holds it (spotify_auth.rs:333); a
\* renewal ends whatever the service does, its client having a timeout.
Rests(a) == IF a \in Analyses THEN asker[a].at = "idle" ELSE login.at \in {"none", "reading"}
==============================================================================
