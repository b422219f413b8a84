---------------------------- MODULE ClientSessions ----------------------------
(***************************************************************************)
(* The sessions of the two clients: the file the command line keeps and    *)
(* the token, session and status bar of the editor extension.              *)
(* Source: apps/cli/src/index.ts; extensions/code-kit-vscode/src/          *)
(*                                                                         *)
(* Both learn who they are from GET /v1/session.  The answer is that of    *)
(* the token the question was sent with, and by the time it arrives        *)
(* another token may be in place.  The extension asks in its bearer mode,  *)
(* on every poll and when the user signs in.                               *)
(***************************************************************************)
EXTENDS Integers

CONSTANTS
    CliProcesses,   \* processes of the command line
    SessionTokens,  \* tokens users have; each stands for its actor, too
    NoToken,
    MaxClientActs   \* bound: times users sign in or out, or a token expires

ASSUME ClientAssumption == NoToken \notin SessionTokens

VARIABLES
    accepted,       \* the tokens the service accepts
    sessionFile,    \* ~/.ck/session.json: [token, actor], NoToken twice if there is none
    login,          \* process -> the login it has under way
    relogin,        \* history: has a login begun while another token was in the file?
    editor,         \* the extension: its token, session and status bar
    secret,         \* the token in the secret storage of the editor
    refresh,        \* what it awaits: for the poll, a sign-in and a sign-out
    clientActs      \* times users or the service acted

clientVars == <<accepted, sessionFile, login, relogin, editor, secret, refresh, clientActs>>
cliVars == <<sessionFile, login, relogin>>
editorVars == <<editor, secret, refresh>>

NoFile == [token |-> NoToken, actor |-> NoToken]
NoLogin == [pc |-> "off", token |-> NoToken, sent |-> NoToken]
Refreshers == {"poll", "sign-in", "sign-out"}
NoRefresh == [pc |-> "idle", sent |-> NoToken]

ClientInit ==
    /\ accepted = SessionTokens
    /\ sessionFile = NoFile
    /\ login = [c \in CliProcesses |-> NoLogin]
    /\ relogin = FALSE
    /\ editor = [token |-> NoToken, session |-> NoToken, bar |-> "none"]
    /\ secret = NoToken
    /\ refresh = [r \in Refreshers |-> NoRefresh]
    /\ clientActs = 0

Acts == clientActs < MaxClientActs /\ clientActs' = clientActs + 1

TokenExpires ==
    /\ Acts
    /\ \E t \in accepted : accepted' = accepted \ {t}
    /\ UNCHANGED <<cliVars, editorVars>>

----------------------------------------------------------------------------
\* The interceptor puts the token of the file, if there is one, over the
\* header a request has: also over the one a login wants verified.
HeaderToken(t) == IF sessionFile = NoFile THEN t ELSE sessionFile.token

CliLogin(c, t) ==
    /\ Acts
    /\ login[c] = NoLogin
    /\ login' = [login EXCEPT ![c] = [pc |-> "verify", token |-> t, sent |-> HeaderToken(t)]]
    /\ relogin' = (relogin \/ HeaderToken(t) # t)
    /\ UNCHANGED <<accepted, sessionFile, editorVars>>

LoginSavesAnyway(c) ==
    /\ login[c].pc = "verify"
    /\ sessionFile' = [token |-> login[c].token,
                       actor |-> IF login[c].sent \in accepted THEN login[c].sent ELSE NoToken]
    /\ login' = [login EXCEPT ![c] = NoLogin]
    /\ UNCHANGED <<accepted, relogin, editorVars, clientActs>>

\* The new token is kept with what the service told of the one it was sent.
LoginAnswered(c) ==
    /\ login[c].pc = "verify"
    /\ sessionFile' = IF login[c].sent \in accepted
                      THEN [token |-> login[c].token, actor |-> login[c].sent]
                      ELSE sessionFile
    /\ login' = [login EXCEPT ![c] = NoLogin]
    /\ UNCHANGED <<accepted, relogin, editorVars, clientActs>>

LoginFails(c) ==
    /\ login[c].pc = "verify"
    /\ login' = [login EXCEPT ![c] = NoLogin]
    /\ UNCHANGED <<accepted, sessionFile, relogin, editorVars, clientActs>>

CliLogout ==
    /\ Acts
    /\ sessionFile # NoFile
    /\ sessionFile' = NoFile
    /\ UNCHANGED <<accepted, login, relogin, editorVars>>

----------------------------------------------------------------------------
\* refreshSession with the token of the moment; without one there is nothing
\* to ask, and the caller goes on.
Asks(r, then) ==
    IF editor.token = NoToken
    THEN /\ refresh' = [refresh EXCEPT ![r] = [pc |-> then, sent |-> NoToken]]
         /\ editor' = [editor EXCEPT !.session = NoToken]
    ELSE /\ refresh' = [refresh EXCEPT ![r] = [pc |-> "asked", sent |-> editor.token]]
         /\ UNCHANGED editor

PollTrustsSession ==
    /\ refresh["poll"].pc = "idle"
    /\ IF editor.session # NoToken
       THEN /\ refresh' = [refresh EXCEPT !["poll"].pc = "health"]
            /\ UNCHANGED editor
       ELSE Asks("poll", "health")
    /\ UNCHANGED <<accepted, cliVars, secret, clientActs>>

\* checkState, every five seconds; a question is given up after two.
PollBegins ==
    /\ refresh["poll"].pc = "idle"
    /\ Asks("poll", "health")
    /\ UNCHANGED <<accepted, cliVars, secret, clientActs>>

\* The answer to a refresh, whatever token is in place by now.
AnswerTo(r) == IF refresh[r].sent \in accepted THEN {refresh[r].sent, NoToken} ELSE {NoToken}

PollAnswered ==
    /\ refresh["poll"].pc = "asked"
    /\ \E a \in AnswerTo("poll") : editor' = [editor EXCEPT !.session = a]
    /\ refresh' = [refresh EXCEPT !["poll"] = [pc |-> "health", sent |-> NoToken]]
    /\ UNCHANGED <<accepted, cliVars, secret, clientActs>>

Bar == CASE editor.token = NoToken -> "signed out"
         [] editor.token # NoToken /\ editor.session = NoToken -> "expired"
         [] OTHER -> editor.session

HealthAnswered ==
    /\ refresh["poll"].pc = "health"
    /\ \E bar \in {"offline", Bar} : editor' = [editor EXCEPT !.bar = bar]
    /\ refresh' = [refresh EXCEPT !["poll"] = NoRefresh]
    /\ UNCHANGED <<accepted, cliVars, secret, clientActs>>

\* setToken: the token is in place before it is stored ...
SignIn(t) ==
    /\ Acts
    /\ refresh["sign-in"].pc = "idle"
    /\ editor' = [editor EXCEPT !.token = t]
    /\ refresh' = [refresh EXCEPT !["sign-in"] = [pc |-> "store", sent |-> t]]
    /\ UNCHANGED <<accepted, cliVars, secret>>

\* ... and the session is refreshed with whatever token there is by then ...
TokenStored ==
    /\ refresh["sign-in"].pc = "store"
    /\ secret' = refresh["sign-in"].sent
    /\ Asks("sign-in", "idle")
    /\ UNCHANGED <<accepted, cliVars, clientActs>>

\* ... which the command then does once more.
FirstAnswered ==
    /\ refresh["sign-in"].pc = "asked"
    /\ \E a \in AnswerTo("sign-in") :
          IF editor.token = NoToken
          THEN /\ editor' = [editor EXCEPT !.session = NoToken]
               /\ refresh' = [refresh EXCEPT !["sign-in"] = NoRefresh]
          ELSE /\ editor' = [editor EXCEPT !.session = a]
               /\ refresh' = [refresh EXCEPT !["sign-in"] = [pc |-> "again", sent |-> editor.token]]
    /\ UNCHANGED <<accepted, cliVars, secret, clientActs>>

SecondAnswered ==
    /\ refresh["sign-in"].pc = "again"
    /\ \E a \in AnswerTo("sign-in") : editor' = [editor EXCEPT !.session = a]
    /\ refresh' = [refresh EXCEPT !["sign-in"] = NoRefresh]
    /\ UNCHANGED <<accepted, cliVars, secret, clientActs>>

SignOut ==
    /\ Acts
    /\ refresh["sign-out"].pc = "idle"
    /\ editor' = [editor EXCEPT !.token = NoToken, !.session = NoToken]
    /\ refresh' = [refresh EXCEPT !["sign-out"].pc = "delete"]
    /\ UNCHANGED <<accepted, cliVars, secret>>

SecretDeleted ==
    /\ refresh["sign-out"].pc = "delete"
    /\ secret' = NoToken
    /\ refresh' = [refresh EXCEPT !["sign-out"] = NoRefresh]
    /\ UNCHANGED <<accepted, cliVars, editor, clientActs>>

\* The token is read back from the secret storage.
EditorRestarts ==
    /\ Acts
    /\ editor' = [token |-> secret, session |-> NoToken, bar |-> "none"]
    /\ refresh' = [r \in Refreshers |-> NoRefresh]
    /\ UNCHANGED <<accepted, cliVars, secret>>

Refreshes ==
    \/ PollBegins \/ PollAnswered \/ HealthAnswered
    \/ TokenStored \/ FirstAnswered \/ SecondAnswered \/ SecretDeleted

ClientNext ==
    \/ TokenExpires \/ CliLogout \/ SignOut \/ EditorRestarts
    \/ \E t \in SessionTokens : SignIn(t) \/ \E c \in CliProcesses : CliLogin(c, t)
    \/ \E c \in CliProcesses : LoginAnswered(c) \/ LoginFails(c)
    \/ Refreshes

\* setInterval polls for ever, both questions have a timeout, and the secret
\* storage answers.
ClientFairness ==
    /\ WF_clientVars(PollBegins) /\ WF_clientVars(PollAnswered) /\ WF_clientVars(HealthAnswered)
    /\ WF_clientVars(TokenStored) /\ WF_clientVars(SecretDeleted)
    /\ WF_clientVars(FirstAnswered) /\ WF_clientVars(SecondAnswered)

ClientSpec == ClientInit /\ [][ClientNext]_clientVars /\ ClientFairness

----------------------------------------------------------------------------
\* The session on file is that of the token on file, over any number of
\* processes, unless a login began while another token was there.
LoginIsVerified == ~relogin => sessionFile.actor = sessionFile.token

\* Once users and service leave it alone, the status bar ends up naming no
\* actor but that of the token in place: answers to older tokens that arrive
\* after a sign-in, or a sign-out, are put right by a poll.
StatusSettles == <>[](editor.bar \in SessionTokens => editor.bar = editor.token)
=============================================================================
