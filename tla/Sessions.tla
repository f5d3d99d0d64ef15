------------------------------ MODULE Sessions ------------------------------
(***************************************************************************)
(* The session a delegation runs in.  A delegation registers its project,  *)
(* takes the latest session of its host's conversation or makes one,       *)
(* writes the host's id into it, and at its end the time of the            *)
(* delegation.  One that resumes a paused delegation runs in the session   *)
(* as it is.  The servers and commands of a workspace share the files;   *)
(* each update reads a file, empties it and writes it, so that another     *)
(* process may find it torn and a crash may leave it so.                   *)
(***************************************************************************)
EXTENDS Naturals, Sequences, FiniteSets

CONSTANTS
    Clients,    \* processes that delegate
    Hosts,      \* conversations of the host
    NoHost,     \* a conversation that could not be resolved
    Folders,    \* session folders that can be made; a number, in that order
    MaxTime     \* bound: delegations that end

ASSUME SessionsAssumption == NoHost \notin Hosts /\ Folders \in Nat /\ MaxTime \in Nat

VARIABLES
    client,   \* [at, hint, session, copy] of each process
    session,  \* session.json of each folder: [host, last, torn]
    project,  \* project.json: "none", "whole" or "torn"
    clock,    \* counts the delegations that were completed
    align     \* the session policy is align_host, not always_new

sessionsVars == <<client, session, project, clock, align>>

Empty == [host |-> NoHost, last |-> 0, torn |-> FALSE]
Resting == [at |-> "idle", hint |-> NoHost, session |-> 0, copy |-> Empty]

SessionsInit ==
    /\ client = [c \in Clients |-> Resting]
    /\ session = <<>>
    /\ project = "none"
    /\ clock = 0
    /\ align \in BOOLEAN

To(c, place) == client' = [client EXCEPT ![c].at = place]
Tear(s) == session' = [session EXCEPT ![s].torn = TRUE]

\* resolve_active_session: the host's id, or none.
Resolve(c, h) ==
    /\ client[c].at = "idle" /\ clock < MaxTime
    /\ client' = [client EXCEPT ![c] = [Resting EXCEPT !.at = "project", !.hint = h]]
    /\ UNCHANGED <<session, project, clock, align>>

\* ensure_project: a torn file raises, which ends the delegation.
ReadProject(c) ==
    /\ client[c].at = "project"
    /\ IF project = "torn" THEN client' = [client EXCEPT ![c] = Resting] ELSE To(c, "truncating")
    /\ UNCHANGED <<session, project, clock, align>>

TruncateProject(c) ==
    /\ client[c].at = "truncating"
    /\ project' = "torn" /\ To(c, "writing")
    /\ UNCHANGED <<session, clock, align>>

WriteProject(c) ==
    /\ client[c].at = "writing"
    /\ project' = "whole" /\ To(c, "find")
    /\ UNCHANGED <<session, clock, align>>

\* find_latest_mcp_session passes over what it cannot read.
Readable == {s \in DOMAIN session : ~session[s].torn}

\* Mutant: the latest session is taken, whosever it is.
OfAnyHost(h) == Readable
Of(h) == {s \in Readable : session[s].host = h}

Reuse(c) ==
    /\ client[c].at = "find" /\ align /\ client[c].hint # NoHost
    /\ \E s \in Of(client[c].hint) :
           /\ \A o \in Of(client[c].hint) : session[o].last <= session[s].last
           /\ client' = [client EXCEPT ![c].at = "read", ![c].session = s]
    /\ UNCHANGED <<session, project, clock, align>>

\* _create_session_folder
CreateFolder(c) ==
    /\ client[c].at = "find" /\ Len(session) < Folders
    /\ align /\ client[c].hint # NoHost => Of(client[c].hint) = {}
    /\ session' = Append(session, [Empty EXCEPT !.last = clock])
    /\ client' = [client EXCEPT ![c].at = "read", ![c].session = Len(session) + 1]
    /\ UNCHANGED <<project, clock, align>>

\* A paused delegation is resumed: the executor runs in the session that was
\* acquired, without the host's id in it and with no row at its end.
Resume(c) ==
    /\ client[c].at = "read"
    /\ To(c, "resuming")
    /\ UNCHANGED <<session, project, clock, align>>

\* The resumed run has ended, or the pause has no answer and the host is only
\* reminded of it.
Return(c) ==
    /\ client[c].at \in {"read", "resuming"}
    /\ client' = [client EXCEPT ![c] = Resting]
    /\ UNCHANGED <<session, project, clock, align>>

\* apply_host_hint at the start, touch_session_last_delegation at the end:
\* read, change, truncate, write.
ReadSession(c) ==
    LET s == client[c].session
    IN /\ client[c].at \in {"read", "touch", "again"} /\ ~session[s].torn
       /\ client' = [client EXCEPT ![c] =
             IF @.at = "read" THEN [@ EXCEPT !.at = "hint", !.copy = [session[s] EXCEPT !.host = client[c].hint]]
             ELSE [@ EXCEPT !.at = "stamp", !.copy = [session[s] EXCEPT !.last = clock]]]
       /\ UNCHANGED <<session, project, clock, align>>

\* A torn file raises, and so may the delegation before the host's id is
\* written and while it runs: the row of the interruption touches the session
\* once more.
Raise(c) ==
    /\ \/ client[c].at \in {"read", "running"}
       \/ client[c].at = "touch" /\ session[client[c].session].torn
    /\ To(c, "again")
    /\ UNCHANGED <<session, project, clock, align>>

\* The second time the exception is swallowed.
Swallow(c) ==
    /\ client[c].at = "again" /\ session[client[c].session].torn
    /\ client' = [client EXCEPT ![c] = Resting]
    /\ UNCHANGED <<session, project, clock, align>>

TruncateSession(c) ==
    /\ client[c].at \in {"hint", "stamp"}
    /\ Tear(client[c].session)
    /\ To(c, IF client[c].at = "hint" THEN "hinting" ELSE "stamping")
    /\ UNCHANGED <<project, clock, align>>

WriteSession(c) ==
    /\ client[c].at \in {"hinting", "stamping"}
    /\ session' = [session EXCEPT ![client[c].session] = client[c].copy]
    /\ client' = [client EXCEPT ![c] =
                     IF @.at = "hinting" THEN [@ EXCEPT !.at = "running", !.copy = Empty] ELSE Resting]
    /\ UNCHANGED <<project, clock, align>>

\* The delegation has run; its row is in the log of its session.
\* Mutant: its session is stamped from what it was when it was made.
EndRunFromStart(c) ==
    /\ client[c].at = "running" /\ clock < MaxTime
    /\ clock' = clock + 1
    /\ client' = [client EXCEPT ![c].at = "stamp", ![c].copy = [Empty EXCEPT !.last = clock + 1]]
    /\ UNCHANGED <<session, project, align>>

EndRun(c) ==
    /\ client[c].at = "running" /\ clock < MaxTime
    /\ clock' = clock + 1
    /\ To(c, "touch")
    /\ UNCHANGED <<session, project, align>>

\* The process ends at any point and leaves its files as they are.
CrashClient(c) ==
    /\ client[c].at # "idle"
    /\ client' = [client EXCEPT ![c] = Resting]
    /\ UNCHANGED <<session, project, clock, align>>

SessionsNext == \E c \in Clients :
    \/ \E h \in Hosts \union {NoHost} : Resolve(c, h)
    \/ ReadProject(c) \/ TruncateProject(c) \/ WriteProject(c)
    \/ Reuse(c) \/ CreateFolder(c)
    \/ Resume(c) \/ Return(c) \/ Raise(c) \/ Swallow(c)
    \/ ReadSession(c) \/ TruncateSession(c) \/ WriteSession(c)
    \/ EndRun(c) \/ CrashClient(c)

SessionsSpec == SessionsInit /\ [][SessionsNext]_sessionsVars

SessionsTypeOK ==
    /\ project \in {"none", "whole", "torn"}
    /\ \A c \in Clients : client[c].session \in 0..Len(session)
    /\ \A s \in DOMAIN session : session[s].host \in Hosts \union {NoHost} /\ session[s].last \in 0..MaxTime

\* A delegation runs in a session of its own conversation: what the other
\* processes write into the file meanwhile does not make it another's.  Only
\* one that was resumed, or ended before the name was written, may be in a
\* session that names no conversation, never in another's (store.py:155,
\* apply.py:33, mcp_server.py:2021).
HostsApart ==
    \A c \in Clients :
        LET s == client[c].session IN
            /\ client[c].at \in {"running", "touch"} =>
                   session[s].torn \/ session[s].host = client[c].hint
            /\ client[c].at \in {"resuming", "again", "stamp", "stamping"} =>
                   session[s].torn \/ session[s].host \in {client[c].hint, NoHost}

\* Once a session names its conversation, no update takes the name from it:
\* a later delegation of the conversation finds it (apply.py:40,
\* session_paths.py:68).
SessionKeepsHost ==
    [][\A s \in DOMAIN session :
          session[s].host # NoHost => session'[s].host = session[s].host]_sessionsVars
=============================================================================
