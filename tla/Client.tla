------------------------------- MODULE Client -------------------------------
(***************************************************************************)
(* dkvs-cli (client_main.cpp) against the client side of the servers       *)
(* (handleClientConnection, handleRequest and executeCommand of server.cpp)*)
(*                                                                         *)
(* The client works on one request at a time, over one connection, and has *)
(* at most one line under way on it.  A line sent on a connection that the *)
(* client has since closed is still handled by the server: it lives on as  *)
(* a job nobody waits for.  Of Raft the model keeps who believes to lead,  *)
(* the leader hints, and that a submitted entry is committed or discarded  *)
(* at some later time.                                                     *)
(***************************************************************************)
EXTENDS Integers, Sequences, SequencesExt, FiniteSets

CONSTANTS
  Servers,       \* the server list, a sequence
  NoServer,      \* no leader hint
  Scripts,       \* the sequences of lines a user may give
  MaxRedirects,  \* kMaxRedirects
  MaxViews,      \* bound on changes of leader or hints
  MaxCrashes     \* bound on crashes of servers and on connections they close

Server == ToSet(Servers)

VARIABLES
  oneShot,       \* the command is given on the command line
  script,        \* the lines: "set", "ping", "unknown", "empty", "exit" for the
                 \* words that end the client, "quit" for QUIT spelt otherwise
  pc,            \* where the client is
  turn,          \* the number of the line it works on
  attempt,       \* attempt
  tried,         \* i of connectAny
  conn,          \* conn: its server, whether it is broken, the replies in it
  sends,         \* the number of lines sent so far, which numbers the jobs
  silent,        \* history: attempts of each line that ended without a reply
  calm,          \* history: nothing has changed or been late in this request
  answer,        \* what request() returned for each line
  jobs,          \* lines that servers have not finished with
  open,          \* log entries neither committed nor discarded
  committed,     \* log entries committed
  up,            \* the servers that run
  leads,         \* the servers that take themselves for the leader
  hint,          \* leaderHint_ of each server
  views, crashes \* number of changes, and of crashes and closes, so far

clientVars == <<oneShot, script, pc, turn, attempt, tried, answer>>
cluster == <<up, leads, hint, views, crashes>>
entries == <<open, committed>>
vars == <<clientVars, conn, sends, silent, calm, jobs, entries, cluster>>

NoConn == [server |-> NoServer, id |-> 0, broken |-> FALSE, replies |-> <<>>]

\* A connection made now; its id is the number of the first line sent on it.
Connected(s) == [NoConn EXCEPT !.server = s, !.id = sends + 1]

\* One leader, known to all that run.
Settled ==
  \E l \in Server : leads = {l} /\ l \in up /\ \A s \in up \ {l} : hint[s] = l

\* Who may take itself for the leader, and whom the others that run may take
\* for it: at most one server leads, the others know it, know nobody, or still
\* believe in an earlier one.
Views(running) ==
  {v \in [leads : {S \in SUBSET running : Cardinality(S) <= 1},
          hint : [Server -> Server \cup {NoServer}]] :
     \A s \in Server : /\ s \in v.leads => v.hint[s] = s
                       /\ s \notin running => v.hint[s] = NoServer}

Init ==
  /\ oneShot \in BOOLEAN /\ script \in Scripts
  /\ oneShot => Len(script) = 1
  /\ pc = "prompt" /\ turn = 0 /\ attempt = 0 /\ tried = 0
  /\ conn = NoConn /\ sends = 0 /\ calm = FALSE
  /\ silent = [k \in 1..Len(script) |-> 0]
  /\ answer = [k \in 1..Len(script) |-> [kind |-> "none", of |-> 0, calm |-> FALSE]]
  /\ jobs = {} /\ open = {} /\ committed = {}
  /\ up \in {S \in SUBSET Server : S # {}}
  /\ \E v \in Views(up) : leads = v.leads /\ hint = v.hint
  /\ views = 0 /\ crashes = 0

-----------------------------------------------------------------------------
(* The client.                                                              *)

\* main takes the next line: the loop passes over an empty one and ends at
\* QUIT; on the command line there is one, whatever it is.
NextLine ==
  /\ pc = "prompt" /\ turn < Len(script)
  /\ turn' = turn + 1
  /\ pc' = CASE oneShot -> "attempt"
             [] ~oneShot /\ script[turn + 1] = "empty" -> "prompt"
             [] ~oneShot /\ script[turn + 1] = "exit" -> "exit"
             [] OTHER -> "attempt"
  /\ calm' = (Settled /\ ~conn.broken)
  /\ UNCHANGED <<oneShot, script, attempt, tried, answer, conn, sends,
                 silent, jobs, entries, cluster>>

\* request() returns a reply to line of.
Return(kind, of) ==
  /\ answer' = [answer EXCEPT ![turn] = [kind |-> kind, of |-> of, calm |-> calm]]
  /\ pc' = IF oneShot THEN "exit" ELSE "prompt"
  /\ attempt' = 0 /\ tried' = 0
  /\ UNCHANGED <<oneShot, script, turn>>

\* The head of request()'s loop.
Attempt ==
  /\ pc = "attempt"
  /\ \/ /\ attempt < MaxRedirects
        /\ pc' = IF conn.server = NoServer THEN "connect" ELSE "send"
        /\ UNCHANGED <<oneShot, script, turn, attempt, tried, answer>>
     \/ /\ attempt = MaxRedirects
        /\ Return("unreachable", turn)
  /\ UNCHANGED <<conn, sends, silent, calm, jobs, entries, cluster>>

\* One round of connectAny's loop, which starts at the first server.
Connect ==
  /\ pc = "connect"
  /\ \/ /\ tried < Len(Servers)
        /\ LET s == Servers[tried + 1]
           IN  /\ conn' = IF s \in up THEN Connected(s) ELSE conn
               /\ pc' = IF s \in up THEN "send" ELSE "connect"
        /\ tried' = IF Servers[tried + 1] \in up THEN 0 ELSE tried + 1
        /\ UNCHANGED <<oneShot, script, turn, attempt, answer>>
     \/ /\ tried = Len(Servers)
        /\ Return("unreachable", turn)
        /\ UNCHANGED conn
  /\ UNCHANGED <<sends, silent, calm, jobs, entries, cluster>>

\* The loop goes round with connection c.
Again(c) ==
  /\ conn' = c
  /\ attempt' = attempt + 1
  /\ pc' = "attempt"

\* sendLine.  On a broken connection it fails, or the bytes go nowhere.
Send ==
  /\ pc = "send"
  /\ \/ /\ conn.broken
        /\ Again(NoConn)
        /\ silent' = [silent EXCEPT ![turn] = @ + 1]
        /\ UNCHANGED <<sends, jobs>>
     \/ /\ pc' = "wait"
        /\ sends' = sends + 1
        /\ jobs' = IF conn.broken
                   THEN jobs
                   ELSE jobs \cup {[id |-> sends + 1, turn |-> turn, conn |-> conn.id,
                                    server |-> conn.server, parked |-> FALSE]}
        /\ UNCHANGED <<attempt, conn, silent>>
  /\ UNCHANGED <<oneShot, script, turn, tried, answer, calm, entries,
                 cluster>>

\* Mutant: recvLine without a timeout.
GivesUp_Never == conn.replies = <<>> /\ conn.broken

\* The timeout of recvLine has passed, or the peer has closed.
GivesUp == conn.replies = <<>>

\* Mutant: the connection is kept for the next attempt.
Dropped_Kept == conn

\* closeFd and reset.
Dropped == NoConn

\* recvLine returns nullopt.
NoAnswer ==
  /\ pc = "wait" /\ GivesUp
  /\ Again(Dropped)
  /\ silent' = [silent EXCEPT ![turn] = @ + 1]
  /\ calm' = (calm /\ conn.broken)
  /\ UNCHANGED <<oneShot, script, turn, tried, answer, sends, jobs,
                 entries, cluster>>

\* Mutant: the target of a redirect is not used.
Follow_StartsOver(s) == NoConn

\* The connection tcpConnect makes to the target of a redirect.
Follow(s) == IF s \in up THEN Connected(s) ELSE NoConn

\* Mutant: an answer that says "retry" is retried.
Final_RetriesErrors(reply) ==
  reply.kind \notin {"redirect", "timeout", "lost", "noleader"}

\* Whether request() returns the reply.
Final(reply) == reply.kind # "redirect"

\* recvLine returns a reply.
Answered ==
  /\ pc = "wait" /\ conn.replies # <<>>
  /\ LET reply == Head(conn.replies)
     IN  \/ /\ Final(reply)
            /\ Return(reply.kind, reply.of)
            /\ conn' = [conn EXCEPT !.replies = Tail(@)]
         \/ /\ ~Final(reply)
            /\ Again(Follow(reply.to))
            /\ UNCHANGED <<oneShot, script, turn, tried, answer>>
  /\ UNCHANGED <<sends, silent, calm, jobs, entries, cluster>>

-----------------------------------------------------------------------------
(* The servers.                                                             *)

\* The connection after the server's reply to job j, if it is still the one
\* that carried the line; after BYE the server closes.
Replied(j, kind, to) ==
  IF conn.id = j.conn /\ ~conn.broken
  THEN [conn EXCEPT !.replies = Append(@, [kind |-> kind, of |-> j.turn, to |-> to]),
                    !.broken = kind = "bye"]
  ELSE conn

\* handleClientConnection and handleRequest on a line that is no command; an
\* empty one gets no reply.
HandleLine(j) ==
  /\ ~j.parked /\ script[j.turn] # "set"
  /\ conn' = CASE script[j.turn] = "empty" -> conn
               [] script[j.turn] \in {"unknown", "exit"} -> Replied(j, "error", NoServer)
               [] script[j.turn] = "quit" -> Replied(j, "bye", NoServer)
               [] script[j.turn] = "ping" -> Replied(j, "pong", NoServer)
  /\ jobs' = jobs \ {j}
  /\ UNCHANGED <<clientVars, sends, silent, calm, entries, cluster>>

\* executeCommand on a server that is not the leader.
TurnAway(j) ==
  LET s == j.server
  IN  /\ ~j.parked /\ script[j.turn] = "set"
      /\ s \notin leads
      /\ conn' = IF hint[s] \in Server \ {s}
                 THEN Replied(j, "redirect", hint[s])
                 ELSE Replied(j, "noleader", NoServer)
      /\ jobs' = jobs \ {j}
      /\ UNCHANGED <<clientVars, sends, silent, calm, entries, cluster>>

\* executeCommand submits the command and waits.
Submit(j) ==
  /\ ~j.parked /\ script[j.turn] = "set"
  /\ j.server \in leads
  /\ jobs' = (jobs \ {j}) \cup {[j EXCEPT !.parked = TRUE]}
  /\ open' = open \cup {[id |-> j.id, turn |-> j.turn]}
  /\ UNCHANGED <<clientVars, conn, sends, silent, calm, committed, cluster>>

Entry(j) == [id |-> j.id, turn |-> j.turn]

\* executeCommand wakes up: its entry is committed and applied, or another
\* entry was at its index, or kCommitWait has passed, whatever has become of
\* the entry meanwhile or will later.
Wake(j) ==
  /\ j.parked
  /\ \/ /\ Entry(j) \in committed
        /\ conn' = Replied(j, "ok", NoServer)
        /\ UNCHANGED calm
     \/ /\ Entry(j) \notin committed \cup open
        /\ conn' = Replied(j, "lost", NoServer)
        /\ calm' = FALSE
     \/ /\ conn' = Replied(j, "timeout", NoServer)
        /\ calm' = FALSE
  /\ jobs' = jobs \ {j}
  /\ UNCHANGED <<clientVars, sends, silent, entries, cluster>>

\* recvLine of an idle connection times out, and the server closes it.
IdleClose ==
  /\ conn.server # NoServer /\ ~conn.broken /\ crashes < MaxCrashes
  /\ \A j \in jobs : j.conn # conn.id
  /\ crashes' = crashes + 1
  /\ conn' = [conn EXCEPT !.broken = TRUE]
  /\ calm' = FALSE
  /\ UNCHANGED <<clientVars, sends, silent, jobs, entries, up, leads, hint, views>>

-----------------------------------------------------------------------------
(* The cluster (external).                                                  *)

Decide(e) ==
  /\ open' = open \ {e}
  /\ committed' \in {committed, committed \cup {e}}
  /\ calm' = IF e \in committed' THEN calm ELSE FALSE
  /\ UNCHANGED <<clientVars, conn, sends, silent, jobs, cluster>>

ChangeView ==
  /\ views < MaxViews
  /\ views' = views + 1
  /\ \E v \in Views(up) : leads' = v.leads /\ hint' = v.hint
  /\ calm' = FALSE
  /\ UNCHANGED <<clientVars, conn, sends, silent, jobs, entries, up, crashes>>

\* A server dies: its connections break, its handlers are gone.
Crash(s) ==
  /\ s \in up /\ crashes < MaxCrashes
  /\ crashes' = crashes + 1
  /\ up' = up \ {s} /\ leads' = leads \ {s}
  /\ hint' = [hint EXCEPT ![s] = NoServer]
  /\ jobs' = {j \in jobs : j.server # s}
  /\ conn' = IF conn.server = s THEN [conn EXCEPT !.broken = TRUE] ELSE conn
  /\ calm' = FALSE
  /\ UNCHANGED <<clientVars, sends, silent, entries, views>>

Boot(s) ==
  /\ s \notin up
  /\ up' = up \cup {s}
  /\ calm' = FALSE
  /\ UNCHANGED <<clientVars, conn, sends, silent, jobs, entries, leads, hint,
                 views, crashes>>

ClientStep == NextLine \/ Attempt \/ Connect \/ Send \/ NoAnswer \/ Answered

Next ==
  \/ ClientStep
  \/ \E j \in jobs : HandleLine(j) \/ TurnAway(j) \/ Submit(j) \/ Wake(j)
  \/ IdleClose
  \/ \E e \in open : Decide(e)
  \/ ChangeView
  \/ \E s \in Server : Crash(s) \/ Boot(s)

\* The client runs, and its timed waits end.  Nothing is assumed of servers.
Spec == Init /\ [][Next]_vars /\ WF_vars(ClientStep)
-----------------------------------------------------------------------------
EntriesOf(k) == {e \in open \cup committed : e.turn = k}

\* Each request gets the answer to its own line, never the late answer to an
\* earlier one (request: the connection is closed with every lost reply).
OwnAnswer ==
  \A k \in DOMAIN answer : answer[k].kind # "none" => answer[k].of = k

\* What an answer says of the cluster.  An acknowledged command has taken
\* effect.  A command takes effect at most once, plus once for each attempt
\* that ended without a reply; only then is a line sent again to a server that
\* may have submitted it.  An answer other than OK and a timeout means that
\* it has not and will not take effect, unless an earlier attempt was silent.
EffectsMatchAnswer ==
  \A k \in DOMAIN answer :
    LET own == IF answer[k].of = k THEN answer[k].kind ELSE "none"
    IN  /\ own = "ok" => \E e \in committed : e.turn = k
        /\ Cardinality(EntriesOf(k)) <= 1 + silent[k]
        /\ own \in {"lost", "noleader", "unreachable", "error"} /\ silent[k] = 0
           => EntriesOf(k) = {}

\* While one leader is known to all servers that run, a command is carried to
\* it and acknowledged, from whichever server the client starts.
RedirectReachesLeader ==
  \A k \in DOMAIN answer :
    answer[k].calm /\ script[k] = "set" => answer[k].kind = "ok"

\* The client never hangs or goes round for ever: every request returns.
Returns == pc # "prompt" ~> pc \in {"prompt", "exit"}

=============================================================================
