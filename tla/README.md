# Chat262: a verification project

Chat262 is a chat service in three flavours that share nothing but their
purpose:

- `chat262-wire-protocol` (C++): a multi-threaded server with an in-memory
  database, a binary protocol over TCP, and a console client;
- `chat262-replication` (Python, gRPC): three servers that replicate every
  request, and a client that fails over from one to the next;
- `chat262-grpc` (Python, gRPC): the unreplicated ancestor of the former.

This directory holds TLA+ modules that model the first two, the TLC
configurations that check them on small instances, and TLAPS proofs of what
holds for every instance.

    tlc -workers 2 -config MCServer.cfg MCServer      # any pair of the table below
    tlapm DatabaseProofs.tla                          # and the other *Proofs modules

## 1. The system

| Component | State it keeps | Operations | Talks to | What is hard | What makes it correct |
|---|---|---|---|---|---|
| database (`server/database.cc`) | `users_`, each user's `chats_`, `historical_users_`, `threads_` | eight public methods under one mutex | called by the handlers | two copies of each conversation; sessions that name a user by string; a loop that erases from the map it iterates over | the copies agree; sessions keep their account; no correspondent is a ghost; the process stays up |
| server (`server/server.cc`) | one thread per connection and its place in `handle_client` | accept, receive, eight handlers and three error responses, log out and hang up | database, TCP | a handler takes the mutex several times; thread ids are reused; sends fail half-way | what was checked holds when acted on; responses are truthful; every request is answered |
| pattern matcher (`database.cc:178`) | four indices | one loop | called by `get_usernames` | it remembers the last star only | it decides matching, and ends |
| console client (`client/interface.cc`, `client.cc`) | the screen, what was typed, what was received, a listener thread | the screens of `start()`, `background_listener`, one request at a time | server, over one socket shared by both threads | the hand-over of the socket, a condition variable, unsynchronised reads | responses reach the thread that asked; screens match the session; texts are delivered; the listener stops |
| replicated servers (`chat262-replication/server.py`) | the database, its file, leader flag, stubs, counter, last request | `Register`, `Login`, `DeleteAccount`, `SendMessage`, `GetUsers`, `ReceiveMessage`, start-up | later servers, over gRPC | pool threads without locks; crashes at any point; replays | servers agree; nothing acknowledged is lost |
| replicated client (`chat262-replication/client.py`) | the server it uses, who is logged in, the inbox shown | the dialogue, the homepage, a thread that asks for the inbox every second, `send_request` with a time-out of one second | servers in a fixed order | a retry of what may have been done; two threads that fail over with one number | gives up only when all servers are down; the inbox never goes back, and catches up |
| message codec (`chat262_protocol.cc`) | none | serialise, deserialise | everything on the wire | lengths, width of integers | round trips |
| transport loops (`send_msg`, `recv_hdr`, `recv_body`) | bytes sent or read so far | two loops on each side | TCP | partial reads and writes | a message arrives as it was sent |

The rest (logging, command lines, tests, generated stubs, `chat262-grpc`) is
listed in `PROJECT.json` with the reason why it is not modelled. In particular
`chat262-grpc/server.py` has `return` statements outside a function (lines 130
and 134): Python does not compile it, so there is no behaviour to model.

## 2. The modules

    Conversations            what users are promised
         ^ refines
    Database  <-- DatabaseProofs
         ^ extends, refines          ^ extends
    Server    <-- ServerProofs    Interface  <-- InterfaceProofs
    Wildcard  <-- WildcardProofs

    Rounds                   what a connection is promised
         ^ refines
    Wire      <-- WireProofs
         v extends
    Codec

    ChatData                 requests, and what they do to a database
         ^ extends       ^ extends
    Replication      OneServer    what users of the replicas are promised
         ^ extends       ^ refines
    Agreement  ----------+        why the replicas agree and keep that promise
    ReplicationProofs <-- AgreementProofs <-- ServiceProofs

**Conversations** is the abstract specification: accounts that are taken once
and removed once, sessions opened with a password, and one log per pair of
users that both of them read.

**Database** is `database.cc`. Every public method locks `mutex_` on its first
line and releases it on return, so a method is one step, written as a relation
`method(thread, arguments, status)`. The status `thrown` stands for the
`std::out_of_range` of `users_.at`, which nothing catches, and for a fault: the
process ends (`terminated`). `users_[u].chats_[v]` is `chats[u][v]`, with a
flag for whether the entry is there. `delete_user` erases the deleted user from
the chats of each correspondent; if the user is among their own correspondents
this invalidates the iterator, which is undefined behaviour, and the action is
then a choice between the outcomes we know builds to have: a fault, going on to
the end, and taking the freed node's link for the end of the map.

**Server** is `server.cc`: per connection a program counter (`pc`), the request
being handled and the status code to be sent. Each call of the database is a
step of its own, because the mutex is free between two of them; a handler that
calls `is_logged_in`, `logout` and `login` takes three steps. A response may be
sent or its sending may fail; the peer may hang up. Names and passwords that
`handle_registration` refuses are the one value `Invalid`.

**Wildcard** is `wildcard_match`, one action per branch of its loop, with the
indices of the code. `Matches` says what a pattern means without reference to
the algorithm: the name can be cut into pieces, one per character of the
pattern. It assumes that names contain no star, which `handle_registration`
sees to (`server.cc:335`); with a star in a name the first branch of the loop
would take the pattern's star for that character.

**Interface** is the client's two threads, the socket, and `Database` as the
server, with other clients calling it at will. `next_` is the screen as in the
code; `main` and `listener` are the program counters of the two threads. What
a thread does while it holds `mutex_` is one step, and so is what it does
between two requests: the main thread touches what the listener writes only
when there is no listener, which `ListenerConfined` and `SocketExclusive`
state. A handler of the server is one step here, where Server gives it up to
three. That loses nothing: by `CheckThenActIsSafe` what the handler has checked
cannot be changed by others before it acts. Which characters a prompt takes is
not modelled, only what is entered.

**Codec** is `chat262_protocol.cc`, byte by byte: integers are little-endian and
keep their width (the big-endian half of `endianness.h` defines `e_htobe16`
twice and is not modelled), every `serialize` makes a whole message, and every
`deserialize` compares the size of the body with what the lengths in it add up
to before it reads on. The byte arithmetic of the loops is positions in a
sequence; `ParseTable` is the loop over the rows of a chat. What `body_len_`
cannot hold is lost, as in the code; a body of 2^32 bytes is out of the reach
of a run, and excluded by `Fits` in the proofs. The sizes of bodies are compared
as `size_t`, taken to have 64 bits, but the lengths of a table's rows are summed
in a `uint32_t`, which wraps (`InUint32`): a body of any size passes if its
lengths come to 2^32 more than it holds, and its strings are then read past its
end. C++ leaves undefined what that does. `ParseTable` has an outcome of its own
for it, `OutOfBounds`, after which `ResponseBody` ends the process or returns
rows of which nothing is known. The tables that servers make do not wrap when
whole messages move, as `AnswersReturn` shows, and TLC meets none in the runs
(its integers would overflow, an error).

**Rounds** is what `docs/chat262_protocol.md` calls communication rounds: the
client asks, the server answers that request, the client takes the answer.

**Wire** is one connection in bytes: `send_msg`, `recv_hdr` and `recv_body` of
both ends, `handle_client`'s loop around them and one method call of class
`client` after another. The three loops of `server.cc` and the three of
`client.cc` are the same, so `Send` and `Recv` take the end as a parameter. The
code passes the front of the message, or of the buffer, and the full length to
every `send` and `recv`: a call that moves less than it could (`Pieces`) makes
the next one start at the front again, and a total that has gone past the
length never equals it. Of such totals only "past" is kept. A socket closed
with unread bytes resets the connection; bytes sent to a closed socket do, too.
A handler may give any answer that handler can give; what it does to the
database is in Server, where a message moves in one step. `Rounds` and
`RoundEnds` are what justifies that step.

**ChatData** is the requests of `chat.proto` and what the handlers of
`server.py` do to a database with each once `replicate` has returned: whether it
is accepted (`Accepts`), what it changes (`Executed`), and what it leaves behind
(`Reflects`), by which a repetition is known. Login, GetUsers and ReceiveMessage
change nothing (`ReadOnly`).

**Replication** is three servers and their clients. gRPC runs each call in a
thread of a pool, and there is no lock, so a handler is a task; its code
between two calls of its own is one step (CPython's interpreter lock does not
make it so: a finer interleaving has more behaviours, and the one divergence
that runs find without any failure, `replicas_diverge`, needs no finer steps).
`storeData` is two steps, since a crash can fall between the truncation and the
dump. A call that is answered, a call that fails and a server that crashes with
its tasks are steps of their own; the tasks of a crashed caller live on. A task
has a name, and a call under the same name waits until a handler that an earlier
call left behind has ended (`Call`).

The client is `do_start`: it asks for accounts until it is logged in, asks for
the inbox and the users, and then has two threads. A task is named by the
client's thread and the servers the call went through. `chat_stub_lock` is
taken before `send_request` and held for as long as it tries servers. That is
what lets `connect` and `curr_leader` do without a lock of their own:
`Poll_unlocked`, the inbox thread without the lock, makes the two threads skip
a server. Of the inbox only its length is kept; `num_messages` is what the
program shows, and `acked`, which the program does not have, counts the
messages to oneself that were acknowledged, against which the inbox is
measured. `Leave` is the user who ends the program and starts it again; since
the names of its tasks are used again, the bound is that they have ended.

**OneServer** is the abstract specification of the replicas: one database, and
clients that ask, wait and are answered. A request that somebody waits for may
be executed more than once, since a client asks again when its server has gone;
an answer comes after an execution and tells what is in the database at that
moment; the service fails only for good.

**Agreement** defines how OneServer's state is found in that of the replicas,
and the invariants that the proofs rest on. A request that changes something
runs at one server, the *root*, which calls the later servers one by one; their
handlers are its *children*. The database of the service, `CommonDb`, is that of
the leader, which executes after all others; while there is no leader, or the
new one still replicates its predecessor's last request, it is that of the last
server that is up (`Current`), to which requests come last.

## 3. What the runs check

| Run | Module, instance | What it shows |
|---|---|---|
| `database` | MCDatabase: 2 users, 2 threads, 2 passwords, 2 contents, copies of up to 2 texts | copies mirror each other, sessions keep their account, and `Conversations` is implemented, in every order of method calls, undefined behaviour included; as long as no account is open twice and nobody writes to themselves, correspondents exist and the process stays up |
| `server_runs_indefinitely` | 1 password, as above | **violation**: deleting an account that is open on another connection makes that connection's next request end the process, against `docs/server.md:22` |
| `delete_is_complete` | 2 users | **violation**: deleting a user who has written to themselves may leave chats behind, against `database.h:77` |
| `server` | MCServer: 2 connections, 2 users | check-then-act is safe, thread ids come back without a session, responses are truthful, the handlers implement the database, every request is answered |
| `wildcard` | MCWildcard: all patterns and names up to 4 characters over 2 letters | the matcher is right and ends; the loop invariant of the proof holds |
| `interface` | MCInterface: this client and another, 2 users, up to 2 texts | one thread at a time on the socket, screens and session in step, what is drawn is what is stored, delivery while typing, the listener stops |
| `wire` | MCWire: one connection, 11 requests of all types and the 3 garbled ones of `tests/test_wrong_message`, lists and chats of 0, 1 and 3 rows; 57 thousand states | while whole messages move, requests and answers arrive as they were meant, and the connection implements `Rounds`; whatever moves, the server's thread ends when the client is gone |
| `wire_partial_reads` | the same, one short call | **violation**: a status code that comes as 1 + 3 bytes is read as 0, success, against `client.h:210` and `server.h:69` |
| `replication` | MCReplication: 1 client with both its threads, 3 requests, up to 3 crashes; 149 thousand states | the replicas implement `OneServer`; servers agree, acknowledged requests are everywhere, only repetitions are dropped, the client gives up rightly, all its threads are answered, the inbox never goes back and catches up; `AInv` and `ServiceInv`, on which the proofs rest |
| `replication_faults` | 1 client, 2 requests, a crash, a restart, a late answer; 534 thousand states | types and files stay right under the faults that `replication` excludes |
| `replicas_diverge` | 2 clients, 1 request each, no faults | **violation**: two requests handled at once get one number, and followers drop one of them, against `README.md:38` of the flavour |
| `leader_drops_its_own` | 2 clients registering 2 accounts, 1 crash | **violation**: a leader whose call to the last follower fails drops its own client's request and reports success, against `server.py:108` |

Two more places where the text says something else than the code does, without a run of
their own. `docs/chat262_protocol.md:442` says that the sender indicator is 1
for one's own text; the code stores `sender_you`, 0, in the sender's copy
(`chat.h:8`, `database.cc:103`), and both ends agree on that. The comment at
`chat262-replication/server.py:247` says that `ReceiveMessage` removes what it
returns; it does not, and `InboxNeverShrinks` would be violated if it did.

### Bounds

- `MaxTexts` (2): no copy of a conversation grows further. Two texts give every
  order of two authors, and a text to oneself already makes two entries. In
  MCServer and MCInterface the bound holds back only the arrival of a request
  (texts under way are counted), never a step of a thread.
- Users: two make a conversation. A deletion with several correspondents is not
  in the runs; the theorems of Database cover any number.
- Threads: two connections suffice for every pairwise interference: a shared
  account, a deletion under an open session, a reused thread id.
- `peer` and `NoChatWithSelf` (MCInterface): the other clients log in as one
  user only, and nobody writes to themselves there; Database is checked with
  such texts on its own.
- `MaxRequests` (3 per client, what the user types; the homepage and the inbox
  thread ask without limit): register or log in, then send twice, with the inbox
  asked for at any point; or delete and register again.
- `Pieces` ({1, 3, 4}), `MaxCuts` (2): a status code cut in the middle, a header
  cut in halves, and two cuts of one loop, which can make a total reach or pass
  its length.
- Strings of 0 to 2 bytes: every length is told from its neighbours, and a
  position off by one row or one width reads another text.
- `MaxCrashes` (3): all servers may go, one after the other and at any step.
- `MaxRestarts`, `MaxTimeOuts` (1 in `replication_faults`, otherwise 0).
- `MaxPattern`, `MaxTarget` (4): two stars with characters between them, and a
  repeated prefix after a star.

### What `replication` assumes, and what happens without it

The flavour's README promises agreement and tolerance of two failures for one
client. The run `replication` shows it for servers that fail by stopping. Each
assumption is needed; with it dropped TLC finds the servers disagreeing:

- *One request at a time* (one client): the runs `replicas_diverge` and
  `leader_drops_its_own`. The client's
  second thread only reads, so it is no exception.
- *A crashed server's calls end before its client tries the next server*
  (`Settled`): a late call of the old leader can reach the last server under
  the number the new leader uses for the next request.
- *No restarts*: a restarted server has an old file, counter 0, and, if it is
  server 0, the leader's role.
- *No answer of a live server takes over a second*: the client leaves a leader
  that still works, and two leaders number their requests independently.

With several clients `InboxNeverShrinks` goes with the agreement: what one
client sent reaches the inbox of another before the later servers have it, so
the other may fail over to a server that lacks what it has shown.

### Deadlock

All runs say `CHECK_DEADLOCK FALSE`, because all systems here do stop: the
server process may end (Database, Server), `start()` returns (Interface), a
client has made its requests or found all servers down (Replication), the
matcher returns (Wildcard), both ends of a connection close (Wire). That nobody is stuck is what the liveness
properties say: `Answered`, `ListenerStops`, `Delivered`,
`EveryRequestAnswered`, `InboxCatchesUp`, `RoundEnds`, `ThreadEnds`, `Terminates`.

### Fairness

- Server: weak fairness of each thread's own steps (`Work`). A thread that can
  run is scheduled, and the mutex is held for one database call at most. No
  peer has to send or to hang up, but it has to take what it is sent: `send`,
  which blocks once the peer's window and the buffers are full, is assumed to
  return.
- Interface: weak fairness of the main thread, of the listener, of the server
  and of the closing of sockets when the server process has ended. The user and
  other clients are under no obligation, and connections need never break. A
  spurious wake-up of the condition variable leads back to the wait and is a
  stutter; the wait ends because time passes.
- Wire: weak fairness of each end's thread, and of what TCP reports to it: the
  end of the stream or a reset. Nobody has to call or to leave. An end that
  goes (`Break`) is a process that exits or is killed, on a host whose kernel
  tells the other end. A host that loses power tells nothing; the code sets no
  keep-alive and no time-out, so a thread that receives from such a host stays,
  and `ThreadEnds` does not speak of it.
- Replication: weak fairness of each task, of a client's thread that has its
  answer or an exception, and of the client asking for the homepage, the users
  and, again and again, the inbox. A lock is not fair, but the user types
  finitely often, so that the other thread gets it in the end. Nobody has to
  crash or to be started again.
- Wildcard: the loop goes on; the thread holds the mutex and waits for nothing.

## 4. What is proved

For every set of users, passwords, contents, bodies and requests, any number of
threads, connections, crashes and steps, and for patterns and names of any
length:

| Theorem | States |
|---|---|
| `TypeCorrect`, `CopiesAgree`, `SessionsKeep` (DatabaseProofs) | the invariants `TypeOK`, `ChatsMirror` and the action property `SessionsKeepTheirAccount` of Database |
| `ConsiderateClientsAreSafe` | `SafeUse` |
| `Refinement` | Database implements Conversations |
| `ConnectionsStartLoggedOut`, `CheckThenActIsSafe`, `ServerTypeCorrect` (ServerProofs) | `FreshThreadsLoggedOut`, `GuardStillHolds`, `STypeOK` |
| `ResponsesAreTrue` | the action property `RepliesTruthful` |
| `ServerRefinesDatabase`, `ServerImplementsConversations` | Server implements Database, and hence Conversations |
| `WInvariance`, `MatcherIsRight` (WildcardProofs) | the loop invariant; `wildcard_match` returns true iff the name matches |
| `IInvariance`, `InterfaceTypeCorrect`, `OneThreadOnTheSocket`, `ListenerStaysOnChat`, `ScreensTellTheSession`, `AlwaysAuthorized`, `ScreenShowsTheChat` (InterfaceProofs) | `IInv`, and from it all six safety properties of the run `interface` |
| `RInvariance`, `ReplicationTypeCorrect`, `DiskHoldsDatabase` (ReplicationProofs) | `RInv`, `RTypeOK`, `DiskIsCurrent`, for any number of clients, crashes, restarts and late answers |
| `ClientsGiveUpRightly` | `GivesUpRightly`, for any number of clients |
| `AgreementInvariance`, `ServersAgree`, `AcknowledgedOutlivesCrashes`, `OnlyRepetitionsDropped` (AgreementProofs) | `AInv`, `ReplicasAgree`, `AcknowledgedEverywhere`, `DropsOnlyRepetitions` |
| `ServiceInvariance`, `InboxGrows` (ServiceProofs) | `ServiceInv`, `InboxNeverShrinks` |
| `ReplicasImplementOneServer` | Replication implements OneServer |
| `RequestsCarry`, `AnswersReturn` (WireProofs) | the codec: what every request means and every answer tells is read back from its bytes, whatever the strings in it |
| `WTypesHold`, `WTyping` | the loops stay within their lengths; `WTypeOK`, for pieces of any size and any number of them |
| `WInvHolds`, `WhatIsAskedArrives`, `WhatIsAnsweredArrives` | `WInv`, `RequestsArrive`, `AnswersArrive`, for any number of calls |
| `ConnectionsImplementRounds` | Wire implements Rounds |

**Database.** `ChatsMirror` is not inductive: a new user starts with no chats,
and mirrors whatever others hold about that name only because nobody holds
anything. `DBInv` adds `History`: whoever exists or is in a session has been
registered, and a name that never was registered occurs in no chat.
`historical_users_` never shrinks, so a name cannot come back, which is also
why a session keeps its account. For `SafeUse` there is a second invariant,
`SafeInv` (no dangling correspondent, no chats of a user who is gone, no
session of one), which each step preserves as long as the clients are
considerate before and after it; the temporal argument is then that
`[]Considerate` carries it along. The refinement maps an account to free, live
or gone, and a pair of users to what one of the two copies tells; `DBInv` makes
the choice irrelevant (`LogOfPair`).

**Server.** `SInv` adds what a step knows of the request (`RequestInv`: only
`handle_login` logs out on its way, and a registration that reaches the
database is valid). The key lemma is `MethodIsLocal`: a method called by one
thread changes no other thread's session, so what `is_logged_in` said stays
true until the thread itself acts. `ResponsesAreTrue` rests on the same guard:
`handle_logout`, `handle_correspondents` and `handle_delete` answer OK without
looking at what their method returned, and may.

**Wildcard.** `WInv` says that what lies behind the last star is rigid: in
every cut of the whole name it takes exactly as many characters as it has, and
it begins no earlier than `saved_target`. A mismatch therefore rules out the
current beginning in every cut (`Stuck`), so that moving on by one loses
nothing, and forgetting the earlier stars is harmless because the last one
begins as far left as any cut allows.

**Interface.** The socket has no lock. `IInv` says when it is empty, and what it
holds otherwise: while a thread waits, one request of the kind it waits for, or
one response to it (`SocketInv`), so that at most one of the two threads waits.
The screens follow the program counters (`ScreensInv`), and a member is logged
in until the response to a logout or a deletion is on its way (`SessionInv`).
For the chat screen it has to say what a response that is still in the socket
tells, since other connections go on writing: the texts it holds are a prefix of
what the server has (`Reflects`), and stay one because copies only grow and a
removed name never comes back, `History` again. The proof needs none of the
bounds of MCInterface.

**Replication, types and disks.** `RInv` adds what handlers rely on: only
servers that are up work, stubs lead to later servers, and only requests that
change something are replicated (`StubsInv`, `TasksInv`); a thread waits at a
server its program has reached, for a request of its stage, and, when there are
two threads, with the lock (`ProgramInv`). That last part is also why the name
of a new task is free. Nothing is assumed of the faults here. `LeftServersDown`
adds, without restarts and late answers, that a server which a client has left
is down, and one which it waits for works on its request;
`ClientsGiveUpRightly` follows.

**Agreement.** The proofs about agreement assume what section 3 shows to be
needed, and nothing of the number of requests or crashes: one client, `Settled`,
`MaxRestarts = 0` and `MaxTimeOuts = 0`. Then the handlers of one request form a
tree of two levels. Only the server that the client is at can be a root, all
servers before it are down, and at most one child works, which may outlive a
root that crashed (`PlacesInv`, `RootInv`, `ChildInv`). `DataInv` says of any two
servers that are up how their databases and numbers may differ, by what the root
is doing: the later server is in step with the leader, or has what the leader is
about to execute (`LeaderInv`); of two followers, either both have the last
request, the later one under the next number, so that it knows a replay by the
other for a repetition (`Matched`), or the later one lacks it, and executes the
replay (`Behind`). A request that no server had could be dropped only under a
number that is not new, and those are given out by nobody who is still up.
That a dropped request has been executed is part of `ChildInv`;
`OnlyRepetitionsDropped` is read off it, `AcknowledgedOutlivesCrashes` off
`RootInv` and `LeaderInv`, `ServersAgree` off `DataInv` when the root is gone.

**Service.** `CommonDb` moves when the last server that is up executes a request
before there is a leader, when the leader executes, when a new leader ends its
replay, and when a crash makes another server current. In each case it becomes
what executing the client's request makes of it, or stays (`Served`). For that
a handler that is about to begin must have been sent what the client waits for
(`SentInv`), and a replay that changes the last server must be of that same
request (`RetryInv`), which holds because the client has been answered for all
earlier ones. `ToldInv` says that an answer on its way is true of the server
that gives it, `InboxInv` that every server that is up has the messages that the
client has shown; when the answer comes, all servers have one database
(`Settles`), so that it is true of `CommonDb`.

**Wire, the codec.** `Holds(data, i, s)` says that the bytes of `s` stand in
`data` behind the first `i`; concatenating keeps it, and `SubSeq` at the same
place gives `s` back. A message is then a list of such facts, and the positions
that `deserialize` computes are those at which `serialize` put things. For
tables (`TableReturns`) this needs induction over the rows: `Concatenation` is a
fold, so its partial sums are named first (`Prefixes`), and the reader's sums of
the lengths it has read are shown to be the same numbers (`TableEnds`). An
integer of four bytes comes back if it fits 32 bits (`Fits`). The three garbled
messages of `tests/test_wrong_message` are refused for the reason they were
garbled (`GarbledCarries`).

**Wire, the connection.** `WTypesHold` needs nothing but `Want` being a length:
the counter stops one past it. `RequestsArrive` and `AnswersArrive` look at the
end of a round only. `Round` says where the bytes are on the way: before the
server whole, or behind their header, or read (`Unread`); the answer ready to be
sent (`Ready`), before the client, behind its header, or read (`Replied`); and
that nothing else is under way (`Quiet`). The case that makes it long is the
refusal of a wrong version, after which the server closes with the body unread,
so that `Last` allows bytes that nobody will receive. An end may also send to
one that has closed, any number of times, until it is told. `Round` makes every
header that is read the header of the right message, so that `validate_hdr` never
refuses one and the body has the length that is waited for; with the codec's
theorems the rest follows. `WInv` claims nothing once a call has moved less than
it could: `wire_partial_reads` shows that there is nothing to claim. The
refinement maps the connection to the phase it is in (`Phases`); only `Call`, the
server's making its answer ready, the end of the client's `recv_body`, the first
partial call and closing are steps of Rounds.

The proofs assume of the constants what their modules state: that `Absent` is
no name and no password, `Invalid` neither, that names contain no star, that
`me` is a thread, that requests are ones that users make, and that `None` is
none of the things it stands for the absence of. Of Wire they assume that calls
and answers are made of strings of bytes, that there is some list and some chat
to answer with, and that every message is short enough for `body_len_`.

Only model-checked: liveness (`Answered`, `Terminates`, `ListenerStops`,
`Delivered`, `EveryRequestAnswered`, `InboxCatchesUp`, `RoundEnds`,
`ThreadEnds`), which under fairness is beyond the proof system. Every other
property of a passing run is proved. `Matches`, `Conversations`, OneServer and
the codec are written without recursive operators so that they can be proved
about. The library's induction theorems take an operator and cannot be used
here; where the proofs need induction over numbers they take the least element
of a set instead (`LeastNat` in WireProofs).

## 5. What is not modelled

- Messages of 2^32 bytes and more, of which `body_len_` keeps the remainder only;
  and what is in the rows of a table whose lengths wrap (`OutOfBounds`).
- Hosts that die without a word, and peers that never read.
- A limit on descriptors and threads: `server.cc:147` starts a thread for a
  failed `accept`, too; it returns at line 155.
- What the kernel does to a socket beyond order, pieces, end and reset.
- In Wire, the memory behind the buffer: a `recv` at the front of the buffer
  with its full length stays inside it, so nothing else is written.
- Keys, drawing, logging, command lines.

## 6. Plan

Done: every module above with its runs, and the proofs of section 4. What could
come next:

1. Replication with several clients: which of the invariants of Agreement hold
   for a client whose requests nobody else's overtake.
2. Wire with pieces: a bound on what may be read wrongly after the first partial
   call, for instance that the server's thread handles no request twice.
