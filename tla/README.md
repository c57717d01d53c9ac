# A TLA+ model of the distributed matchmaking system

The repository is a chat system in Go. A **Central** server knows the users and
the chat servers, matches two users who want to chat, picks the chat server that
suits both, and moves the chat when the delays change. **Chat servers** relay
messages between the members of a room. **Clients** measure their delay to every
chat server, ask for chats, accept them and follow redirects. A TLS prototype in
`src/TLS`, with an echo client and server of its own, is not connected to the
rest.

The modules here model what these processes do to shared state and to each
other, TLC checks them on small instances, and TLAPS proves the theorems below
for every instance. `PROJECT.json` lists, for every definition, the lines of code
it stands for.

## 1. Inventory

| Component | State | Operations | Talks to |
|---|---|---|---|
| Server selection (`matchmaking.go`, `compute_optimal_server`) | locals of one call | a loop over a map in any order, a random choice | called by the match handlers and by the sweep |
| Chat table (`client/store.go`, `backgroundAnalysis`) | slice of chat instances, delay lists | insert, remove by user, the sweep every few seconds | match handlers insert while the sweep runs; delay reports arrive over HTTP |
| Chat relocation (`backgroundAnalysis`, `StartChat`) | each client's chat connection, its listener on port 3003 | join, redirect, follow, fail, quit | Central dials both clients of a chat it moves |
| Match requests (`handleConnection`, `requestMatch`, `StartMatchmaking`, `startMatchMaking`, `AcceptMessageRequest`) | lines on three TCP connections, pages of the user interface, the list of chat requests | ask, deliver, accept, decline by closing, poll, send the server, record | two goroutines per request at Central, two at the requester, one at the target |
| Client store (`client/store.go`, `client/api.go`) | two maps and a slice under one RWMutex | Create, Read, ReadByUsername, Delete, UpdateDelayList, GetDelayList, InsertChatInstance, removals | HTTP handlers, match handlers and the sweep |
| Service registry (`service/store.go`, `service/api.go`, `heartbeat.go`) | last heartbeat of each server, the job's `registered` flag | POST, PATCH, DELETE, GET, ticks | chat servers send, clients read |
| Chat server (`chat.go`) | connections of each room, one mutex | join, read, broadcast | clients |
| Client chat session (`chatPage`, `StartChat`, `SendMessage`, `splitMessages`) | current connection, redirects on their way, the unfinished line | send, receive, split, show, accept a redirect, follow it | chat server, Central; two goroutines of the client |
| Delay measurement (`client.go`) | delays of a round, Central's copy of them | ping rounds, a report after every ping | Central, chat servers |
| Client start-up (`client_runner.go`, `client.go`) | the goroutines behind the loading bar, the name at Central | register, initialize, listen, exit | Central |
| Text user interface (`client_runner.go`) | pages | draw | the parts above, of which its pages are states |
| TLS prototype (`src/TLS/tls`) | two handshake controllers, secrets, ciphers, transcripts | eleven handshake messages, records, Read and Write | each other |
| TLS demonstration programs (`src/TLS/client.go`, `server.go`) | a prompt loop, an echo loop | send, echo, exit | each other |

What is hard in this code: goroutines that share slices and maps, two of them
under the wrong lock; a loop that ranges over an array it shifts; protocols of
several lines where each side may vanish between any two of them; redirects sent
to clients that do not listen yet; connections that are dropped without being
closed and live until the garbage collector closes them; heartbeats that are
lost or late against a fixed window, with either process restarting; broadcasts
that block on a full connection while they hold the only mutex; a byte stream
that is cut anywhere, while the connection it comes from is replaced; a client
that goes on after a failed start-up; two ends of a handshake that must agree on
what they have seen. `PROJECT.json` lists these as hazards, each at its line.

What makes each part correct: the selection returns an optimal server; the sweep
gets to every chat and the table settles on optimal servers, as long as the store's
calls do not overlap; partners are told
the same server; nobody enters a chat without acceptance and nobody waits for
ever; maps are not written while they are read and usernames are unique; live
servers are listed and dead ones are not; a room is one log that its members
read without gaps; a client shows the lines it was sent however they arrive and
follows redirects in order; its reports become complete and forget dead servers;
the ends of a TLS connection agree on keys and transcript and no end waits for
ever.

## 2. Modules

| Module | Models |
|---|---|
| `Selection` | delays, the latency of a server for two clients (float32: sums are rounded, swallowed or overflow), what an optimal server is |
| `ServerSelection` | `compute_optimal_server`, one action per way through the loop body |
| `ChatInstances` | the slice of chat instances as Go has it: backing array, length, append in place or to a new array, removal by shifting |
| `ChatTable` | match handlers, delay reports and the sweep over one slice |
| `Relocation` | `ChatTable` composed with clients: the redirect step of the sweep now acts on their connections |
| `Matchmaking` | a request from menu to chat, on all sides |
| `RWMutex` | `sync.RWMutex` (external): a waiting writer keeps new readers out |
| `ClientStore`, `ServiceStore` | the calls of the two stores, access by access, under the locks they take |
| `ServiceRegistry` | registration, heartbeats and the listing window in seconds of time |
| `ChatServer` | `handleClient` and `broadcastMessage`, the connections with a finite capacity, clients that join, send, abandon and quit |
| `RoomLog` | the abstract specification of a chat server: one log per room, which members read from where they joined; `ChatServer` implements it |
| `ChatSession` | one client in a chat: `chatPage`, `StartChat` with its accepting and its reading goroutine, `SendMessage`, `splitMessages`, against servers and a Central that redirects |
| `ClientJobs` | a client process from start-up to exit: Register, Initialize, the request listener, the ping job, against a Central that restarts and a network that changes |
| `TLSRecord` | record layer (16 bit length, padding) and key derivation, the cryptography as algebra |
| `TLSSession` | the two handshake controllers message by message, Read and Write, the echo client and server, over a connection that may break |
| `ServerSelectionProofs`, `RelocationProofs` (with `ChatTable`), `ClientStoreProofs`, `ServiceRegistryProofs`, `MatchmakingProofs`, `ChatServerProofs`, `TLSSessionProofs`, `ClientProofs` (of `ChatSession` and `ClientJobs`) | theorems |
| `MCServerSelection`, `MCChatTable`, `MCRelocation`, `MCClientStore`, `MCChatServer` | constant functions and operators for TLC |

How state and actions correspond to the code:

- **ServerSelection.** `client1`, `client2` are the delay lists, `unvisited` the
  keys the map iteration has yet to deliver, the other variables the locals of
  the same name. `Skip`, `NewMinimum`, `Tie` and `Worse` are the branches of the
  body, `Return` the random choice or the error. A delay is a natural number
  that a ping may measure (`Measured`), or `MaxFloat32`, which a client reports
  for a server that is down or not yet measured. The sum is a float32: two
  measured delays are rounded (`Round`, any rounding that stays below
  `MaxFloat32`), `MaxFloat32` and a measured delay give `MaxFloat32` again, and
  twice `MaxFloat32` overflows to +Inf, which is larger than `MaxFloat64`, the
  value the loop starts with.
- **ChatInstances and ChatTable.** A slice is its whole array and its length, so
  cells behind the length keep what was there. `sweep` holds the program counter
  and locals of `backgroundAnalysis`; while `aliased` holds its range loop reads
  the table's own array, and after an append that reallocates it reads the old
  one. The calls between which the store's lock is released (`RemoveFirst`,
  `RemoveSecond`, `Reinsert`) are steps of their own. `missing` records which
  chats the running sweep has yet to look at, for the properties only. The calls
  themselves are single steps here. The code takes only the read lock for them,
  so this is the system until two of them overlap, and no property of this module
  says that a chat is never lost; `ClientStore` has the calls access by access,
  and `AsIfAtomic` says that up to an overlap they are what is modelled here.
- **Relocation.** `chat[u]` is the server a client is connected to, or why it is
  not. `redirects[u]` is the queue of connections on port 3003. When one of the
  two dials fails, the connection that was opened stays open with nothing
  written to it (`Leaked`), and its reader blocks until it is collected.
  The client's loop takes a redirect only in its `select`. Between two of them it
  is in the Read of its chat connection for as long as the server says nothing:
  `ReachSelect` is the end of that Read.
- **Matchmaking.** A request is one `handleConnection`, and its number serves as
  its room. `handler` and `matcher` are the program counters of `handleConnection`
  and `requestMatch`, `runner` that of the goroutine on the requester's
  matchmaking page, `page` what a client shows. Lines are FIFO per connection.
  A name field left empty (`NoName`) sends no bytes, so Central blocks in Read.
  The selection is any server or the error: which one is `ServerSelection`'s
  matter. What `InsertAndClose` does to the table is `ChatTable`'s and
  `ClientStore`'s. Users whose registration failed reach the menu all the same
  (`Unregistered`), because the loading bar takes an error for success.
- **ClientStore and ServiceStore.** A call takes the lock, does up to three
  accesses and unlocks; a goroutine waits in `CallLock`/`Enter` as Go's RWMutex
  makes it wait. The slice of chats is a header (`chatInstances`: which array, how
  long) on a heap of `arrays` that are never freed. `InsertLoad`, `InsertWrite` and
  `InsertStore` are the read of the header, the write of the cell (in place or in a
  new array) and the write of the header in `s.chatInstances = append(...)`;
  `RemoveScan`, `RemoveShift` and `RemoveStore` are the search, the second read of
  the header with the shift, and the write of the header in
  `RemoveChatInstancesForUser`, and `RemovePanics` is the failed bounds check when
  the slice has become too short in between. `table` is a history variable: what
  the same calls would have made of the slice one after another, with the operators
  of `ChatInstances`; `overlapped` says whether two of them have ever overlapped.
- **ServiceRegistry.** Time advances in seconds and not past a due tick or a due
  request. `heartbeat` is the age of the entry; `registered`, `ticker` and
  `request` are the state of the heartbeat job. A request whose sender has
  crashed may still be handled. `PatchService` creates the entry again, which is
  how servers come back after Central has restarted.
- **ChatServer.** `toServer` and `toClient` are what is on its way; a client's
  writes are separate items that the server may read in one go, which is why
  `ReadJoin` may swallow the messages behind the join line. `clientMutex` is
  `cm.clientMutex`, held through a broadcast; a write to a full connection blocks.
  `log`, `start` and `said` are history variables: what was broadcast in each
  room, how long the log was when a connection was added, and the number of a
  connection's last message in the log. They are `RoomLog`'s variables too; its
  `shown` is `received`.
- **ChatSession.** Connection *n* is the *n*-th that the client dials. The stream
  carries texts and newlines as tokens, and a Read takes any number of those that
  have arrived; `splitMessages` is `Parts` and `Rest` of what has been read.
  `backlog`, `handed` and `taken` are where a redirect can be: waiting for Accept,
  in the accepting goroutine's blocked channel send, in the loop. `silent` holds
  the redirect connections that Central dropped without writing. `DialNew`
  replaces `currentChatConn` before the join line is written, and `SendMessage`
  may use it in between; a server that reads another line first closes the
  connection (`HandleJoin`). What a server reads at once is taken to fit its buffer
  of 1024 bytes, so that it broadcasts whole lines. `heard` is a history variable.
- **ClientJobs.** `runner` is where the start-up is, `register` and `initialize`
  are the goroutines behind the loading bar, which takes any value on the result
  channel for success. `ServerRegistry` and `toPing` are the map a round starts
  with every server at `MaxFloat32` and the servers it has yet to ping; every
  ping is followed by a report. A request reaches a Central that is up or fails,
  and a registration may be entered although its answer is lost. `owner` is who
  has the client's name at Central. A registration of another name from the same
  address overwrites the entry (`SameAddressRegisters`), because `Create` compares
  usernames only.
- **TLSRecord and TLSSession.** Each end is one goroutine, one record per step.
  A sealed payload names its cipher and is opened only by the same one; a cipher
  is named by what it was derived from; a signature or a Finished hash names the
  secret and the history it covers. Sizes are bytes: a record header carries the
  size modulo 65536. A message is its text and its size; `Read` hands on the whole
  buffer, so what is shorter arrives padded with zeros to `BufferSize` and what is
  longer arrives cut. Handshake handlers keep the code's names. An end that gets an
  error closes its side; a nil connection after an unreadable certificate, and a
  record of exactly one block, panic.

## 3. Runs

| Run | Expected | What it shows |
|---|---|---|
| `selection` | pass | For all pairs of delay lists over three servers and all visiting orders, the result is an optimal server; one that a client cannot reach is a last resort, and one that neither can reach the very last. |
| `chat_table` | pass | While sweeps and handlers interleave (store calls that do not overlap), the loop never examines an outdated record, a re-route makes the running sweep skip at most one chat, no chat is skipped for ever, and the table settles on optimal servers. |
| `relocation` | pass | A redirect reaches both partners or neither; partners who stay, and who go on hearing something from their servers, meet on one server. |
| `relocation_lost` | violation | A chat moved before a client listens is never moved again. |
| `matchmaking` | pass | Nobody enters a chat that was not accepted, partners agree on room and server, no send on a closed channel; accepted requests end on both sides, and Central's hanging up strands a requester only when the user it asked has gone. |
| `client_store` | pass | No map access during a write, unique usernames; until two calls that write the slice of chats overlap, the slice is what they make of it one after another; every call returns, unless an overlap has made a removal panic. |
| `service_store` | violation | `Patch` writes the map under the read lock while `Read` ranges over it. |
| `service_registry` | pass | Live servers are listed and dead ones dropped, across losses, delays and restarts of both sides. |
| `chat_server` | pass | The server implements `RoomLog`: one order of messages per room, none twice, none in another room, no gaps; what the server has read reaches every member who stays. |
| `chat_session` | pass | The page shows the lines of the stream however it is cut into reads, and a line is one server's unless a redirect cut it; redirects are followed in order, and by every client that hears something; a message sent in a joined room comes back. |
| `client_jobs` | pass | A confirmed name stays the client's own until Central restarts or the client's address registers another name; a client in the menu without its name had an error, or was forgotten or replaced; start-up ends; delay lists become complete again and again; the delay of a dead server does not survive. |
| `tls_session` | pass | The ends agree on secrets, transcript and ciphers, neither refuses what the other wrote, the client never finishes alone, each answer is its message cut at the buffer or padded to it, and nobody waits for ever. |

Only `chat_table` has its type invariant checked in a run, because it relates the
sweep's array to the rooms. In the other modules `TypeOK` documents the variables
and is proved where section 4 says so.

The two violations are disagreements between the code and a comment or the
project report; the findings in `PROJECT.json` quote both.

### Bounds

- `selection`: three servers, measured delays 1 to 3 and the unreachable value.
  Two servers can tie while a third is better or worse, and a list may lack any of
  them. Sums keep two significant bits, so that different sums are rounded to the
  same one. The proofs cover every other number and rounding.
- `chat_table`: three chats and two servers, at most `MaxUpdates` = 2 replaced
  delay lists. Three records let a removal shift a record behind the loop and
  one ahead of it, and let an append find the array full (capacities 1, 2, 4).
  Two replaced lists make a chat move and move back.
- `relocation`: two chats, two servers, `MaxPending` = 2 redirects waiting at a
  client. Two chats are enough because the sweep treats chats one at a time: the
  second one is there to fail. One user of it may quit and may fail to dial, so
  that the other chat runs next to failures; `relocation_lost` needs neither.
- `matchmaking`: three users, two requests, two servers. Two requests cover
  requests that cross, two requests for one user, a request for oneself and a
  second try; the third user can be mistaken for a partner. Two of the three ask
  (`MayAsk`), one of them registered and one not (`Unregistered`), and the
  registered one may quit at any moment (`MayQuit`), so that it is gone as
  requester and as target.
- `client_store`: two goroutines, one of which is the sweep and removes, two
  addresses, one name that is registered, two chats and `MaxCalls` = 4 calls:
  enough for two registrations of one name, for insertions into an empty, a full and
  a spare array, for removals of the last and of an earlier entry, and for every
  overlap of two calls. The panic needs all four: an insertion that started on the
  empty slice stores its short header while the sweep, after two insertions, has
  found the second entry. The theorems cover any number.
- `service_registry`: the code's 3 and 10 seconds, one second of delay and two
  lost requests in a row, the most the window allows for: (2 + 1) * 3 + 1 = 10.
  Clocks stop at `Cap`, beyond every value a property compares. One server is
  enough because no action or property relates two of them.
- `chat_server`: three connections in two rooms, connections that hold one
  message (`Capacity`), four messages. Capacity 1 makes a broadcast block as
  early as possible; the other room shows what the shared mutex does to it.
- `chat_session`: two redirects (`MaxRedirects`) are enough to overtake each other,
  one message of the user and two of the partner make reads that cut a line and
  reads that hold several; the first server may close (`MayCrash`).
- `client_jobs`: two servers, one of which may be down, unlisted or not yet pinged
  while the other is measured; one finite delay, because nothing compares two.
- `tls_session`: the sizes are the boundaries: 0 and 16 (whole blocks), 1024 and
  1025 (the buffer), 65503 and 65504 (the last record that fits 16 bits and the
  first that does not), 65520 (a header that announces one block). Three messages
  let a long one follow and precede others. Two random values can differ or
  coincide.

### Fairness

Fairness is assumed of goroutines only: a handler, a matcher, the sweep or a
read loop that can take a step does so. What users do (ask, accept, send, join,
quit, call again) is never fair. Locks get strong fairness, as Go's mutexes let
no waiter starve. The garbage collector is assumed to run now and then: dropped
`net.Conn` values are closed by their finalizers. In `Relocation` a client
deals with a redirect that its `select` has received, but nothing is assumed of
the Read before it: it returns only when the server sends something or closes.
`PartnersMeet` and `ChatsReachOptimal` are therefore claimed of partners who come
to their `select` again and again while a redirect waits (`BothHear`), which is a
premise of the property and not fairness of the system; `FollowsWhenHeard` of
`ChatSession` says the same of one client in detail. In `ClientJobs` the
client's goroutines and its ticker run on, and the properties about delay lists
are claimed of behaviours in which Central and the network come to rest. In
`TLSSession` a read of a dead connection fails at last, through the keep-alive of
Go's TCP connections; the user need not type anything.

Deadlock is not checked where the system really may stop: the selection
terminates, users need not do anything further (`Matchmaking`, `ChatServer`,
`ChatSession`), both programs end (`TLSSession`), and goroutines may be done
calling (`ClientStore`, where `CallsReturn` says that no call stays blocked).

## 4. Proofs

| Theorem | Says |
|---|---|
| `ServerSelectionProofs!TypeCorrect`, `LoopInvariant`, `SelectionCorrect`, `UnreachableLast` | For any set of servers, any delay lists and any rounding of sums the selection returns an optimal common server, or the error exactly when there is none. |
| `RelocationProofs!TypeCorrect` | Store, handlers and sweep stay well typed; every cell the range loop can read holds the record of a room. |
| `RelocationProofs!ExaminesCurrent`, `SkipsAtMostOne` | Of any number of chats that share no user (`DisjointChats`) the range loop examines current records only, and a re-route makes it pass over one chat at most. |
| `RelocationProofs!ImplementsChatTable` | The system with clients implements `ChatTable`'s specification. |
| `RelocationProofs!ClientsTypeCorrect` | Clients are only ever sent to chat servers. |
| `RelocationProofs!PartnersRedirectedTogether` | A redirect reaches both partners of a chat or neither, at whatever point of joining or following the sweep finds them. |
| `RelocationProofs!SweepUnharmedByClients` | What the sweep promises of its table holds whatever the clients do. |
| `ClientStoreProofs!TypeCorrect`, `MapsNeverRace`, `UsernamesStayUnique` | For any number of goroutines the store stays well typed, no map is accessed while it is written, and a username has one address. |
| `ClientStoreProofs!AtomicUntilOverlap` | For any number of goroutines and chats: until two calls that write the slice overlap, the slice is what the calls make of it one after another, and no removal panics. |
| `ServiceRegistryProofs!TypeCorrect`, `DeadDropped` | For any interval, window and delay, a server that is down drops off the list. |
| `ServiceRegistryProofs!LiveListed` | If `Gap <= Window`, a live server is listed: the window has to cover the heartbeats lost in a row, one interval and the delay. |
| `MatchmakingProofs!TypeCorrect`, `NoLineForClosedChannel`, `ChatsAreAccepted`, `PartnersTogether` | For any number of users and requests: no line for a closed channel, no chat without acceptance, partners in one room are on one server. |
| `ChatServerProofs!TypeCorrect`, `ServerKeepsLogs` | For any number of connections, rooms and messages and any capacity, the server implements `RoomLog`. |
| `TLSSessionProofs!TypeCorrect`, `EndsAgree`, `NoLonelyClient`, `StopsHaveCauses`, `AnswersEcho` | For any random values, any number of messages and any sizes up to 65535: the ends agree, the client is never in a session alone, no end refuses what the other wrote, and each answer is its message cut at the buffer or padded to it. |
| `ClientProofs!SessionTypeCorrect`, `MovesFollowed` | For any number of redirects: each is in one place at a time, and they are followed in the order Central sent them, none twice, none without an address. |
| `ClientProofs!ChunksInvisible` | For streams of any length and any cuts into reads, the page shows the lines of the stream and the loop keeps the rest. |
| `ClientProofs!LinesStayWhole` | A line on the page joins texts of different servers at most, older before newer, never two of one server. |
| `ClientProofs!JobsTypeCorrect`, `RegisteredNameIsOurs` | For any servers and delays: rounds ping servers of their own map, and a confirmed registration holds until Central restarts or the address registers again. |

The arguments:

- **Selection.** `LoopInv` says that the candidates kept so far are exactly the
  best of the servers visited, by worst-case latency and then combined latency,
  and that the two minima are theirs. It is inductive with the types; when
  nothing is unvisited it is `ReturnsOptimal`.
- **Chat table.** The theorems about the running sweep rest on an auxiliary
  invariant, `RoomsOnce`: with single-step calls every chat has one record. It is
  not a theorem of its own, because the code's calls may overlap. It is not
  inductive either: the sweep puts back what it
  read earlier, from an array that may have been shifted or replaced since. The
  invariant adds that the range loop only reaches records of matched rooms, and
  holds one while it moves a chat (`SweepMatched`); `TypeOK` relates cells and
  rooms, in the sweep's array too. That shifting loses and doubles nothing
  follows from lemmas about `RemoveAt` and `InsertChatInstance`. `DisjointChats`
  is a hypothesis of the theorems and not of the specification; without it the
  property is false (section 6). The least position a removal finds is obtained
  from the well-founded order of the naturals.
- **The running sweep.** `LoopOK` relates what the loop has yet to read to the
  table. `SharedOK`: while it shares the table's array it never reaches behind the
  end of the table, except for the one cell that a removal leaves there until the
  record is put back. `FrozenOK`: once an append has moved the table, what is left
  of the old array are current records of different chats, none of them the one
  in hand. `ExaminedOK`: the record in hand is current, and in a shared array still
  where it was read. The action property follows action by action: only the first
  removal shifts cells under the loop, and only the cell that moves to a position
  already read is passed over.
- **Relocation.** The refinement mapping is the identity on the variables of
  `ChatTable`: every action is a step of the table or leaves it alone, so the
  invariants carry over. `PartnersToldSame` compares what the two users of a chat
  were last told (`LastTold`): the last redirect written to the queue, or else the
  server they are on or are invited to. `ClientsInv` says that only who is in a
  chat has redirects waiting, and nobody is in a chat before the invitation, which
  comes once. A redirect is then written to both queues by one step or to neither,
  and taking it off the queue to follow it leaves the last thing told as it was.
  `DisjointChats` keeps other chats' redirects out of the two queues.
- **Client store.** `LockInv` says that a goroutine past its lock holds it, alone
  if its call takes the write lock and among the readers otherwise. `ScanInv`
  says that what a `Create` has checked still holds when it writes. Together with
  `UsernameUnique` they are inductive.
- **The slice under the read lock.** `AsIfAtomic` speaks of the moments when no
  call is rewriting the slice. `RewriteInv` adds what a call in progress has:
  as long as nobody has overlapped, one call at most is between its first access
  and its last; the header it loaded, or the position it found, is that of the
  table (the least position, so that it is the one the operator of `ChatInstances`
  chooses); and once it has written the array, the slice it is about to store is
  the table that its call makes. `FoundInv` and `WithinArray` keep every header
  within its array, whatever overlaps, because arrays never shrink.
- **Service registry.** `DownOK`: the entry of a server that is down is as old as
  the server's end, but for the delay of its last request. `LiveOK`: while server
  and Central run, the entry, the server or Central is no older than what the
  heartbeat job has let pass: an interval for each request lost and for the one on
  its way, and the time since the ticker fired (`Allowance`). `RequestOK` ties the
  age of a request to the ticker that sent it. At the loss limit the allowance is
  within `Gap`.
- **Match requests.** The requester's runner is described as an automaton that
  reads lines (`Moves`), and `FlowInv` says that the lines on their way take it
  from where it is (`Run`) to where the handler, at its own point, expects it
  (`EndOK`). A runner that has ended has no move, hence no line coming. `PageInv`
  gives a runner at work its user's page to itself, `AcceptInv` follows an
  acceptance from the target's page to the matcher, and `ServerInv` says that once
  the handler has chosen a server, it is the only one in any line, local or chat of
  that request.
- **Chat server.** The refinement mapping takes `received` for `shown` and the
  history variables for the rest: `AddClient` is a join, `LockClients` an entry in
  the log, `Receive` the reading of an entry, and every other step leaves the four
  alone. `StreamOK` and `SaidOK` number what is in a stream and in a handler's
  hands: it is a run of messages that follows on what the connection last had in
  the log, except that messages read with the join line are lost before the first
  entry. `RoomOK` and `MutexOK`: a room lists its members once, and the holder of
  the mutex is broadcasting the last entry of its room's log. `DeliveryOK`: what a
  member has read and what is on its way to it make up the log since it joined, but
  for the entry that the broadcast has yet to bring it (`Pending`).
- **TLS session.** `TLSInv` follows both handshakes by the length of the message
  histories. `HistoryInv`: the point an end is at fixes the length of its history
  (`ClientPlace`, `ServerPlace`), neither end is ahead of what the other must have
  sent, and both histories are beginnings of one script of eight messages.
  `ParamInv`: what an end knows is a function of that length. `ToServer` and
  `ToClient`: what is on a wire is the next records of the writer's handshake,
  from the one the reader expects. `SessionInv`: after the handshakes at most one
  message is in flight, as question or as answer. No record is then refused except
  one whose size wrapped. `Agreement`, `ClientNotAlone`, `EndsForCause` and
  `EchoesPadded` are consequences or conjuncts.
- **Redirects of a session.** Redirects are numbered as Central dials. `RouteOK`
  says that their numbers increase along the way they take: the backlog holds the
  last ones without a gap, before them the one the accepting goroutine hands over,
  before that the one the loop is busy with, and before that the ones followed.
  `Passed` counts those that have left the channel. `DialOK` bounds the connections
  by the moves, so that the client only uses connections that exist.
- **Lines of a session.** `ChunkingInvisible` needs that splitting is compatible
  with concatenation (`ChunkSplit`): the parts of a stream with more appended to it
  are its own parts and then the parts of its rest with the addition, and what is
  left over is the same. This is shown without an induction over sequences: the
  n-th part is found by counting newlines (`NthNewLine`), counts grow by at most one
  from position to position, and a least or greatest position exists because the
  naturals are well-founded. `TextOK` adds the lines that are split but not yet
  shown. `LinesWhole` needs what the streams look like: servers write a newline
  after every text (`StreamOK`), so in what was read a text is followed by a newline
  or by a token of a later connection (`TextsEnd`). `HeardOK` carries that across
  reads that end after a text and before its newline: the newline is then the first
  token of the same connection's stream. A redirect in between leaves it there, and
  that is the glued line that `LinesWhole` permits.
- **Client process.** `AnswerOK`: the runner passes its registration only with an
  answer or an error, and an answer that has been neither lost, forgotten nor
  replaced comes with the name. `RoundOK`: there is no ping job before Initialize has its servers,
  so that it replaces the map under no round.

TLC confirms each inductive invariant on the run's instance (`FlowInv`, which
quantifies over runs of the automaton, with a single request).

Assumptions on constants are the named `ASSUME`s of the modules.

Two hypotheses appear in theorems and not in specifications. `DisjointChats` (no
user in two chats) is what the property needs and the code does not enforce
(section 6). `Gap <= Window` relates the interval of the chat servers to the
window of Central, which are constants of two programs; the code's 3 and 10
seconds satisfy it for two losses and a second of delay.

Only model-checked: liveness, on every run that states it. Leads-to under fairness,
and ENABLED, are out of the prover's reach. Every invariant and every action
property of the passing runs is a theorem.

## 5. Not modelled, and the plan

Not modelled, and why:

- drawing, colours and layout, the text of messages and of logs: no property is
  about them;
- what the ciphers, hashes and signatures compute, and the parsing of
  certificates: library code, here algebraic;
- a message to the TLS prototype of more than 65535 bytes, for which the wrapped
  header announces a piece of the ciphertext whose decryption depends on the text;
- `RemoveChatInstance` and `RemoveChatInstancesForServer`, which nothing calls;
- slice headers that are torn, because another goroutine reads one while it is
  being written: in `ClientStore` a header is read and written in one piece, and no
  property is claimed of the slice after an overlap;
- lines of a chat longer than the server's buffer, which it would broadcast in
  pieces;
- heartbeats and other HTTP requests that hang: the code sets no timeout, and a
  model in which a request may hang for ever promises nothing of the registry;
- the client's `ChatRequests` map, written without a lock while the page ranges
  over it: in `Matchmaking` a request is listed in one step;
- a user who is deregistered while being matched (no client sends Delete);
- the Mininet topology, build scripts and process start: no state of their own.

What the plan has left: the accesses to `ChatRequests`, should it get a lock of
its own in the code. No proof is planned beyond those of section 4.

## 6. Further observations

These came up while the code was translated. The models contain the behaviour,
and no run is spent on it.

- Among servers of equal worst-case latency the smaller combined latency decides
  before chance does, while the comment says "if multiple servers have the same
  minimum latency, we choose one at random"
  (`src/Central/internal/matchmaking/matchmaking.go:146`).
- A sweep that moves a chat skips the one behind it until the next sweep.
  `SkipsOnePerMove` and `EveryChatExamined` bound the effect.
- `RemoveChatInstancesForUser` removes the first instance only. A user gets into
  several when it goes away with several requests pending. The
  theorems about the sweep are therefore stated for chats that share no user; a
  sweep over overlapping ones multiplies records.
- When the user who was asked has gone, its requester stays on the matchmaking page
  for ever: a dial error ends the handler without a line, and USER_NOT_FOUND after
  REQ_SENT is a word the page does not know. The report lists SERVER_ERR for "a
  server error at any point". `StrandedOnlyByGoneTarget` shows that this is the
  only way to be stranded once Central has hung up.
- Two users who ask each other sit on their matchmaking pages and cannot accept; a
  user who asks for itself, or for an empty name, waits as well. Nothing promises
  otherwise.
- `InsertChatInstance` and `RemoveChatInstancesForUser` rewrite the slice under the
  read lock, although the comment calls the store thread-safe
  (`src/Central/internal/client/store.go:30`). Of two insertions that overlap one is
  lost; a removal that overlaps an insertion loses it or brings the removed record
  back, and its bounds check may fail, which ends Central. `AsIfAtomic` shows that
  up to the first overlap nothing of the kind happens.
- `Create` overwrites the name that an address had, although its comment says
  "check if there's already a client with this Ip"
  (`src/Central/internal/client/store.go:59`): a second client at one address takes
  the confirmed name of the first away, and nobody is told.
- A server that only one of two clients reaches is preferred to one that neither
  reaches, because only the sum of two unreachable delays overflows.
- Every ping round starts from unreachable servers and reports after each ping, so
  that Central takes good servers for unreachable for part of every round, and may
  move chats for it. When Central lists no server at all a round reports nothing
  and the old delay list stays.
- A client whose registration or server list failed reaches the menu all the same.
  A client whose registration was entered but not answered is refused its own name
  until Central restarts; after a restart of Central nobody registers again.
- When the first dial of a chat fails, `chatPage` waits for START_CHAT for ever. When
  port 3003 is taken the page shows the line FAILED, and nothing is read.
- A message typed after a redirect was dialled and before its join line is written
  becomes the first line of the connection, and the server closes it
  (`src/Client/client/client.go:118`). What was read of a line of the old server is
  glued to the first line of the new one (`LinesWhole`).
- In the TLS prototype a ciphertext of more than 65535 bytes announces the wrong
  size, after which the session fails or panics; a panic in one handler ends the
  server's process with all its connections; `Read` returns the length of the
  buffer, so that answers are padded with zeros.
- After a refusal `handleConnection` goes on to select a server and records a
  chat (`src/Central/internal/matchmaking/matchmaking.go:268`). `ChatOnlyIfAccepted`
  shows that nobody enters it.
- `Delete` of the service store refreshes the heartbeat of the server it should
  take off the list (`src/Central/internal/service/store.go:76`).
- Messages that arrive together with the join line stay in the buffered reader
  of `handleClient` and are lost (`src/Server/internal/chat/chat.go:58`).
