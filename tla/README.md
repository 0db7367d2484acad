# TLA+ models of Networking-Projects

This directory holds TLA+ models of the concurrent and protocol parts of the
four programs under `src/`, together with the TLC configurations that check
them. Every module is translated from the C++ source; `PROJECT.json` maps each
definition to the lines it models (`map`) and records what the runs found
(`findings`) and where the code is hard to test (`hazards`).

## The system

| Program (src/) | Parts | Interaction |
|---|---|---|
| `IReliable Data Transport - p04` (RDT) | `ReliableSocket` (handshake, stop-and-wait transfer, close), `RDTSegment` (wire codec), `UnreliableSocket` (a thin wrapper over a UDP socket; loss, duplication and ICMP errors come from the network), `sender.cpp` / `receiver.cpp` (drivers) | Two processes exchange RDT segments over UDP. The client reads a file in chunks and sends them; the server writes what it receives. |
| `ToreroServe (A Lean Web Server) - p02` | `BoundedBuffer`, `runServer` (accept loop), `consumeClients` (4 workers), `handleClient` (HTTP) | The main thread `putItem`s accepted sockets; the workers `getItem` them and serve one HTTP request each. |
| `Streaming Music Protocol - p05/server` | `music-server.cpp` (epoll loop), `ConnectedClient`, `ChunkedDataSender` (array and file senders), `networking.cpp`, `protocol.cpp`, `SongLibrary` | One thread multiplexes non-blocking client sockets with epoll; replies are sent chunk by chunk, resumed on `EPOLLOUT`. |
| `Reverse Engineering a Network Application - p01` | `client.c` | A single-threaded interactive TCP client. For each sensor request it authenticates to hopper, reads a CONNECT line naming the weather station, closes hopper, authenticates to the station, reads one reading and sends CLOSE. |

## Modules

| Module | Models | State ↔ code |
|---|---|---|
| `ReliableSocket` | RDT: both endpoints, the drivers' loops and the UDP network | `spc`/`rpc`: where sender.cpp and receiver.cpp are (inside `connect_to_remote`, `send_data`/`send_until_acked`, `accept_connection`, `receive_data`, `close_connection`). `sstate`/`rstate`: `ReliableSocket::state`. `seqno`: `sequence_number`. `pos`/`eof`: the ifstream of sender.cpp; `ReadLen` and `ReadEof` are what one `read` returns and whether it sets `eof()`, and `ReceiverDeliver` is receiver.cpp's loop on the count `receive_data` returns. `cur`: the segment `send_until_acked` resends. `out`: the output file. `c2s`/`s2c`: datagrams in flight. `ssock`/`rsock`, `sErr`/`rErr`: socket open or closed, and a pending `ECONNREFUSED`. `estimated_rtt`/`dev_rtt`/`timeout_length`: the sender's estimator and its socket's receive timeout. `connect_to_remote` sets the timeout, and each acknowledged DATA runs `update_rtt` with a sample from `RttSamples`. `SenderTimeout` fires only while the timeout is non-zero, because `SO_RCVTIMEO` 0 means no timeout. There is one action per branch of each receive loop (expected segment, other segment, timeout) and one per network step (lose, duplicate, drop at a closed port). |
| `MCReliableSocket` | The codec applied to the datagrams in flight | `Wire` is a datagram as the `RDTSegment` constructors build it; `Codec(m, p, b)` instantiates `RDTCodec` for it. |
| `RTTEstimator` | `ReliableSocket::update_rtt` | The truncating EWMA over the int fields `estimated_rtt` and `dev_rtt`, and the timeout passed to `set_timeout_length`. `ReliableSocket` instantiates it, and `UpdateRtt` is a conjunct of the sender's ACK step. |
| `RDTCodec` | `RDTSegment::copy_to` and the span constructor, byte by byte | `Encode` includes the struct's pad byte; `Decode` reads the receive buffer, where bytes past the datagram are stale. The module has no behaviour of its own: its variables `seg`, `pad` and `old` are substituted in `MCReliableSocket` by each datagram in flight (`Wire`, the segment as the `RDTSegment` constructors build it) and by a choice of pad and stale byte. |
| `ToreroServe` / `MCToreroServe` | `BoundedBuffer` with its mutex and two condition variables, the accept loop, the workers | `buffer` is the queue; `dataWaiters`/`spaceWaiters` are the threads in `wait`; `holding` is the socket a thread holds. `Accept` is `ServerSocket::acceptConnection` (the new descriptor is `NewClient`), and `SocketFails` is a recv or send on a reset peer, whose uncaught `std::system_error` ends the process. `NotifyOne` wakes one waiter or none. `SpuriousWakeup` lets a waiter return without a notify. `handleClient` runs as three steps: `ReceiveRequest` (receiveData and parseRequest), `SendData` (once for each sendData call of the response `sendResponse` chose), and `CloseClient`. With `Unreadable`, a request may name a file that cannot be opened: after the header the worker is at `pc = "sendfile"`, where `SendFileSpins` keeps it. `todo` counts the sendData calls left. A client reset kills the process (`crashed`), because SIGPIPE is not ignored and the worker does not catch `std::system_error`. |
| `SensorClient` | `client.c`: `main_loop`, `get_user_request`, `connect_to_weather_station`, `get_sensor_data`, `send_text`, `recv_line` | `pc` is the call the program is in, one value per send or recv. `server_fd`/`weather_station_fd` are the code's variables, -1 on failure. `fdConn` is the process's descriptor table, handed out lowest-free, so a closed number is reused. `srvConn`/`wsConn` say which connection the code meant when it stored each descriptor. `op` is the descriptor call of the last step. Each send, recv, connect and sscanf result is chosen by the environment, and the error returns follow the code: `send_text`/`recv_line` close on failure, a failed `connect_to_weather_station` still leads to `get_sensor_data(-1)`. `connect_to_host` and `get_text_input` come from `io_helpers`, which is not in the repository. They are a connection-or-failure choice and a typed line abstracted to what `strtol` returns. |
| `MusicServer` / `MCMusicServer` | One client connection through the event loop, with the client on the other end | `AcceptPending` is `accept_connection` succeeding on the readable server socket. `mask` is the event set `epoll_wait` returned. `epollOut` is the interest flag. `state`/`sender`/`todo` are the `ConnectedClient`; file senders carry the ifstream position and failbit. `sockbuf` is the kernel send buffer (size `SockBuf`). `recvd` is what the client read. A client may close before it is accepted; `accept` still returns its socket. `ClientEvent` is one whole iteration of the loop for the client fd: RDHUP (`handle_close`, erase), IN (`handle_input`, and then `resume_sending` if OUT was also set), or OUT alone. `SendWithSender` and `ResumeSending` model the sender loops. |

## Runs

TLC checks 12 runs (`PROJECT.json` lists them with the property each checks).

Passing runs:
- **`rdt_safety`** (`FileSize = 7`, `ChunkSize = 2`, lossy, up to 2 duplicates, 3 premature timeouts, ICMP errors on):
  - `StreamInStep`: the output is the file's prefix, and it holds exactly the acknowledged bytes or those plus the chunk in flight.
  - `CloseSafety`: the sender is CLOSED only after the receiver has the whole file and is closing.
  - `SmoothedWithinRange` (RTT samples 0 and 20 ms): the estimate fed from `send_until_acked` stays within the range of 200 ms and the samples, and the deviation stays within that range's width, whatever retransmissions come between samples.
  - `WireRoundTrip`: every datagram in flight (CONN, each ACK, DATA of every chunk length including the empty one, CLOSE), encoded by `copy_to` with either pad byte and decoded from a buffer holding either stale byte, reads back as the segment sent. `MCReliableSocket` instantiates `RDTCodec` once for each datagram, pad and stale byte.
  - Deadlock is not checked here, because an ICMP exit really leaves the other program blocked.
- **`rdt_live`** (no loss, duplicates and premature timeouts): `Termination`, both sides eventually CLOSED.
- **`torero_conserve`** (2 workers, capacity 2, 4 connections, every request kind, clients that may reset, worker symmetry): `ClientsConserved`. Each accepted socket is queued, held or served, exactly once. `TypeOK` bounds the queue by the capacity. A reset ends the process, so deadlock is not checked in this run.
- **`client_fds`** (descriptors 3..4, three requests, every call may fail):
  - `FdsReleased`: whenever the menu is back, or the program has quit, no socket is open, whichever error path the request took.
  - `NoStaleDescriptor` (an action property): no send or recv uses a descriptor that an error path already closed, or that was reused for another connection.
  - The program stops after QUIT, so deadlock is not checked.
- **`music_safety`** (LIST, PLAY, STOP; a 2-unit socket buffer; the client may disconnect):
  - `SendingConsistent`: at every `epoll_wait`, SENDING, owning a sender and EPOLLOUT interest agree.
  - `NoByteTwice`: partial sends never repeat bytes.

Violation runs (each a finding in `PROJECT.json`):
- **`rdt_zero_timeout`**: RTT samples of 0 ms, as on localhost. After 32 acknowledged DATA segments, the truncating `update_rtt` reaches 0/0 and sets a timeout of 0, which is `SO_RCVTIMEO`'s "wait indefinitely". The sender then waits for an ACK with no timer (`RetransmitArmed` fails), so one lost segment would hang both programs. 65 bytes in 2-byte chunks give 33 segments; the last one is short, which keeps the empty-chunk bug out of this run.
- **`rdt_ack3_lost`** (lossy FIFO channel, receive actions strongly fair, a 1-byte file): `HandshakeCompletes`, that `accept_connection` returns. `connect_to_remote` sends ACK(3) once. When it is lost, the receiver stays in WAIT_HS3, ignoring DATA and re-sending ACK(2) on each timeout, and `send_until_acked` ignores each ACK(2) and re-sends DATA. Both loops go on for ever although every datagram sent infinitely often is received infinitely often.
- **`rdt_empty_chunk`**: a 4-byte file with 2-byte chunks ends with an empty DATA segment. The receiver takes it for end of stream, and the sender's CLOSE is never acknowledged.
- **`torero_lost_wakeup`**: `getItem` never notifies `space_available`. With 4 connections and capacity 2, the accept loop blocks for ever.
- **`torero_unreadable`**: a request for a regular file the server cannot open (no read permission) gets its 200 header. Then `sendFile` spins in `while (!file.eof())`, because a failed `ifstream` sets failbit and never eofbit. The client is never closed, and the worker is lost to the pool.
- **`music_stream`**: on EAGAIN, `FileSender` seeks *forward*, so the client receives the song with a gap.
- **`music_stop`**: a STOP handled in the same event as EPOLLOUT resets the sender. `resume_sending` then dereferences null.

Each property of a passing run is also checked against a mutant of the code it is about: a dropped guard, an off-by-one, a missed reset, a swapped byte order. TLC must find the property violated, which shows that the property constrains the code.

## Bounds

- **RDT.** Files of 3 to 7 bytes in 2-byte chunks give one to four DATA segments, including a short last one and, for size 4, the empty one. `MaxDup` and `MaxPremature` bound the duplicates and early timeouts. Two of each is enough for a duplicate of an old segment to arrive after the sender has moved on, which is the case the alternating bit must handle. RTT samples of 0 and 20 ms lie below the initial 200 ms, so every update takes the wrapping `uint32_t` difference. Reaching a zero timeout takes 32 samples, which is why `rdt_zero_timeout` sends a 33-segment file without loss; it is a deterministic run.
- **ToreroServe.** Four connections against capacity 2 fill the buffer while both workers are busy.
- **Sensor client.** Three requests show a descriptor number reused by a later connection. Two descriptors are enough for a leaked socket to push the next connection to a new number, and then to the limit where `connect` fails.
- **Music server.** A 7-unit song in 2-unit chunks against a 2-unit socket buffer makes sends partial and makes them block.

## Fairness

- **RDT.** Each program's own steps are weakly fair; they are runnable processes. Receiving a datagram that keeps being available is strongly fair: the network may lose some datagrams, but not every copy, which is the assumption behind the retransmissions. A timer with nothing left in flight eventually expires. A datagram sent to a closed port is eventually dropped.
- **ToreroServe.** The accept loop and the workers are weakly fair. Spurious wake-ups are possible, but not assumed fair.

## Not modelled

- **ToreroServe request text, regex matching, content types and HTML generation.** Each request is reduced to the branch of `sendResponse` it takes and the number of sendData calls that branch makes.
- **The socket set-up code of ToreroServe and RDT** (socket, bind, listen, setsockopt). These are system-call wrappers without concurrency. The music server's `setup_server_socket` is left out for the same reason, although one bug sits there and is recorded as a hazard: `setsockopt` reads `val` before `val` is assigned, so whether `SO_REUSEADDR` is set depends on the stack.
- **`find_mp3_files` in `music-server.cpp`.** Nothing calls it (`main` uses `SongLibrary::scan_files`).
- **`main` of ToreroServe and of the music server.** They check their arguments and exit before any connection exists.
- **The byte encoding of the music protocol header, and `SongLibrary`.** A reply is its header's units followed by its body's units, and a song is its length.
- **The bytes of `client.c`'s replies.** A reply is whether `sscanf` accepts it. Two bugs live below that level and are recorded as hazards: `recv_line` writes `buffer[-1]` when `recv` fails, and the unbounded `%s` of the CONNECT line can overflow the stack.
- **The ICMP exit after a completed transfer.** `rdt_safety` includes ICMP errors. A trace of it shows a late ACK(4) reaching the closed sender port, after which the receiver calls `exit(EXIT_FAILURE)`. No run is given to it.
- **A file removed between the checks of `respondWith200` and `fs::file_size`** (the exception ends the server). The served tree is fixed in the model.
- **An abstract stream specification for RDT.** Mapping the endpoints onto an abstract ordered byte stream (`written <- pos`, `delivered <- out`) adds nothing to `StreamInStep`: no step changes both variables and `out` only grows by appending, so the refinement follows from that invariant and the type invariant. No such module is kept.
- **`MusicServer`'s `TypeOK` in a run.** Its only conjunct that could fail, the socket-buffer bound, is enforced by `SendResults` (the kernel) whatever the server code does, so no bug of the code can break it. The definition documents the state's types but no run checks it.
- **Reordering.** The contract allows a reordering network, but the alternating bit is only safe over FIFO, so `Reorder` is FALSE in every run.
- **Karn's rule and the exact RTT formula.** RTT samples are drawn from a set, without a clock, so the model cannot tell a sample made too short by a resend from a real one. The contract's test vector of 206.25/18.4375 (the code stores 206/18) is a hazard without a run.

Later work could:
- add a clock to `ReliableSocket`, so that Karn's rule becomes a state of the protocol model;
- model malformed datagrams for the codec.
