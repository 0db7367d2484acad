---------------------------- MODULE SensorClient ----------------------------
(***************************************************************************)
(* client.c of p01: the interactive sensor client. main_loop reads a menu  *)
(* selection; for a sensor it connects to hopper, sends AUTH, reads the    *)
(* CONNECT line, closes hopper, connects and authenticates to the weather  *)
(* station, requests one reading, sends CLOSE and closes. Every system     *)
(* call that talks to a peer is one step, and its result is chosen by the  *)
(* environment: a send may fail, a recv may fail or return a line that     *)
(* sscanf does or does not accept, connect_to_host may fail.               *)
(*                                                                         *)
(* Descriptors are numbers handed out lowest-free, as the kernel does, so  *)
(* a closed number is reused by the next connection. fdConn says which    *)
(* connection an open descriptor refers to; srvConn and wsConn say which   *)
(* connection the code meant when it stored server_fd and                  *)
(* weather_station_fd.                                                     *)
(***************************************************************************)
EXTENDS Integers, FiniteSets

CONSTANTS
    FirstFd,      \* lowest descriptor socket() can return (0-2 are stdio)
    MaxFd,        \* the process's descriptor limit: above it connect fails
    MaxRequests   \* bound on the sensor requests main_loop serves

VARIABLES
    pc,                  \* where the program is
    selection,           \* what get_user_request returned last
    server_fd,           \* hopper descriptor, or -1
    weather_station_fd,  \* station descriptor, or -1
    srvConn, wsConn,     \* connection meant by server_fd / weather_station_fd
    fdConn,              \* descriptor -> connection it refers to (0: closed)
    conns,               \* connections opened so far
    op,                  \* the descriptor call made by the last step
    requests             \* sensor requests started

vars == <<pc, selection, server_fd, weather_station_fd, srvConn, wsConn,
          fdConn, conns, op, requests>>

Fds == FirstFd..MaxFd
NoFd == -1

\* enum RequestType.
TEMPERATURE == 1
HUMIDITY == 2
WIND_SPEED == 3
QUIT == 4
INVALID == 5
RequestTypes == TEMPERATURE..INVALID
Sensors == {TEMPERATURE, HUMIDITY, WIND_SPEED}

\* A line typed at the prompt, as strtol sees it: whether it is one whole
\* number (end != input and *end == '\0'), and the number.
Typed == [whole : BOOLEAN, val : -1..6]

\* get_user_request: INVALID unless the line is a whole number in 1..4.
GetUserRequestNoRange(in) == IF ~in.whole THEN INVALID ELSE in.val
GetUserRequest(in) ==
    IF ~in.whole \/ in.val < 1 \/ in.val > 4 THEN INVALID ELSE in.val

\* choose_sensor_command: the command line sent for each sensor.
SensorCommand ==
    [s \in Sensors |-> CASE s = TEMPERATURE -> "AIR TEMPERATURE"
                         [] s = HUMIDITY -> "RELATIVE HUMIDITY"
                         [] s = WIND_SPEED -> "WIND SPEED"]

OpenFds == {f \in Fds : fdConn[f] # 0}

\* connect_to_host: the lowest free descriptor of table fc on a new connection,
\* or -1 when the host refuses or the process has no descriptor left.
ConnectResults(fc) ==
    {NoFd} \cup {f \in Fds : fc[f] = 0 /\ \A g \in Fds : fc[g] = 0 => f <= g}

Connected(fc, fd) == IF fd = NoFd THEN fc ELSE [fc EXCEPT ![fd] = conns + 1]
ConnOf(fd) == IF fd = NoFd THEN 0 ELSE conns + 1

\* close(fd): frees an open descriptor; on -1 or a closed one it is EBADF.
Close(fc, fd) == IF fd \in Fds THEN [fc EXCEPT ![fd] = 0] ELSE fc

\* send_text / recv_line: the call fails on a descriptor that is not open; on
\* an open one it may succeed or fail. On failure the helper closes fd.
CallResults(fd) == IF fd \in OpenFds THEN {"ok", "err"} ELSE {"err"}
AfterCall(fd, r) == IF r = "err" THEN Close(fdConn, fd) ELSE fdConn

Call(fd, conn, msg) == op' = [fd |-> fd, conn |-> conn, msg |-> msg]
NoCall == [fd |-> NoFd, conn |-> 0, msg |-> "none"]

\* close(server_socket) once the CONNECT line has been read.
CloseHopperSkipped == fdConn
CloseHopper == Close(fdConn, server_fd)

\* Where get_sensor_data goes when sscanf rejects the reading: it closes the
\* descriptor and returns.
ReadingRejectedNoReturn == "send_close"
ReadingRejected == "menu"

Init ==
    /\ pc = "menu"
    /\ selection = INVALID
    /\ server_fd = NoFd
    /\ weather_station_fd = NoFd
    /\ srvConn = 0
    /\ wsConn = 0
    /\ fdConn = [f \in Fds |-> 0]
    /\ conns = 0
    /\ op = NoCall
    /\ requests = 0

\* main_loop: one selection. QUIT ends the loop, INVALID prints an error, a
\* sensor calls connect_to_host for hopper and then handle_request.
MainLoop ==
    /\ pc = "menu"
    /\ \E in \in Typed :
       LET sel == GetUserRequest(in) IN
         /\ selection' = sel
         /\ \/ /\ sel = QUIT
               /\ pc' = "done"
               /\ UNCHANGED <<server_fd, srvConn, fdConn, conns, requests>>
            \/ /\ sel \notin Sensors \cup {QUIT}
               /\ UNCHANGED <<pc, server_fd, srvConn, fdConn, conns, requests>>
            \/ /\ sel \in Sensors
               /\ requests < MaxRequests
               /\ \E fd \in ConnectResults(fdConn) :
                    /\ server_fd' = fd
                    /\ srvConn' = ConnOf(fd)
                    /\ fdConn' = Connected(fdConn, fd)
                    /\ conns' = conns + 1
               /\ requests' = requests + 1
               /\ pc' = "send_auth"
    /\ op' = NoCall
    /\ UNCHANGED <<weather_station_fd, wsConn>>

\* connect_to_weather_station fails: it returns -1 and handle_request still
\* calls get_sensor_data(-1, request).
ToSensorData(fc) ==
    /\ fdConn' = fc
    /\ weather_station_fd' = NoFd
    /\ wsConn' = 0
    /\ pc' = "send_cmd"

\* connect_to_weather_station: send_text(server_socket, "AUTH password123\n").
SendAuth ==
    /\ pc = "send_auth"
    /\ Call(server_fd, srvConn, "AUTH")
    /\ \E r \in CallResults(server_fd) :
         IF r = "err" THEN ToSensorData(AfterCall(server_fd, r))
         ELSE /\ pc' = "recv_connect"
              /\ UNCHANGED <<fdConn, weather_station_fd, wsConn>>
    /\ UNCHANGED <<selection, server_fd, srvConn, conns, requests>>

\* connect_to_weather_station: recv_line of the CONNECT line, close(server_socket),
\* sscanf of host, port and password, connect_to_host of the station.
RecvConnect ==
    /\ pc = "recv_connect"
    /\ Call(server_fd, srvConn, "recv")
    /\ \E r \in CallResults(server_fd), parsed \in BOOLEAN :
         LET fc == CloseHopper IN
         IF r = "err" THEN ToSensorData(AfterCall(server_fd, r)) /\ UNCHANGED conns
         ELSE IF ~parsed THEN ToSensorData(fc) /\ UNCHANGED conns
         ELSE \E fd \in ConnectResults(fc) :
                /\ weather_station_fd' = fd
                /\ wsConn' = ConnOf(fd)
                /\ fdConn' = Connected(fc, fd)
                /\ conns' = conns + 1
                /\ pc' = "send_ws_auth"
    /\ UNCHANGED <<selection, server_fd, srvConn, requests>>

\* connect_to_weather_station: send_text(weather_station_fd, "AUTH <pass>\n").
SendStationAuth ==
    /\ pc = "send_ws_auth"
    /\ Call(weather_station_fd, wsConn, "AUTH")
    /\ \E r \in CallResults(weather_station_fd) :
         IF r = "err" THEN ToSensorData(AfterCall(weather_station_fd, r))
         ELSE /\ pc' = "recv_ws_auth"
              /\ UNCHANGED <<fdConn, weather_station_fd, wsConn>>
    /\ UNCHANGED <<selection, server_fd, srvConn, conns, requests>>

\* connect_to_weather_station: recv_line of the station's reply, which is not
\* inspected; the descriptor is returned.
RecvStationAuth ==
    /\ pc = "recv_ws_auth"
    /\ Call(weather_station_fd, wsConn, "recv")
    /\ \E r \in CallResults(weather_station_fd) :
         IF r = "err" THEN ToSensorData(AfterCall(weather_station_fd, r))
         ELSE /\ pc' = "send_cmd"
              /\ UNCHANGED <<fdConn, weather_station_fd, wsConn>>
    /\ UNCHANGED <<selection, server_fd, srvConn, conns, requests>>

\* get_sensor_data: choose_sensor_command and send_text of the command.
SendCommand ==
    /\ pc = "send_cmd"
    /\ Call(weather_station_fd, wsConn, SensorCommand[selection])
    /\ \E r \in CallResults(weather_station_fd) :
         /\ fdConn' = AfterCall(weather_station_fd, r)
         /\ pc' = IF r = "err" THEN "menu" ELSE "recv_reading"
    /\ UNCHANGED <<selection, server_fd, weather_station_fd, srvConn, wsConn,
                   conns, requests>>

\* get_sensor_data: recv_line of the reading; when sscanf does not find the
\* three fields the descriptor is closed and the request ends.
RecvReading ==
    /\ pc = "recv_reading"
    /\ Call(weather_station_fd, wsConn, "recv")
    /\ \E r \in CallResults(weather_station_fd), parsed \in BOOLEAN :
         \/ /\ r = "err"
            /\ fdConn' = AfterCall(weather_station_fd, r)
            /\ pc' = "menu"
         \/ /\ r = "ok" /\ ~parsed
            /\ fdConn' = Close(fdConn, weather_station_fd)
            /\ pc' = ReadingRejected
         \/ /\ r = "ok" /\ parsed
            /\ fdConn' = fdConn
            /\ pc' = "send_close"
    /\ UNCHANGED <<selection, server_fd, weather_station_fd, srvConn, wsConn,
                   conns, requests>>

\* get_sensor_data: send_text(weather_station_fd, "CLOSE\n"), then close.
\* A failed send returns early, after send_text has closed the descriptor.
SendClose ==
    /\ pc = "send_close"
    /\ Call(weather_station_fd, wsConn, "CLOSE")
    /\ \E r \in CallResults(weather_station_fd) :
         fdConn' = IF r = "err" THEN AfterCall(weather_station_fd, r)
                   ELSE Close(fdConn, weather_station_fd)
    /\ pc' = "menu"
    /\ UNCHANGED <<selection, server_fd, weather_station_fd, srvConn, wsConn,
                   conns, requests>>

Next ==
    \/ MainLoop
    \/ SendAuth
    \/ RecvConnect
    \/ SendStationAuth
    \/ RecvStationAuth
    \/ SendCommand
    \/ RecvReading
    \/ SendClose

Spec == Init /\ [][Next]_vars

TypeOK ==
    /\ pc \in {"menu", "send_auth", "recv_connect", "send_ws_auth",
              "recv_ws_auth", "send_cmd", "recv_reading", "send_close", "done"}
    /\ selection \in RequestTypes
    /\ server_fd \in Fds \cup {NoFd} /\ weather_station_fd \in Fds \cup {NoFd}
    /\ fdConn \in [Fds -> 0..conns]
    /\ op.fd \in Fds \cup {NoFd}
    /\ requests \in 0..MaxRequests

(* Every path through handle_request, the error returns of send_text,       *)
(* recv_line and sscanf included, closes each socket it opened exactly as  *)
(* often as needed: whenever main_loop is back at the menu, or has quit, no *)
(* descriptor is open.                                                      *)
FdsReleased == pc \in {"menu", "done"} => OpenFds = {}

(* No send, recv or close of client.c is made on a descriptor that an      *)
(* earlier error path already closed, or that the kernel has since handed   *)
(* to another connection: the descriptor refers to the connection the code  *)
(* stored it for.                                                           *)
NoStaleDescriptor ==
    [][op'.fd # NoFd => fdConn[op'.fd] = op'.conn]_vars

=============================================================================
