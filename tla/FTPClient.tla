----------------------------- MODULE FTPClient -----------------------------
(***************************************************************************)
(* Library/Implementation/HTFTP.c: a document is fetched from an FTP       *)
(* server, with one control connection and one data connection that are    *)
(* closed when the document has been received.  (Sessions, which keep the  *)
(* control connection, are enabled by nobody in this repository; without   *)
(* them the location on the server never has to be left by CDUP.  Nor does *)
(* any read return HT_INTERRUPTED, so that ABOR is never sent.)            *)
(*                                                                         *)
(* The states are those of the enumerations of the source; a step is the   *)
(* wait in a state, for a reply, for data or for a connection, with what   *)
(* follows up to the next wait.  An operator on x works on both records of *)
(* the step, x.r the request and x.f the connection, and returns the set   *)
(* of its outcomes.                                                        *)
(***************************************************************************)
EXTENDS Loading

VARIABLE ftp             \* ftp_ctrl_info, ftp_data_info and locals of the functions:
    \* .state        where the dialogue is
    \* .owed         replies of the server that were not read: .to, the command, and .code
    \* .lost         the control connection is gone
    \* .asked        HTFTP_login's asked: the user may still be asked for another name
    \* .passwd       user->passwd is known
    \* .datatype     data->datatype: TYPE has to be sent
    \* .directory    data->directory
    \* .path         segments of the path that are still to be entered (ctrl->location)
    \* .passive      data->passive: 0, 1 (listening) or 2 (accepted)
    \* .server       ctrl->server is not UNKNOWN
    \* .retry        HTLoadFTP's retry
    \* .multiple     HTFTP_get_file's multiple
    \* .handle_ctrl

MaxSegments == 2         \* bound: segments of a path

FTPInit ==
    ftp \in [state : {"FTP_BEGIN"}, owed : {<<>>}, lost : {FALSE}, asked : {TRUE},
             passwd : BOOLEAN, datatype : BOOLEAN, directory : BOOLEAN,
             path : 0 .. MaxSegments, passive : {0}, server : {FALSE},
             retry : {0}, multiple : {FALSE}, handle_ctrl : {FALSE}]
    /\ (ftp.path = 0 => ftp.directory)
    /\ (ftp.directory => ~ftp.datatype)

-----------------------------------------------------------------------------
(* The server: what it may say to a command.  A transfer is announced, and *)
(* its end reported; 425 says that the data connection cannot be opened.   *)

Transfers == {"LIST", "RETR"}
Started == {125, 150}
Reply(cmd) ==
    IF cmd = "connect" THEN {220}
    ELSE IF cmd = "USER" THEN {230, 331, 450, 530}
    ELSE IF cmd = "PASS" THEN {230, 332, 530}
    ELSE IF cmd = "PASV" THEN {227, 450, 500, 530}
    ELSE IF cmd \in Transfers THEN {450, 550} \cup Started
    ELSE {200, 450, 500}
Replies(cmd) ==
    {<<code>> : code \in Reply(cmd)}
    \cup (IF cmd \in Transfers THEN Started \X {226, 425, 426} ELSE {})

-----------------------------------------------------------------------------
(* Commands                                                                *)

\* FTP_ERROR and the end of HTLoadFTP: HTFTP_abort_ctrl_con closes both sockets.
\* Mutant: the data connection is left open.
Error_DataOpen(x) == {[x EXCEPT !.r = Failed(Shut(@, {"ctrl"}))]}

Error(x) == {[x EXCEPT !.r = Failed(Shut(@, {"ctrl", "data"}))]}

\* A wait for the reply to a command, and HTFTP_send_cmd, which may fail.
Expects(x, cmd, state) ==
    {[x EXCEPT !.f.state = state,
               !.f.owed = @ \o [i \in DOMAIN codes |-> [to |-> cmd, code |-> codes[i]]]] :
        codes \in IF x.f.lost THEN {<<>>} ELSE Replies(cmd) \cup {<<>>}}
HTFTP_send_cmd(x, cmd, state) == Expects(x, cmd, state) \cup Error(x)

-----------------------------------------------------------------------------
(* What follows a wait, last function first                                *)

\* The data connection is closed; HTFTP_logout.
GotData(x) ==
    HTFTP_send_cmd([x EXCEPT !.r = Shut(@, {"data"})], "QUIT", "SENT_QUIT")

\* HTFTP_get_dir
NeedList(x) == HTFTP_send_cmd(x, "LIST", "SENT_LIST")
HTFTP_get_dir(x) ==
    IF x.f.path = 0 THEN NeedList(x) ELSE HTFTP_send_cmd(x, "CWD", "SENT_CWD")

\* HTFTPServerInfo
HTFTPServerInfo(x) == HTFTP_send_cmd(x, "SYST", "SENT_SYST")

\* HTFTP_get_file
HTFTP_get_file(x) == HTFTP_send_cmd(x, "RETR", "SENT_RETR")

\* The document is asked for, relative to the location (HTFTPLocation).
Asks(x, retry) ==
    LET y == [x EXCEPT !.f.retry = retry, !.f.multiple = FALSE, !.f.handle_ctrl = FALSE]
    IN  IF ~y.f.directory THEN HTFTP_get_file(y)
        ELSE IF ~y.f.server THEN HTFTPServerInfo(y)
        ELSE HTFTP_get_dir(y)

\* FTP_FAILURE: once more, with the data connection as it is.
Failure(x) == IF x.f.retry = 0 THEN Asks(x, 1) ELSE Error(x)

\* A segment at a time, for a directory or up to the last segment for a file.
MULTIPLE_CWD(x) == HTFTP_send_cmd(x, "CWD", "SENT_CWDS")

\* get_listen_socket and PORT.
Listens(x, state) ==
    HTFTP_send_cmd([x EXCEPT !.r = Opened(@, "data")], "PORT", state) \cup Error(x)

\* HTFTP_get_data_con: TYPE if need be, then PASV; the server tells its port, or
\* refuses and is told ours.
HTFTP_get_data_con(x) ==
    IF x.f.datatype THEN HTFTP_send_cmd(x, "TYPE", "SENT_TYPE")
    ELSE HTFTP_send_cmd(x, "PASV", "SENT_PASV")
NEED_PASSIVE(x) == Listens(x, "SENT_PORT")
NEED_ACTIVE(x) ==
    UNION {IF c.ok THEN Asks([x EXCEPT !.r = c.r], 0)
           ELSE NEED_PASSIVE([x EXCEPT !.r = HTErrorFree(c.r)]) :
              c \in HTDoConnect(x.r, "data")}

\* HTFTP_switch_to_port: the connection that PASV gave is closed.
HTFTP_switch_to_port(x) ==
    IF x.f.passive # 0 THEN Error(x)
    ELSE Listens([x EXCEPT !.r = Shut(@, {"data"})], "SWITCH_TO_PORT")

\* HTFTP_login: a password, an account, another user.
NEED_PASSWD(x) ==
    HTFTP_send_cmd([x EXCEPT !.f.passwd = TRUE], "PASS", "SENT_PASSWD")
    \cup (IF x.f.passwd THEN {} ELSE Error(x))
NEED_ACCOUNT(x) == HTFTP_send_cmd(x, "ACCT", "SENT_ACCOUNT")

\* Mutant: the user may be asked any number of times.
NEED_USER_INFO_Ever(x) ==
    HTFTP_send_cmd([x EXCEPT !.f.passwd = TRUE], "USER", "SENT_UID")

NEED_USER_INFO(x) ==
    HTFTP_send_cmd([x EXCEPT !.f.passwd = TRUE, !.f.asked = FALSE], "USER", "SENT_UID")

-----------------------------------------------------------------------------
(* Waits                                                                   *)

\* HTFTP_get_response: the next reply, or none from a connection that is gone.
Response == IF ftp.owed = <<>> THEN 0 ELSE Head(ftp.owed).code
Read == [r |-> req,
         f |-> IF ftp.owed = <<>> THEN [ftp EXCEPT !.lost = TRUE]
               ELSE [ftp EXCEPT !.owed = Tail(@)]]
Waits(state) == req.pc = "ftp" /\ ftp.state = state
Becomes(X) == \E x \in X : req' = x.r /\ ftp' = x.f

\* HTFTP_init_con: the control connection is made, or the load fails.
HTFTP_init_con ==
    /\ Waits("FTP_BEGIN")
    /\ \E c \in HTDoConnect(req, "ctrl") :
          LET x == [r |-> c.r, f |-> ftp]
          IN  IF c.ok THEN Becomes(Expects(x, "connect", "GREETING"))
              ELSE req' = Failed(c.r) /\ UNCHANGED ftp

\* HTFTP_login.
HTFTP_login ==
    \/ /\ Waits("GREETING")
       /\ Becomes(IF Response = 0 THEN Error(Read) ELSE HTFTP_send_cmd(Read, "USER", "SENT_UID"))
    \/ \E state \in {"SENT_UID", "SENT_PASSWD"} :
          /\ Waits(state)
          /\ Becomes(IF Response \div 100 = 2 THEN HTFTP_get_data_con(Read)
                     ELSE IF Response \div 100 = 3
                          THEN IF state = "SENT_UID" THEN NEED_PASSWD(Read) ELSE NEED_ACCOUNT(Read)
                     ELSE IF Response = 530 /\ ftp.asked THEN NEED_USER_INFO(Read)
                     ELSE Error(Read))
    \/ /\ Waits("SENT_ACCOUNT")
       /\ Becomes(IF Response \div 100 = 2 THEN HTFTP_get_data_con(Read) ELSE Error(Read))

\* HTFTP_get_data_con.  A reply to PASV may name no port.
DataConnection ==
    \/ /\ Waits("SENT_TYPE")
       /\ Becomes(IF Response \div 100 = 2 THEN HTFTP_send_cmd(Read, "PASV", "SENT_PASV")
                  ELSE Error(Read))
    \/ /\ Waits("SENT_PASV")
       /\ Becomes(IF Response = 227 THEN NEED_ACTIVE(Read) \cup Error(Read)
                  ELSE IF Response \div 100 = 4 \/ Response = 530 THEN Error(Read)
                  ELSE NEED_PASSIVE(Read))
    \/ /\ Waits("SENT_PORT")
       /\ Becomes(IF Response \div 100 = 2 THEN Asks([Read EXCEPT !.f.passive = 1], 0)
                  ELSE Error(Read))

\* HTFTPServerInfo: SYST may not be enough.
ServerInfo ==
    \/ /\ Waits("SENT_SYST")
       /\ Becomes((IF Response \div 100 = 2 THEN HTFTP_get_dir([Read EXCEPT !.f.server = TRUE])
                   ELSE {}) \cup HTFTP_send_cmd(Read, "PWD", "SENT_PWD"))
    \/ /\ Waits("SENT_PWD")
       /\ Becomes(IF Response \div 100 = 2 THEN HTFTP_get_dir([Read EXCEPT !.f.server = TRUE])
                  ELSE Error(Read))

\* The way to the directory of the document.
ChangeDirectory ==
    \/ /\ Waits("SENT_CWD")
       /\ Becomes(IF Response \div 100 = 2 THEN NeedList([Read EXCEPT !.f.path = 0])
                  ELSE IF Response \div 100 = 4 THEN Failure(Read)
                  ELSE MULTIPLE_CWD(Read))
    \/ /\ Waits("SENT_CWDS")
       /\ LET in == [Read EXCEPT !.f.path = @ - 1]
          IN  Becomes(IF Response \div 100 = 2
                      THEN IF in.f.path = 0 THEN NeedList(in)
                           ELSE IF in.f.path = 1 /\ ~in.f.directory THEN HTFTP_get_file(in)
                           ELSE MULTIPLE_CWD(in)
                      ELSE IF Response \div 100 = 4 /\ ftp.directory THEN Failure(Read)
                      ELSE Error(Read))

\* The reply to LIST, NLST or RETR.  What is no file may be a directory.
TransferStarts ==
    /\ Waits("SENT_LIST") \/ Waits("SENT_RETR")
    /\ Becomes(
         IF Response = 150 THEN {[Read EXCEPT !.f.state = "WAIT_FOR_CONNECTION"]}
         ELSE IF Response = 125 THEN {[Read EXCEPT !.f.state = "READY_FOR_DATA"]}
         ELSE IF Response \div 100 = 4 THEN Failure(Read)
         ELSE IF ftp.state = "SENT_LIST" THEN Error(Read)
         ELSE IF ~ftp.multiple /\ ftp.path > 1 THEN MULTIPLE_CWD([Read EXCEPT !.f.multiple = TRUE])
         ELSE Failure([Read EXCEPT !.f.directory = TRUE]))

\* HTFTP_look_for_data: data, or a reply (which is preferred), or a timeout.
HTFTP_look_for_data ==
    /\ Waits("WAIT_FOR_CONNECTION")
    /\ \/ \E state \in {"READY_FOR_DATA", "HANDLE_CTRL"} :
             ftp' = [ftp EXCEPT !.state = state] /\ UNCHANGED req
       \/ Becomes(Error([r |-> req, f |-> ftp]))

HANDLE_CTRL ==
    /\ Waits("HANDLE_CTRL")
    /\ LET x == [Read EXCEPT !.f.handle_ctrl = TRUE]
       IN  Becomes(IF Response \div 100 = 2 THEN {[x EXCEPT !.f.state = "READY_FOR_DATA"]}
                   ELSE IF Response = 425 THEN HTFTP_switch_to_port(x)
                   ELSE IF Response \div 100 = 4 THEN Failure(x)
                   ELSE Error(x))

\* The reply to the PORT of HTFTP_switch_to_port: the document is asked for again.
SwitchToPort ==
    /\ Waits("SWITCH_TO_PORT")
    /\ LET x == [Read EXCEPT !.f.passive = 1]
       IN  Becomes(IF Response \div 100 # 2 THEN Error(Read)
                   ELSE IF ftp.directory THEN NeedList(x)
                   ELSE HTFTP_get_file(x))

\* HTDoAccept: at once; after polls, each of which leaves a warning; not at all.
HTDoAccept(r) ==
    {[ok |-> TRUE, r |-> r], [ok |-> TRUE, r |-> HTErrorAdd(r, "WARNING")],
     [ok |-> FALSE, r |-> HTErrorAdd(HTErrorAdd(r, "WARNING"), "FATAL")]}

\* HTFTPBrowseDirectory shows the listing unless a read fails.
HTFTPBrowseDirectory(r) == {[ok |-> TRUE, r |-> Delivered(r)], [ok |-> FALSE, r |-> r]}

READY_FOR_DATA ==
    /\ Waits("READY_FOR_DATA")
    /\ \E a \in IF ftp.passive = 1 THEN HTDoAccept(req) ELSE {[ok |-> TRUE, r |-> req]} :
          LET x == [r |-> a.r, f |-> [ftp EXCEPT !.passive = IF @ = 1 /\ a.ok THEN 2 ELSE @]]
          IN  IF ~a.ok THEN Becomes(Error(x))
              ELSE \E d \in IF ftp.directory THEN HTFTPBrowseDirectory(a.r)
                            ELSE HTParseSocket(a.r) :
                      LET y == [x EXCEPT !.r = d.r]
                      IN  Becomes(IF ~d.ok THEN Error(y)
                                  ELSE IF ftp.handle_ctrl THEN GotData(y)
                                  ELSE {[y EXCEPT !.f.state = "GOT_DATA"]})

\* Mutant: the reply at the end of the transfer is not waited for.
GOT_DATA_Unread ==
    /\ Waits("GOT_DATA")
    /\ Becomes(GotData([r |-> req, f |-> ftp]))

\* The reply at the end of the transfer.
GOT_DATA ==
    /\ Waits("GOT_DATA")
    /\ Becomes(IF Response \div 100 = 2 THEN GotData(Read)
               ELSE IF Response \div 100 = 4 THEN Failure(Read)
               ELSE Error(Read))

HTFTP_logout ==
    /\ Waits("SENT_QUIT")
    /\ Becomes(IF Response \div 100 # 2 THEN Error(Read)
               ELSE {[Read EXCEPT !.r = Returned(Shut(@, {"ctrl"}), "LOADED")]})

FTPNext ==
    \/ HTFTP_init_con \/ HTFTP_login \/ DataConnection \/ ServerInfo \/ ChangeDirectory
    \/ TransferStarts \/ HTFTP_look_for_data \/ HANDLE_CTRL \/ SwitchToPort
    \/ READY_FOR_DATA \/ GOT_DATA \/ HTFTP_logout

-----------------------------------------------------------------------------
(* Property                                                                *)

\* The commands whose replies are waited for.  After a 425 the code believes that it
\* has read the last reply of a transfer which it then starts again, so that the
\* reply to QUIT may be the transfer's (HTFTP.c:2589, :2854).
Commands ==
    {<<"GREETING", "connect">>, <<"SENT_UID", "USER">>, <<"SENT_PASSWD", "PASS">>,
     <<"SENT_ACCOUNT", "ACCT">>, <<"SENT_TYPE", "TYPE">>, <<"SENT_PASV", "PASV">>,
     <<"SENT_PORT", "PORT">>, <<"SWITCH_TO_PORT", "PORT">>, <<"SENT_SYST", "SYST">>,
     <<"SENT_PWD", "PWD">>, <<"SENT_CWD", "CWD">>, <<"SENT_CWDS", "CWD">>,
     <<"SENT_QUIT", "QUIT">>}
    \cup {"SENT_LIST", "SENT_RETR", "WAIT_FOR_CONNECTION", "READY_FOR_DATA",
          "HANDLE_CTRL", "GOT_DATA"} \X Transfers
IsAwaited(cmd) ==
    \/ <<ftp.state, cmd>> \in Commands
    \/ ftp.state = "SENT_QUIT" /\ ftp.handle_ctrl /\ cmd \in Transfers

\* Client and server stay in step: the next reply on the control connection is
\* to the command that the client waits for, also when a transfer is tried
\* again, answered twice or refused on the data connection.
FTPInStep == req.pc = "ftp" /\ ftp.owed # <<>> => IsAwaited(Head(ftp.owed).to)

=============================================================================
