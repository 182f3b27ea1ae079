------------------------------- MODULE Startup -------------------------------
(***************************************************************************)
(* What main() of src/concordd/main.c does before its loop and after it:   *)
(* the options, the configuration file (src/common/config-file.c), the     *)
(* options once more, the new root, the privileges, the port, the bus; and *)
(* the way out.  Signals may come at any time.                             *)
(*                                                                         *)
(* File system, user database, port and bus are the environment: each call *)
(* the daemon makes to them may fail.                                      *)
(***************************************************************************)
EXTENDS Integers, Sequences

NULL == "NULL"

CONSTANTS
  CommandLines,  \* [user, quits, extra, dangling, options]: who starts it, and how
  ConfigFiles,   \* [there, lines]: the configuration file, if there is one
  Ports,         \* socket paths that can be opened
  Signals,       \* the ones that come: "TERM", "INT", "HUP"
  Users,         \* the user database: name -> [uid, gid], with "root" for 0
  StartFaults    \* may chroot(), getpwnam(), fopen() and the bus fail?

ASSUME StartupAssumption ==
  Signals \subseteq {"TERM", "INT", "HUP"} /\ StartFaults \in BOOLEAN

\* The users a daemon started by root may become.
OtherUids == {Users[name].uid : name \in DOMAIN Users} \ {"root"}

\* Nobody is yet the user that the daemon will become, and arguments are strings.
ASSUME CommandLinesAssumption ==
  \A line \in CommandLines :
    /\ line.user \notin OtherUids
    /\ line.options \in Seq(STRING \X (STRING \ {NULL}))

VARIABLES
  phase,     \* where main() is
  gRet,      \* 0, "FAIL" is EXIT_FAILURE, "QUIT" is ERRORCODE_QUIT
  settings,  \* gSocketPath, gPIDFilename, gChroot, gPrivDropToUser, ...
  taken,     \* lines of the file, then options, that main() has taken
  armed,     \* signals whose handler is still in place
  cred,      \* [uid, gid, root]: whom the process runs as, and under which root
  pidfile,   \* there is a PID file
  given      \* history: the command line and the configuration file

startup == <<phase, gRet, settings, taken, armed, cred, pidfile, given>>

\* SocketPath, PrivDropToUser, Chroot and the ten commands are treated alike.
Paths == {"SocketPath", "PrivDropToUser", "Chroot", "Command"}

\* What is left of given when main() no longer looks at it.
Forgotten == [line |-> [user |-> NULL, quits |-> NULL, extra |-> FALSE, dangling |-> FALSE, options |-> <<>>],
              file |-> [there |-> FALSE, lines |-> <<>>]]

Ended == {"stopped", "killed"}

StartupInit ==
  /\ phase = "options"
  /\ gRet = "FAIL"
  /\ settings = [SocketPath |-> "/dev/null", PrivDropToUser |-> NULL, Chroot |-> NULL,
                 Command |-> NULL, PIDFile |-> NULL, SocketBaud |-> "9600"]
  /\ taken = 0
  /\ armed = {"TERM", "INT"}
  /\ given \in [line : CommandLines, file : ConfigFiles]
  /\ cred = [uid |-> given.line.user, gid |-> given.line.user, root |-> "/"]
  /\ pidfile = FALSE

-----------------------------------------------------------------------------
(* Settings.                                                               *)

\* An empty value unsets.
Stored(value) == IF value = "" THEN NULL ELSE value

\* set_config_param(): the new settings, and what it returns.  creates: can the
\* PID file be created?  That file is set once, even if it cannot.  A rate below
\* 9600 is not taken, and no failure.  A key without a value is a NULL
\* dereference, except one it does not know.
SetConfigParam(s, key, value, creates) ==
  CASE key \notin DOMAIN s -> [s |-> s, ret |-> "failed"]
    [] key = "PIDFile" /\ s.PIDFile # NULL -> [s |-> s, ret |-> "failed"]
    [] key \in Paths /\ value # NULL ->
         [s |-> [s EXCEPT ![key] = Stored(value)], ret |-> "ok"]
    [] key = "SocketBaud" /\ value # NULL ->
         [s |-> IF value = "300" THEN s ELSE [s EXCEPT !.SocketBaud = value], ret |-> "ok"]
    [] key = "PIDFile" /\ s.PIDFile = NULL /\ value # NULL ->
         [s |-> [s EXCEPT !.PIDFile = value], ret |-> IF creates THEN "ok" ELSE "failed"]
    [] OTHER -> [s |-> s, ret |-> "crashed"]

\* Variant: an option does not replace what is set already.
ApplyUnset(o, creates) ==
  IF settings[o[1]] \notin {NULL, "/dev/null"} THEN settings
  ELSE SetConfigParam(settings, o[1], o[2], creates).s

\* An option of the second pass: what set_config_param() says is ignored.
Apply(o, creates) == SetConfigParam(settings, o[1], o[2], creates).s

\* set_config_param() has created the PID file it was given.
PidFileAfter(s, creates) == pidfile \/ (s.PIDFile # settings.PIDFile /\ creates)

-----------------------------------------------------------------------------
(* The way out: the label "bail" of main().                                *)

\* Variant: the file is unlinked after the loop only.
UnlinkPidFileAfterLoop ==
  pidfile' \in IF phase \in {"loop", "masks", "select"} THEN {FALSE} ELSE {pidfile}

\* A PID file is unlinked by its path, which is looked up under the new root,
\* and with what rights are left.
UnlinkPidFile ==
  pidfile' \in IF settings.PIDFile = NULL THEN {pidfile}
               ELSE IF cred.root # "/" THEN {pidfile}
               ELSE IF cred.uid \in OtherUids THEN {FALSE, pidfile} ELSE {FALSE}

ExitWith(ret) ==
  /\ phase' = "stopped"
  /\ gRet' = IF ret = "QUIT" THEN "0" ELSE ret
  /\ UnlinkPidFile
  /\ UNCHANGED <<settings, taken, armed, cred, given>>

\* The default action of a signal, or a crash: nothing is cleaned up.
Dies ==
  /\ phase' = "killed"
  /\ UNCHANGED <<gRet, settings, taken, armed, cred, pidfile, given>>

Goes(next) == phase' = next /\ taken' = 0 /\ UNCHANGED <<armed, given>>

Stays == taken' = taken + 1 /\ UNCHANGED <<phase, armed, given>>

-----------------------------------------------------------------------------
(* The steps of main() up to its loop.                                     *)

\* First pass over the command line: help, version, an argument too many.
ParseOptions ==
  /\ phase = "options"
  /\ \/ given.line.quits = "help" /\ ExitWith("FAIL")
     \/ given.line.quits = "version" /\ ExitWith("0")
     \/ given.line.quits = NULL /\ given.line.extra /\ ExitWith("FAIL")
     \/ /\ given.line.quits = NULL /\ ~ given.line.extra
        /\ Goes("config")
        /\ UNCHANGED <<gRet, settings, cred, pidfile>>

\* Can the PID file be created?
Creatable == IF StartFaults THEN BOOLEAN ELSE {TRUE}

\* read_config(), line by line: a file that is not there is logged and no more, and
\* so is one that breaks off at the first line that is not taken.
LoadConfigFile ==
  LET lines == IF given.file.there THEN given.file.lines ELSE <<>>
  IN /\ phase = "config"
     /\ \/ /\ taken = Len(lines)
           /\ Goes("overrides")
           /\ UNCHANGED <<gRet, settings, cred, pidfile>>
        \/ /\ taken < Len(lines)
           /\ \E creates \in Creatable :
                LET l   == lines[taken + 1]
                    set == SetConfigParam(settings, l[1], l[2], creates)
                IN IF set.ret = "crashed" THEN Dies
                   ELSE /\ settings' = set.s
                        /\ pidfile' = PidFileAfter(set.s, creates)
                        /\ IF set.ret = "ok" THEN Stays ELSE Goes("overrides")
                        /\ UNCHANGED <<gRet, cred>>

\* Second pass, option by option: what the command line sets replaces what the
\* file set.  An option without its argument is noticed when it is come to.
ApplyOptions ==
  /\ phase = "overrides"
  /\ \/ /\ taken < Len(given.line.options)
        /\ \E creates \in Creatable :
             /\ settings' = Apply(given.line.options[taken + 1], creates)
             /\ pidfile' = PidFileAfter(settings', creates)
        /\ Stays
        /\ UNCHANGED <<gRet, cred>>
     \/ /\ taken = Len(given.line.options)
        /\ \/ given.line.dangling /\ ExitWith("FAIL")
           \/ /\ ~ given.line.dangling
              /\ Goes("chroot")
              /\ UNCHANGED <<gRet, settings, cred, pidfile>>

\* chdir(), chroot(), chdir("/").
ChangeRoot ==
  /\ phase = "chroot"
  /\ IF settings.Chroot # NULL /\ cred.uid = "root"
     THEN \/ cred' = [cred EXCEPT !.root = settings.Chroot] /\ Goes("user")
             /\ UNCHANGED <<gRet, settings, pidfile>>
          \/ StartFaults /\ ExitWith("FAIL")
     ELSE Goes("user") /\ UNCHANGED <<gRet, settings, cred, pidfile>>

\* getpwnam(), asked by root only.
LookUpUser ==
  LET name == settings.PrivDropToUser
  IN /\ phase = "user"
     /\ IF name = NULL \/ cred.uid # "root"
        THEN Goes("socket") /\ UNCHANGED <<gRet, settings, cred, pidfile>>
        ELSE \/ name \in DOMAIN Users /\ Goes("ids")
                /\ UNCHANGED <<gRet, settings, cred, pidfile>>
             \/ (StartFaults \/ name \notin DOMAIN Users) /\ ExitWith("FAIL")

\* Variant: setuid() comes first.
DropOrderSwapped == <<"uid", "gid">>

DropOrder == <<"gid", "uid">>

\* setgid() and setuid() are called for an id other than 0 only, and only root
\* may call them; an account with group or user 0 leaves the daemon that of root.
DropPrivileges ==
  /\ phase = "ids"
  /\ \/ /\ taken = Len(DropOrder)
        /\ Goes("socket")
        /\ UNCHANGED <<gRet, settings, cred, pidfile>>
     \/ /\ taken < Len(DropOrder)
        /\ LET kind == DropOrder[taken + 1]
               id   == Users[settings.PrivDropToUser][kind]
           IN \/ /\ id = "root"
                 /\ Stays
                 /\ UNCHANGED <<gRet, settings, cred, pidfile>>
              \/ /\ id # "root" /\ cred.uid = "root"
                 /\ cred' = [cred EXCEPT ![kind] = id]
                 /\ Stays
                 /\ UNCHANGED <<gRet, settings, pidfile>>
              \/ /\ id # "root" /\ (StartFaults \/ cred.uid # "root")
                 /\ ExitWith("FAIL")

\* concordd_init() and open_super_socket(): gRet is what it was set to, by a
\* signal if one came.
OpenSocket ==
  /\ phase = "socket"
  /\ IF settings.SocketPath \in Ports
     THEN Goes("dbus") /\ UNCHANGED <<gRet, settings, cred, pidfile>>
     ELSE ExitWith(gRet)

\* concordd_dbus_server_init(): the bus is there, or not.  A name that is taken is
\* waited for.  Without a bus the error that is looked at was never initialised,
\* and freeing it may crash.
StartDbus ==
  /\ phase = "dbus"
  /\ \/ Goes("refresh") /\ UNCHANGED <<gRet, settings, cred, pidfile>>
     \/ StartFaults /\ (ExitWith(gRet) \/ Dies)

\* The handlers of SIGINT, SIGTERM and SIGHUP: the first two are taken once.
Codes == [TERM |-> "QUIT", INT |-> "FAIL", HUP |-> "FAIL"]

Signal(s) ==
  /\ phase \notin Ended
  /\ s \in Signals
  /\ IF s = "HUP" \/ s \in armed
     THEN /\ gRet' = Codes[s]
          /\ armed' = armed \ {s}
          \* A blocked select() returns EINTR.
          /\ phase' = IF phase = "select" THEN "loop" ELSE phase
          /\ UNCHANGED <<settings, taken, cred, pidfile, given>>
     ELSE Dies

StartupStep ==
  \/ ParseOptions
  \/ LoadConfigFile
  \/ ApplyOptions
  \/ ChangeRoot
  \/ LookUpUser
  \/ DropPrivileges
  \/ OpenSocket
  \/ StartDbus

-----------------------------------------------------------------------------
(* Properties.                                                             *)

\* A key the command line sets has its last value there, whatever the file says
\* ("This can be overridden at the command line.", concordd.conf:4-6).
CommandLineWins ==
  phase \in {"chroot", "user", "ids", "socket", "dbus", "refresh"} =>
    LET options == given.line.options
    IN \A key \in Paths, i \in 1 .. Len(options) :
         options[i][1] = key /\ (\A j \in i + 1 .. Len(options) : options[j][1] # key) =>
           settings[key] = Stored(options[i][2])

\* Once the port is to be opened, a daemon that root started and told to become
\* somebody of the user database has the user and the group of the account; what
\* it keeps of root is only what the account itself has.  And the user never goes
\* before the group: nobody but root runs with a group of root still to be dropped.
PrivilegesDropped ==
  LET name == settings.PrivDropToUser
  IN given.line.user = "root" /\ name # NULL =>
       /\ phase \in {"socket", "dbus", "refresh"} =>
            /\ name \in DOMAIN Users
            /\ cred.uid = Users[name].uid
            /\ cred.gid = Users[name].gid
       /\ phase = "ids" /\ cred.uid # "root" => cred.gid = Users[name].gid

\* A daemon that stops by itself leaves no PID file behind, unless it has moved
\* to another root or another user since it wrote the file.
PidFileRemoved ==
  phase = "stopped" /\ pidfile => cred.root # "/" \/ cred.uid \in OtherUids
=============================================================================
