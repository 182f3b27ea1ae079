------------------------------ MODULE MCDaemon ------------------------------
(* Daemon on small instances.                                              *)
EXTENDS Daemon

CONSTANTS w1, w2, u1, u2

Line(user, quits, extra, dangling, options) ==
  [user |-> user, quits |-> quits, extra |-> extra, dangling |-> dangling, options |-> options]

\* A user to become, and no port that opens.
Becomes(name) ==
  Line("root", NULL, FALSE, FALSE, <<<<"PrivDropToUser", name>>, <<"SocketPath", "usb">>>>)

\* Every way the command line can end main(), and some that do not.
Lines ==
  {Line("root", "help", FALSE, FALSE, <<>>), Line("root", "version", FALSE, FALSE, <<>>),
   Line("root", NULL, TRUE, FALSE, <<>>), Line("root", NULL, FALSE, TRUE, <<<<"PIDFile", "pid3">>>>),
   Line("someone", NULL, FALSE, FALSE,
        <<<<"SocketPath", "tty">>, <<"SocketPath", "usb">>, <<"PIDFile", "pid2">>>>),
   Becomes("toor"), Becomes("staff"), Becomes("nosuchuser"),
   Line("root", NULL, FALSE, FALSE, <<>>)}

\* An account like most, one with the user of root, one with the group of root.
Accounts ==
  [nobody |-> [uid |-> "nobody", gid |-> "nogroup"],
   toor |-> [uid |-> "root", gid |-> "wheel"],
   staff |-> [uid |-> "staff", gid |-> "root"]]

File(lines) == [there |-> TRUE, lines |-> lines]

\* Files with a port that opens (only the last line gets past it), with all
\* settings, with a bad key, with a key that has no value; and none.
Files ==
  {File(<<<<"SocketPath", "tty">>, <<"PIDFile", "pid">>, <<"SocketBaud", "300">>>>),
   File(<<<<"PIDFile", "pid">>, <<"Chroot", "jail">>, <<"PrivDropToUser", "nobody">>, <<"Command", "">>>>),
   File(<<<<"PIDFile", "pid">>, <<"PrivDropToUser", "nobody">>, <<"NoSuchKey", "x">>, <<"Command", "x">>>>),
   File(<<<<"PIDFile", "pid">>, <<"Command", NULL>>>>),
   [there |-> FALSE, lines |-> <<>>]}

\* The one combination that reaches the loop.
PlainLine == {Line("root", NULL, FALSE, FALSE, <<>>)}

PlainFile == {File(<<<<"SocketPath", "tty">>, <<"PIDFile", "pid">>>>)}

Call(method, path, there) == [method |-> method, path |-> path, there |-> there]

Calls == {Call("set_arm_level", "partition", TRUE), Call("set_value", "light", FALSE),
          Call("get_info", "root", TRUE)}
=============================================================================
