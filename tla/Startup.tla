----------------------------- MODULE Startup -----------------------------
(***************************************************************************)
(* How iwtftpd comes up and goes down (main of src/src/iwtftpd.c, with the *)
(* init and exit functions of the other modules): from the arguments over  *)
(* the log, the daemon, the server sockets, the chroot and the change of   *)
(* credentials to the event loop.  Every call to the operating system may  *)
(* fail.  What matters is the order of the calls and the table of          *)
(* descriptors they share; TftpServer models what happens while pc is      *)
(* "serving".                                                              *)
(***************************************************************************)
EXTENDS Integers, Sequences, FiniteSets, FiniteSetsExt

CONSTANTS
  FdMax,       \* the descriptors used here are 0 .. FdMax, all below IW_FD_MAX
  AddrFaults   \* TRUE: getaddrinfo may fail in create_socket

Fd == 0 .. FdMax
Family == {"ip4", "ip6"}

ASSUME StartupAssumption == FdMax \in Nat /\ FdMax >= 8 /\ AddrFaults \in BOOLEAN

VARIABLES
  conf,      \* arguments and environment: options, -4/-6, interface, user, fds
  pc,        \* the next call
  fds,       \* open descriptors, and to what
  logfd,     \* alog->logfd, or -1 while there is no log object
  nullfd,    \* the local of daemonize
  svsocks,   \* ins->svsocks
  dspath,    \* ds->dspath
  jail,      \* root and working directory of the process
  cred,      \* user, group and supplementary groups of the process
  exitval,   \* exit status of main
  shown,     \* exit status of the process that was started, as its caller sees it
  exitflag,  \* g_evloop_exit
  said,      \* where E_FATALERR went
  stray      \* history: create_socket closed a descriptor that was not its own

vars == <<conf, pc, fds, logfd, nullfd, svsocks, dspath, jail, cred, exitval,
          shown, exitflag, said, stray>>

Configuration ==
  [opts : {"bad", "version", "ok"}, ipver : SUBSET Family, ifname : BOOLEAN,
   addr : SUBSET Family, root : BOOLEAN, open : SUBSET (0 .. 3)]

Init ==
  /\ conf \in Configuration
  /\ ~conf.ifname => conf.addr = {}
  /\ pc = "set_svconf"
  /\ fds = [n \in conf.open |-> "inherited"]
  /\ logfd = -1 /\ nullfd = -1 /\ svsocks = <<-1, -1>> /\ dspath = "none"
  /\ jail = [root |-> "system", cwd |-> "start"]
  /\ cred = [uid |-> IF conf.root THEN "root" ELSE "other",
             gid |-> "caller", groups |-> "caller"]
  /\ exitval = "OK" /\ shown = "running" /\ exitflag = FALSE /\ said = "nothing" /\ stray = FALSE

----------------------------------------------------------------------------

NewFd == Min(Fd \ DOMAIN fds)
Opened(n, object) == [m \in DOMAIN fds \cup {n} |-> IF m = n THEN object ELSE fds[m]]
Closed(ns) == [m \in DOMAIN fds \ ns |-> fds[m]]

Continue(next) == pc' = next /\ UNCHANGED <<exitval, shown>>

\* Mutated form of Fail: exitval is set to the result of the function.
MutFail(code) == pc' = "ferr" /\ exitval' = "IW_ERR" /\ UNCHANGED shown

Fail(code) == pc' = "ferr" /\ exitval' = code /\ UNCHANGED shown

\* The process ends with the given status.  Once there is a daemon, nobody waits
\* for its status: the process that was started is gone.
End(last, status) ==
  /\ pc' = last
  /\ shown' = IF shown = "running" THEN status ELSE shown
  /\ UNCHANGED exitval

Crash == End("crashed", "killed")

\* A call that may fail and changes nothing a property looks at.
Plain(here, next, code) ==
  /\ pc = here
  /\ Continue(next) \/ Fail(code)
  /\ UNCHANGED <<conf, fds, logfd, nullfd, svsocks, dspath, jail, cred, exitflag,
                 said, stray>>

\* Bad options, or -4 and -6 both; the version is shown before -4 and -6 are
\* looked at.
set_svconf ==
  /\ pc = "set_svconf"
  /\ \/ conf.opts = "bad" /\ Fail("USAGE")
     \/ conf.opts = "version" /\ End("exited", exitval)
     \/ conf.opts = "ok" /\ conf.ipver = {} /\ Fail("USAGE")
     \/ conf.opts = "ok" /\ conf.ipver # {} /\ Continue("check_root")
  /\ UNCHANGED <<conf, fds, logfd, nullfd, svsocks, dspath, jail, cred, exitflag,
                 said, stray>>

check_root ==
  /\ pc = "check_root"
  /\ IF conf.root THEN Continue("init_signal") ELSE Fail("USAGE")
  /\ UNCHANGED <<conf, fds, logfd, nullfd, svsocks, dspath, jail, cred, exitflag,
                 said, stray>>

init_signal == Plain("init_signal", "iwlog_init", "OSERR")

\* When open fails, pmsg asks the log object that does not exist yet whether to
\* be verbose: the process dies.  It survives a failing malloc, and then closes
\* the log unless its number is 0.
iwlog_init ==
  /\ pc = "iwlog_init"
  /\ \/ Continue("fork") /\ logfd' = NewFd /\ fds' = Opened(NewFd, "log")
     \/ /\ Fail("SOFTWARE")
        /\ fds' = IF NewFd > 0 THEN fds ELSE Opened(NewFd, "log")
        /\ UNCHANGED logfd
     \/ Crash /\ UNCHANGED <<fds, logfd>>
  /\ UNCHANGED <<conf, nullfd, svsocks, dspath, jail, cred, exitflag, said, stray>>

(***************************************************************************)
(* daemonize.  The child goes on; the parent, which is the process that    *)
(* was started, exits with IW_OK at once.                                  *)
(***************************************************************************)
fork ==
  /\ pc = "fork"
  /\ \/ pc' = "null" /\ shown' = "OK" /\ UNCHANGED exitval
     \/ Fail("OSERR")
  /\ UNCHANGED <<conf, fds, logfd, nullfd, svsocks, dspath, jail, cred, exitflag,
                 said, stray>>

open_null ==
  /\ pc = "null"
  /\ \/ Continue("close_all") /\ nullfd' = NewFd /\ fds' = Opened(NewFd, "null")
     \/ Fail("OSERR") /\ UNCHANGED <<nullfd, fds>>
  /\ UNCHANGED <<conf, logfd, svsocks, dspath, jail, cred, exitflag, said, stray>>

\* Mutated form of close_all: the log is closed like the rest.
MutCloseAll ==
  /\ pc = "close_all"
  /\ Continue("dup2")
  /\ fds' = [n \in {nullfd} |-> "null"]
  /\ UNCHANGED <<conf, logfd, nullfd, svsocks, dspath, jail, cred, exitflag, said,
                 stray>>

close_all ==
  /\ pc = "close_all"
  /\ Continue("dup2")
  /\ fds' = [n \in {logfd, nullfd} |-> fds[n]]
  /\ UNCHANGED <<conf, logfd, nullfd, svsocks, dspath, jail, cred, exitflag, said,
                 stray>>

\* dup2 onto 0, 1 and 2, whatever they are by now, and close(nullfd); it may
\* fail after k of the three.
dup2 ==
  /\ pc = "dup2"
  /\ \/ /\ Continue("setsid")
        /\ fds' = [n \in (DOMAIN fds \cup 0 .. 2) \ {nullfd} |->
                     IF n \in 0 .. 2 THEN "null" ELSE fds[n]]
     \/ \E k \in 0 .. 2 :
          /\ Fail("OSERR")
          /\ fds' = [n \in DOMAIN fds \cup 0 .. k - 1 |->
                       IF n < k THEN "null" ELSE fds[n]]
  /\ UNCHANGED <<conf, logfd, nullfd, svsocks, dspath, jail, cred, exitflag, said,
                 stray>>

setsid == Plain("setsid", "iwds_init", "OSERR")

----------------------------------------------------------------------------

iwds_init ==
  /\ pc = "iwds_init"
  /\ \/ Continue("get_ifaddress") /\ dspath' = "store"
     \/ Fail("SOFTWARE") /\ UNCHANGED dspath
  /\ UNCHANGED <<conf, fds, logfd, nullfd, svsocks, jail, cred, exitflag, said, stray>>

\* Without -i no address is looked for; with it every family that is to be
\* served needs one.  When getifaddrs fails, the list that is freed is one that
\* was never set.
get_ifaddress ==
  /\ pc = "get_ifaddress"
  /\ \/ Continue("socket4") /\ (conf.ifname => conf.ipver \subseteq conf.addr)
     \/ (Fail("SOFTWARE") \/ Crash) /\ conf.ifname
  /\ UNCHANGED <<conf, fds, logfd, nullfd, svsocks, dspath, jail, cred, exitflag,
                 said, stray>>

\* What create_socket leaves: a new socket; nothing, when socket, setsockopt or
\* bind fails; or, when getaddrinfo fails before sock was set, the table without
\* any one descriptor sock happens to name.
create_socket(family) ==
  {[sock |-> NewFd, fds |-> Opened(NewFd, family), stray |-> stray],
   [sock |-> -1, fds |-> fds, stray |-> stray]}
  \cup {[sock |-> -1, fds |-> Closed({n}), stray |-> stray \/ n \in DOMAIN fds] :
           n \in IF AddrFaults THEN Fd ELSE {}}

\* Mutated form of Slot: the second socket goes where the first is.
MutSlot == 1

\* The first entry of svsocks below 0.
Slot == Min({i \in 1 .. 2 : svsocks[i] < 0})

\* The block of iwtftp_init for one family.
ServerSocket(here, family, next) ==
  /\ pc = here
  /\ Continue(next)
  /\ \/ /\ family \in conf.ipver
        /\ \E r \in create_socket(family) :
             /\ fds' = r.fds /\ stray' = r.stray
             /\ svsocks' = [svsocks EXCEPT ![Slot] = r.sock]
     \/ family \notin conf.ipver /\ UNCHANGED <<fds, stray, svsocks>>
  /\ UNCHANGED <<conf, logfd, nullfd, dspath, jail, cred, exitflag, said>>

\* One socket is enough; without any, iwtftp_init fails.
iwtftp_init ==
  /\ pc = "iwtftp_init"
  /\ IF \E i \in 1 .. 2 : svsocks[i] >= 0 THEN Continue("getpwnam")
     ELSE Fail("SOFTWARE")
  /\ UNCHANGED <<conf, fds, logfd, nullfd, svsocks, dspath, jail, cred, exitflag,
                 said, stray>>

getpwnam == Plain("getpwnam", "chroot", "OSERR")

----------------------------------------------------------------------------
(***************************************************************************)
(* exec_chroot, iwds_set_chroot and set_credential                         *)
(***************************************************************************)
\* Mutated form of chroot: its failure is not noticed.
MutChroot ==
  /\ pc = "chroot"
  /\ Continue("chdir")
  /\ jail' \in {jail, [jail EXCEPT !.root = "store"]}
  /\ UNCHANGED <<conf, fds, logfd, nullfd, svsocks, dspath, cred, exitflag, said,
                 stray>>

chroot ==
  /\ pc = "chroot"
  /\ \/ Continue("chdir") /\ jail' = [jail EXCEPT !.root = "store"]
     \/ Fail("OSERR") /\ UNCHANGED jail
  /\ UNCHANGED <<conf, fds, logfd, nullfd, svsocks, dspath, cred, exitflag, said,
                 stray>>

chdir ==
  /\ pc = "chdir"
  /\ \/ Continue("set_chroot") /\ jail' = [jail EXCEPT !.cwd = jail.root]
     \/ Fail("OSERR") /\ UNCHANGED jail
  /\ UNCHANGED <<conf, fds, logfd, nullfd, svsocks, dspath, cred, exitflag, said,
                 stray>>

\* The path of the datastore is "/" from now on.
iwds_set_chroot ==
  /\ pc = "set_chroot"
  /\ Continue("setgid")
  /\ dspath' = "/"
  /\ UNCHANGED <<conf, fds, logfd, nullfd, svsocks, jail, cred, exitflag, said, stray>>

\* The steps of set_credential; each needs root.
Credential(here, field, next) ==
  /\ pc = here
  /\ \/ cred.uid = "root" /\ Continue(next) /\ cred' = [cred EXCEPT ![field] = "user"]
     \/ Fail("OSERR") /\ UNCHANGED cred
  /\ UNCHANGED <<conf, fds, logfd, nullfd, svsocks, dspath, jail, exitflag, said,
                 stray>>

set_credential ==
  \/ Credential("setgid", "gid", "initgroups")
  \/ Credential("initgroups", "groups", "setuid")
  \/ Credential("setuid", "uid", "epoll_create")

----------------------------------------------------------------------------
(***************************************************************************)
(* iwtftp_service up to its loop, and after it                             *)
(***************************************************************************)
ServerFds == {svsocks[i] : i \in 1 .. 2} \ {-1}

\* Mutated form of epoll_create: the flag is cleared before the loop, and a
\* signal that came during the start is forgotten.
MutEpollCreate ==
  /\ pc = "epoll_create"
  /\ \/ /\ ServerFds # {}
        /\ Continue("serving")
        /\ fds' = Opened(NewFd, "epoll") /\ exitflag' = FALSE
        /\ UNCHANGED svsocks
     \/ /\ Fail("SOFTWARE")
        /\ fds' = Closed(ServerFds)
        /\ svsocks' = <<-1, -1>>
        /\ UNCHANGED exitflag
  /\ UNCHANGED <<conf, logfd, nullfd, dspath, jail, cred, said, stray>>

\* The loop is entered with at least one server socket in the epoll set.
epoll_create ==
  /\ pc = "epoll_create"
  /\ \/ /\ \E n \in ServerFds : n \in DOMAIN fds /\ fds[n] \in Family
        /\ Continue("serving")
        /\ fds' = Opened(NewFd, "epoll")
        /\ UNCHANGED svsocks
     \/ /\ Fail("SOFTWARE")
        /\ fds' = Closed(ServerFds)
        /\ svsocks' = <<-1, -1>>
  /\ UNCHANGED <<conf, logfd, nullfd, dspath, jail, cred, exitflag, said, stray>>

\* The loop ends, or does not begin, when the flag is set.
service_end ==
  /\ pc = "serving" /\ exitflag
  /\ Continue("exit")
  /\ fds' = Closed(ServerFds \cup {n \in DOMAIN fds : fds[n] = "epoll"})
  /\ svsocks' = <<-1, -1>>
  /\ UNCHANGED <<conf, logfd, nullfd, dspath, jail, cred, exitflag, said, stray>>

\* iwtftp_exit and iwlog_exit, on both ways out of main.
Exit ==
  /\ End("exited", exitval)
  /\ fds' = Closed(ServerFds \cup {logfd})
  /\ svsocks' = <<-1, -1>>
  /\ UNCHANGED <<conf, logfd, nullfd, dspath, jail, cred, exitflag, stray>>

normal_exit == pc = "exit" /\ Exit /\ UNCHANGED said

\* Mutated form of Reached: messages go to the standard error throughout.
MutReached == IF 2 \in DOMAIN fds THEN fds[2] ELSE "nothing"

\* Where pmsg of main writes: the log when it is ready, the standard error
\* before.
Reached ==
  LET n == IF logfd >= 0 THEN logfd ELSE 2
  IN  IF n \in DOMAIN fds THEN fds[n] ELSE "nothing"

ferr ==
  /\ pc = "ferr"
  /\ Exit
  /\ said' = IF exitval = "USAGE" THEN said ELSE Reached

\* SIGTERM, SIGQUIT or SIGHUP, once there is a handler.
sig_handler ==
  /\ pc \notin {"set_svconf", "check_root", "init_signal", "exited", "crashed"}
  /\ ~exitflag /\ exitflag' = TRUE
  /\ UNCHANGED <<conf, pc, fds, logfd, nullfd, svsocks, dspath, jail, cred, exitval,
                 shown, said, stray>>

Main ==
  \/ set_svconf \/ check_root \/ init_signal \/ iwlog_init
  \/ fork \/ open_null \/ close_all \/ dup2 \/ setsid
  \/ iwds_init \/ get_ifaddress
  \/ ServerSocket("socket4", "ip4", "socket6") \/ ServerSocket("socket6", "ip6", "iwtftp_init")
  \/ iwtftp_init \/ getpwnam
  \/ chroot \/ chdir \/ iwds_set_chroot \/ set_credential
  \/ epoll_create \/ service_end \/ normal_exit \/ ferr

Ended == pc \in {"exited", "crashed"} /\ UNCHANGED vars

Next == Main \/ sig_handler \/ Ended

\* The process is scheduled.
Spec == Init /\ [][Next]_vars /\ WF_vars(Main)

----------------------------------------------------------------------------
(***************************************************************************)
(* Properties                                                              *)
(***************************************************************************)

\* Type invariant.
TypeOK ==
  /\ conf \in Configuration
  /\ DOMAIN fds \subseteq Fd
  /\ \A n \in DOMAIN fds : fds[n] \in {"inherited", "log", "null", "epoll"} \cup Family
  /\ logfd \in Fd \cup {-1} /\ nullfd \in Fd \cup {-1}
  /\ svsocks \in [1 .. 2 -> Fd \cup {-1}]
  /\ dspath \in {"none", "store", "/"}
  /\ jail \in [root : {"system", "store"}, cwd : {"start", "system", "store"}]
  /\ cred \in [uid : {"root", "other", "user"}, gid : {"caller", "user"},
               groups : {"caller", "user"}]
  /\ exitval \in {"OK", "USAGE", "OSERR", "SOFTWARE"}
  /\ shown \in {"running", "killed", "OK", "USAGE", "OSERR", "SOFTWARE"}
  /\ exitflag \in BOOLEAN /\ stray \in BOOLEAN

\* Whatever fails on the way, the event loop runs only inside the datastore,
\* with nothing left of root's identity, and the path by which it opens files
\* means the datastore: it became "/" exactly because the root did.
ServesConfined ==
  pc = "serving" =>
    /\ jail = [root |-> "store", cwd |-> "store"]
    /\ cred = [uid |-> "user", gid |-> "user", groups |-> "user"]
    /\ dspath = "/"

\* A process started with its standard descriptors serves with a table that
\* holds the null device as the standard descriptors, the log under the number
\* the log module knows, and one socket for every entry of svsocks, each of a
\* family that was asked for: nothing inherited is left, the steps of daemonize
\* disturb no number that is still in use, and the two blocks of iwtftp_init do
\* not lose each other's socket.  Unless create_socket closed a stranger.
ServesOpenDescriptors ==
  pc = "serving" /\ 0 .. 2 \subseteq conf.open /\ ~stray =>
    /\ \A n \in 0 .. 2 : fds[n] = "null"
    /\ logfd \in DOMAIN fds /\ fds[logfd] = "log"
    /\ \A n \in ServerFds : n \in DOMAIN fds /\ fds[n] \in conf.ipver
    /\ {n \in DOMAIN fds : fds[n] \in Family} = ServerFds
    /\ Cardinality({fds[n] : n \in ServerFds}) = Cardinality(ServerFds)
    /\ ~\E n \in DOMAIN fds : fds[n] = "inherited"

\* The status the caller sees is 0 for every failure after fork, because the
\* parent exits there.  So a failure of the system that the status does not show
\* is in the log; one that it shows is told where the operator looks for it, on
\* the standard error before the log is there, even half way through daemonize.
\* A wrong use is always shown.  The daemon's own status is 0 only after a
\* signal, and the caller's then is, too.
FailureReported ==
  pc = "exited" =>
    /\ exitval = "OK" => shown = "OK" /\ (conf.opts = "version" \/ exitflag)
    /\ exitval = "USAGE" => shown = "USAGE"
    /\ exitval \in {"OSERR", "SOFTWARE"} /\ 0 .. 2 \subseteq conf.open /\ ~stray =>
         \/ shown = "OK" /\ said = "log"
         \/ shown = exitval /\ said = IF logfd >= 0 THEN "log" ELSE "inherited"

\* A signal at any point after the handlers are installed, before the loop or
\* in it, ends the process.
SignalEnds == exitflag ~> pc \in {"exited", "crashed"}
============================================================================
