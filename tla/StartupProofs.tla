-------------------------- MODULE StartupProofs --------------------------
(***************************************************************************)
(* That the event loop runs only in the jail and without privileges, with  *)
(* the descriptors it needs and no other, and that a failure is reported,  *)
(* for every number of descriptors and whichever calls of the start fail.  *)
(*                                                                         *)
(* ServesConfined and ServesOpenDescriptors speak of the last step only.   *)
(* The invariants say what each of the steps before it has already         *)
(* secured: a step that fails goes to ferr, from where there is no way     *)
(* back.                                                                   *)
(***************************************************************************)
EXTENDS Startup, SequencesExt, FiniteSetTheorems, SequenceTheorems, TLAPS

\* The calls from some point on.
FromEpoll   == {"epoll_create", "serving"}
FromSetuid  == FromEpoll \cup {"setuid"}
FromGroups  == FromSetuid \cup {"initgroups"}
FromSetgid  == FromGroups \cup {"setgid"}
FromChrooted == FromSetgid \cup {"set_chroot"}

\* Root, then working directory.
Jailed ==
  /\ jail \in [root : {"system", "store"}, cwd : {"start", "system", "store"}]
  /\ pc \in FromChrooted \cup {"chdir"} => jail.root = "store"
  /\ pc \in FromChrooted => jail.cwd = "store"

\* Then the path of the datastore.
Repathed == pc \in FromSetgid => dspath = "/"

\* Then group, supplementary groups and user.
Unprivileged ==
  /\ cred \in [uid : {"root", "other", "user"}, gid : {"caller", "user"},
               groups : {"caller", "user"}]
  /\ pc \in FromGroups => cred.gid = "user"
  /\ pc \in FromSetuid => cred.groups = "user"
  /\ pc \in FromEpoll  => cred.uid = "user"

Secured == Jailed /\ Repathed /\ Unprivileged

USE DEF FromEpoll, FromSetuid, FromGroups, FromSetgid, FromChrooted

\* The start has secured nothing, and needs not to have.
LEMMA InitSecured == Init => Secured
BY DEF Init, Secured, Jailed, Repathed, Unprivileged

\* A step that leaves jail, path and credentials alone, and does not go to
\* where more is expected.
Aside(next) ==
  /\ UNCHANGED <<jail, dspath, cred>>
  /\ pc' \in {next, "ferr", "crashed", "exited", "exit"}

\* Such a step keeps what is secured.
LEMMA AsideKeeps ==
  ASSUME Secured, NEW next, Aside(next),
         next \notin FromChrooted \cup {"chdir"}
  PROVE  Secured'
BY DEF Secured, Jailed, Repathed, Unprivileged, Aside

\* The root, the working directory and the path of the datastore, in this order.
LEMMA JailSteps ==
  ASSUME Secured, chroot \/ chdir \/ iwds_set_chroot
  PROVE  Secured'
<1>1. CASE chroot
  BY <1>1 DEF chroot, Continue, Fail, Secured, Jailed, Repathed, Unprivileged
<1>2. CASE chdir
  BY <1>2 DEF chdir, Continue, Fail, Secured, Jailed, Repathed, Unprivileged
<1>3. CASE iwds_set_chroot
  BY <1>3 DEF iwds_set_chroot, Continue, Secured, Jailed, Repathed, Unprivileged
<1> QED
  BY <1>1, <1>2, <1>3

\* The three steps of set_credential.
LEMMA CredentialSteps ==
  ASSUME Secured, set_credential
  PROVE  Secured'
<1>1. CASE Credential("setgid", "gid", "initgroups")
  BY <1>1 DEF Credential, Continue, Fail, Secured, Jailed, Repathed, Unprivileged
<1>2. CASE Credential("initgroups", "groups", "setuid")
  BY <1>2 DEF Credential, Continue, Fail, Secured, Jailed, Repathed, Unprivileged
<1>3. CASE Credential("setuid", "uid", "epoll_create")
  BY <1>3 DEF Credential, Continue, Fail, Secured, Jailed, Repathed, Unprivileged
<1> QED
  BY <1>1, <1>2, <1>3 DEF set_credential

\* The loop is entered with all of it secured.
LEMMA ServiceSteps ==
  ASSUME Secured, epoll_create
  PROVE  Secured'
BY DEF epoll_create, Continue, Fail, Secured, Jailed, Repathed, Unprivileged

\* Before the credentials of the user are looked up nothing is secured: the
\* options, the log, the daemon, the datastore and the sockets.
LEMMA EarlySteps ==
  ASSUME Secured,
         \/ set_svconf \/ check_root \/ init_signal \/ iwlog_init
         \/ fork \/ open_null \/ close_all \/ dup2 \/ setsid
         \/ iwds_init \/ get_ifaddress
         \/ ServerSocket("socket4", "ip4", "socket6")
         \/ ServerSocket("socket6", "ip6", "iwtftp_init")
         \/ iwtftp_init \/ getpwnam
  PROVE  Secured'
<1>1. CASE set_svconf \/ check_root \/ iwtftp_init
  BY <1>1 DEF set_svconf, check_root, iwtftp_init, Continue, Fail, End,
              Secured, Jailed, Repathed, Unprivileged
<1>2. CASE init_signal \/ fork \/ setsid \/ getpwnam
  BY <1>2 DEF init_signal, fork, setsid, getpwnam, Plain, Continue, Fail,
              Secured, Jailed, Repathed, Unprivileged
<1>3. CASE iwlog_init
  <2> Aside("fork")
    BY <1>3 DEF iwlog_init, Continue, Fail, Crash, End, Aside
  <2> QED
    BY AsideKeeps
<1>4. CASE open_null
  <2> Aside("close_all")
    BY <1>4 DEF open_null, Continue, Fail, Aside
  <2> QED
    BY AsideKeeps
<1>5. CASE close_all
  <2> Aside("dup2")
    BY <1>5 DEF close_all, Continue, Aside
  <2> QED
    BY AsideKeeps
<1>6. CASE dup2
  <2> Aside("setsid")
    BY <1>6 DEF dup2, Continue, Fail, Aside
  <2> QED
    BY AsideKeeps
<1>7. CASE iwds_init
  BY <1>7 DEF iwds_init, Continue, Fail, Secured, Jailed, Repathed, Unprivileged
<1>8. CASE get_ifaddress
  <2> Aside("socket4")
    BY <1>8 DEF get_ifaddress, Continue, Fail, Crash, End, Aside
  <2> QED
    BY AsideKeeps
<1>9. CASE ServerSocket("socket4", "ip4", "socket6")
  <2> Aside("socket6")
    BY <1>9 DEF ServerSocket, Continue, Aside
  <2> QED
    BY AsideKeeps
<1>10. CASE ServerSocket("socket6", "ip6", "iwtftp_init")
  <2> Aside("iwtftp_init")
    BY <1>10 DEF ServerSocket, Continue, Aside
  <2> QED
    BY AsideKeeps
<1> QED
  BY <1>1, <1>2, <1>3, <1>4, <1>5, <1>6, <1>7, <1>8, <1>9, <1>10

\* The ways out.
LEMMA LateSteps ==
  ASSUME Secured, service_end \/ normal_exit \/ ferr
  PROVE  Secured'
<1> Aside("exit")
  BY DEF service_end, normal_exit, ferr, Exit, End, Continue, Aside
<1> QED
  BY AsideKeeps

\* Every step keeps what the steps before it secured.
LEMMA NextSecured == Secured /\ [Next]_vars => Secured'
<1> SUFFICES ASSUME Secured, [Next]_vars PROVE Secured'
  OBVIOUS
<1>1. CASE Main
  BY <1>1, EarlySteps, JailSteps, CredentialSteps, ServiceSteps, LateSteps DEF Main
<1>2. CASE sig_handler \/ Ended \/ UNCHANGED vars
  BY <1>2 DEF sig_handler, Ended, vars, Secured, Jailed, Repathed, Unprivileged
<1> QED
  BY <1>1, <1>2 DEF Next

\* The event loop runs only inside the datastore, without anything of root's,
\* and with the path that fits the new root, whichever calls fail.
THEOREM ServesConfinedHolds == Spec => []ServesConfined
<1>1. Secured => ServesConfined
  BY DEF Secured, Jailed, Repathed, Unprivileged, ServesConfined
<1> QED
  BY <1>1, InitSecured, NextSecured, PTL DEF Spec

----------------------------------------------------------------------------
(***************************************************************************)
(* The table of descriptors                                                *)
(***************************************************************************)

\* Before the log; with the log; with the null device; as a daemon, before the
\* sockets; after them, before the loop.
Early  == {"set_svconf", "check_root", "init_signal", "iwlog_init"}
Logged == {"fork", "null"}
Nulled == {"close_all", "dup2"}
Daemon == {"setsid", "iwds_init", "get_ifaddress", "socket4"}
Bound  == {"iwtftp_init", "getpwnam", "chroot", "chdir", "set_chroot", "setgid",
           "initgroups", "setuid", "epoll_create"}

\* The process was started with its standard descriptors, and create_socket
\* closed no stranger.
Standard == 0 .. 2 \subseteq conf.open /\ ~stray

\* The descriptors in use stay within the first few numbers: there is always a
\* free one.
Extent ==
  /\ pc \in Early => DOMAIN fds \subseteq 0 .. 3
  /\ pc \in Logged => DOMAIN fds \subseteq 0 .. 4
  /\ pc \in Nulled \cup Daemon => DOMAIN fds \subseteq 0 .. 5
  /\ pc = "socket6" => DOMAIN fds \subseteq 0 .. 6
  /\ pc \in Bound => DOMAIN fds \subseteq 0 .. 7

\* What iwlog_init and daemonize rely on.
Daemonizing ==
  /\ pc \in Early => logfd = -1 /\ fds = [n \in conf.open |-> "inherited"]
  /\ pc \in Logged \cup Nulled => logfd \in DOMAIN fds /\ fds[logfd] = "log"
  /\ pc \in Nulled =>
       nullfd \in DOMAIN fds /\ nullfd # logfd /\ fds[nullfd] = "null"
  /\ pc = "dup2" => DOMAIN fds = {logfd, nullfd}
  /\ pc \in Logged /\ Standard => 0 .. 2 \subseteq DOMAIN fds
  /\ pc \in Logged \cup Nulled /\ Standard => logfd \notin 0 .. 2
  /\ pc \in Nulled /\ Standard => nullfd \notin 0 .. 2

\* A message of pmsg reaches the log or, before it, the standard error.
Heard ==
  pc \notin {"exit", "exited", "crashed"} /\ Standard =>
    IF logfd >= 0 THEN logfd \in DOMAIN fds /\ fds[logfd] = "log"
    ELSE 2 \in DOMAIN fds /\ fds[2] = "inherited"

\* The table of ServesOpenDescriptors, from daemonize on.
Table ==
  pc \in Daemon \cup Bound \cup {"socket6", "serving"} /\ Standard =>
    /\ \A n \in 0 .. 2 : n \in DOMAIN fds /\ fds[n] = "null"
    /\ logfd \in DOMAIN fds /\ fds[logfd] = "log"
    /\ \A n \in DOMAIN fds : fds[n] # "inherited"
    /\ \A n \in ServerFds : n \in DOMAIN fds /\ fds[n] \in conf.ipver
    /\ {n \in DOMAIN fds : fds[n] \in Family} = ServerFds
    /\ \A m, n \in ServerFds : fds[m] = fds[n] => m = n
    /\ pc = "socket6" => \A n \in ServerFds : fds[n] = "ip4"

\* The entries of svsocks still to be filled.
Slots ==
  /\ pc \in Early \cup Logged \cup Nulled \cup Daemon => svsocks = <<-1, -1>>
  /\ pc = "socket6" => svsocks[2] = -1

\* The exit status is set on the way out only.
Status ==
  /\ pc \notin {"ferr", "exited"} => exitval = "OK"
  /\ pc = "ferr" => exitval # "OK"
  /\ pc = "exit" => exitflag

\* Main ends well only with the version shown or after a signal, and tells its
\* failures.
Told ==
  pc = "exited" =>
    /\ exitval = "OK" => conf.opts = "version" \/ exitflag
    /\ exitval \in {"OSERR", "SOFTWARE"} /\ Standard =>
         said = IF logfd >= 0 THEN "log" ELSE "inherited"

\* The inductive invariant.
Inv ==
  /\ TypeOK /\ Extent /\ Daemonizing /\ Heard /\ Table /\ Slots /\ Status
  /\ Told

\* The lowest free number, next to a few in use.
LEMMA NewFdType ==
  ASSUME NEW k \in 0 .. 7, DOMAIN fds \subseteq 0 .. k
  PROVE  /\ NewFd \in 0 .. k + 1 /\ NewFd \in Fd /\ NewFd \notin DOMAIN fds
         /\ \A m \in Nat : m < NewFd => m \in DOMAIN fds
<1> DEFINE S == Fd \ DOMAIN fds
<1>1. k + 1 \in S /\ S \subseteq Nat
  BY StartupAssumption DEF Fd
<1>2. PICK l \in S : \A m \in S : l <= m
  <2> HIDE DEF S
  <2> QED
    BY <1>1, SMT
<1>3. NewFd \in S /\ \A m \in S : NewFd <= m
  BY <1>2 DEF NewFd, Min
<1>4. NewFd <= k + 1 /\ NewFd \in Nat
  BY <1>1, <1>3
<1>5. ASSUME NEW m \in Nat, m < NewFd PROVE m \in DOMAIN fds
  <2>1. m \in Fd
    BY <1>4, <1>5, StartupAssumption DEF Fd
  <2>2. m \notin S
    BY <1>3, <1>4, <1>5
  <2> QED
    BY <2>1, <2>2
<1> QED
  BY <1>3, <1>4, <1>5

\* The status the caller sees is a status.
LEMMA ShownType ==
  ASSUME Inv, Main
  PROVE  shown' \in {"running", "killed", "OK", "USAGE", "OSERR", "SOFTWARE"}
<1>1. shown' \in {shown, exitval, "OK", "killed"}
  <2>1. CASE set_svconf \/ check_root \/ init_signal \/ iwlog_init \/ fork
    BY <2>1 DEF set_svconf, check_root, init_signal, iwlog_init, fork, Plain, Continue,
       Fail, End, Crash
  <2>2. CASE open_null \/ close_all \/ dup2 \/ setsid
    BY <2>2 DEF open_null, close_all, dup2, setsid, Plain, Continue, Fail
  <2>3. CASE iwds_init \/ get_ifaddress \/ iwtftp_init \/ getpwnam
    BY <2>3 DEF iwds_init, get_ifaddress, iwtftp_init, getpwnam, Plain, Continue, Fail,
       End, Crash
  <2>4. CASE \/ ServerSocket("socket4", "ip4", "socket6")
             \/ ServerSocket("socket6", "ip6", "iwtftp_init")
    BY <2>4 DEF ServerSocket, Continue
  <2>5. CASE chroot \/ chdir \/ iwds_set_chroot \/ set_credential
    BY <2>5 DEF chroot, chdir, iwds_set_chroot, set_credential, Credential, Continue, Fail
  <2>6. CASE epoll_create \/ service_end \/ normal_exit \/ ferr
    BY <2>6 DEF epoll_create, service_end, normal_exit, ferr, Exit, End, Continue, Fail
  <2> QED
    BY <2>1, <2>2, <2>3, <2>4, <2>5, <2>6 DEF Main
<1> QED
  BY <1>1 DEF Inv, TypeOK

\* A step that leaves the table alone, and stays in its phase or goes out.
LEMMA TableStays ==
  ASSUME Inv, UNCHANGED <<conf, fds, logfd, nullfd, svsocks, stray>>,
         TypeOK', Status', Told',
         \/ \E P \in {Early, Logged, Daemon, Bound} : pc \in P /\ pc' \in P
         \/ pc \notin {"exit", "exited", "crashed"} /\ pc' = "ferr"
         \/ pc' \in {"exited", "crashed"}
         \/ pc' = pc
  PROVE  Inv'
<1>1. Extent' /\ Slots'
  BY DEF Inv, Extent, Slots, Early, Logged, Nulled, Daemon, Bound
<1>2. Daemonizing'
  BY DEF Inv, Daemonizing, Standard, Early, Logged, Nulled, Daemon, Bound
<1>3. Heard'
  BY DEF Inv, Heard, Standard, Early, Logged, Nulled, Daemon, Bound
<1>4. Table'
  BY DEF Inv, Table, Standard, ServerFds, Early, Logged, Nulled, Daemon, Bound
<1> QED
  BY <1>1, <1>2, <1>3, <1>4 DEF Inv

\* Nothing is open yet but what the process was started with.
LEMMA InitInv == Init => Inv
<1> SUFFICES ASSUME Init PROVE Inv
  OBVIOUS
<1>1. conf \in Configuration /\ conf.open \subseteq 0 .. 3 /\ 0 .. 3 \subseteq Fd
  BY StartupAssumption DEF Init, Configuration, Fd
<1>2. TypeOK
  <2>1. svsocks \in [1 .. 2 -> Fd \cup {-1}]
    BY DEF Init
  <2>2. cred \in [uid : {"root", "other", "user"}, gid : {"caller", "user"},
                  groups : {"caller", "user"}]
    BY DEF Init
  <2>3. DOMAIN fds \subseteq Fd /\ \A n \in DOMAIN fds : fds[n] = "inherited"
    BY <1>1 DEF Init
  <2> QED
    BY <1>1, <2>1, <2>2, <2>3 DEF Init, TypeOK
<1>3. Extent /\ Slots /\ Status
  BY <1>1 DEF Init, Extent, Slots, Status, Early, Logged, Nulled, Daemon, Bound
<1>4. Daemonizing /\ Heard
  BY <1>1 DEF Init, Daemonizing, Heard, Standard, Early, Logged, Nulled
<1>5. Table /\ Told
  BY DEF Init, Table, Told, Daemon, Bound
<1> QED
  BY <1>2, <1>3, <1>4, <1>5 DEF Inv

\* The calls that open and close nothing.
LEMMA QuietSteps ==
  ASSUME Inv,
         \/ set_svconf \/ check_root \/ init_signal \/ fork \/ setsid
         \/ iwds_init \/ get_ifaddress \/ iwtftp_init \/ getpwnam
         \/ chroot \/ chdir \/ iwds_set_chroot \/ set_credential
  PROVE  Inv'
<1>1. UNCHANGED <<conf, fds, logfd, nullfd, svsocks, exitflag, said, stray>>
  BY DEF set_svconf, check_root, init_signal, fork, setsid, Plain, iwds_init,
         get_ifaddress, iwtftp_init, getpwnam, chroot, chdir, iwds_set_chroot,
         set_credential, Credential
<1>2. /\ pc \notin {"ferr", "exit", "exited", "crashed"}
      /\ \/ /\ exitval' = exitval
            /\ \/ \E P \in {Early, Logged, Daemon, Bound} : pc \in P /\ pc' \in P
               \/ pc' = "crashed"
               \/ pc' = "exited" /\ conf.opts = "version"
         \/ pc' = "ferr" /\ exitval' \in {"USAGE", "OSERR", "SOFTWARE"}
  <2>1. CASE set_svconf \/ check_root \/ init_signal
    BY <2>1 DEF set_svconf, check_root, init_signal, Plain, Continue, Fail, End, Early
  <2>2. CASE fork
    BY <2>2 DEF fork, Plain, Continue, Fail, Logged
  <2>3. CASE setsid \/ iwds_init \/ get_ifaddress
    BY <2>3 DEF setsid, Plain, iwds_init, get_ifaddress, Continue, Fail, Crash, End,
                Daemon
  <2>4. CASE iwtftp_init \/ getpwnam \/ chroot \/ chdir \/ iwds_set_chroot
    BY <2>4 DEF iwtftp_init, getpwnam, Plain, chroot, chdir, iwds_set_chroot,
                Continue, Fail, Bound
  <2>5. CASE set_credential
    BY <2>5 DEF set_credential, Credential, Continue, Fail, Bound
  <2> QED
    BY <2>1, <2>2, <2>3, <2>4, <2>5
<1>3. dspath' \in {"none", "store", "/"}
  BY DEF Inv, TypeOK, set_svconf, check_root, init_signal, fork, setsid, Plain,
         iwds_init, get_ifaddress, iwtftp_init, getpwnam, chroot, chdir,
         iwds_set_chroot, set_credential, Credential
<1>4. jail' \in [root : {"system", "store"}, cwd : {"start", "system", "store"}]
  BY DEF Inv, TypeOK, set_svconf, check_root, init_signal, fork, setsid, Plain,
         iwds_init, get_ifaddress, iwtftp_init, getpwnam, chroot, chdir,
         iwds_set_chroot, set_credential, Credential
<1>5. cred' \in [uid : {"root", "other", "user"}, gid : {"caller", "user"},
                 groups : {"caller", "user"}]
  BY DEF Inv, TypeOK, set_svconf, check_root, init_signal, fork, setsid, Plain,
         iwds_init, get_ifaddress, iwtftp_init, getpwnam, chroot, chdir,
         iwds_set_chroot, set_credential, Credential
<1>6. exitval' \in {"OK", "USAGE", "OSERR", "SOFTWARE"}
  BY <1>2 DEF Inv, TypeOK
<1>7. TypeOK'
  BY <1>1, <1>3, <1>4, <1>5, <1>6, ShownType DEF Inv, TypeOK, Main
<1>8. Status' /\ Told'
  BY <1>1, <1>2 DEF Inv, Status, Told, Early, Logged, Daemon, Bound
<1> QED
  BY <1>1, <1>2, <1>7, <1>8, TableStays

\* A signal, and the process that is gone.
LEMMA OtherSteps ==
  ASSUME Inv, sig_handler \/ Ended \/ UNCHANGED vars
  PROVE  Inv'
<1>1. /\ UNCHANGED <<conf, pc, fds, logfd, nullfd, svsocks, dspath, jail, cred,
                     exitval, shown, said, stray>>
      /\ exitflag' \in {TRUE, exitflag}
      /\ pc = "exited" => exitflag' = exitflag
  BY DEF sig_handler, Ended, vars
<1>2. TypeOK'
  <2>1. exitflag' \in BOOLEAN
    BY <1>1 DEF Inv, TypeOK
  <2> QED
    BY <1>1, <2>1 DEF Inv, TypeOK
<1>3. Status' /\ Told'
  <2>1. exitflag => exitflag'
    BY <1>1
  <2>2. Status'
    BY <1>1, <2>1 DEF Inv, Status
  <2>3. Told'
    BY <1>1, <2>1 DEF Inv, Told, Standard
  <2> QED
    BY <2>2, <2>3
<1> QED
  BY <1>1, <1>2, <1>3, TableStays

\* The log becomes a descriptor above the standard ones.
LEMMA LogStep ==
  ASSUME Inv, iwlog_init
  PROVE  Inv'
<1> DEFINE n == NewFd
<1>1. /\ pc = "iwlog_init" /\ logfd = -1 /\ exitval = "OK"
      /\ DOMAIN fds \subseteq 0 .. 3 /\ DOMAIN fds = conf.open
      /\ fds = [m \in conf.open |-> "inherited"] /\ svsocks = <<-1, -1>>
  BY DEF Inv, Extent, Daemonizing, Slots, Status, iwlog_init, Early
<1>2. /\ n \in 0 .. 4 /\ n \in Fd /\ n \notin DOMAIN fds
      /\ \A m \in Nat : m < n => m \in DOMAIN fds
  BY <1>1, NewFdType
<1>3. /\ UNCHANGED <<conf, nullfd, svsocks, dspath, jail, cred, exitflag, said, stray>>
      /\ \/ pc' = "fork" /\ logfd' = n /\ fds' = Opened(n, "log") /\ exitval' = exitval
         \/ /\ pc' = "ferr" /\ exitval' = "SOFTWARE" /\ logfd' = logfd
            /\ fds' = IF n > 0 THEN fds ELSE Opened(n, "log")
         \/ pc' = "crashed" /\ UNCHANGED <<exitval, fds, logfd>>
  BY DEF iwlog_init, Continue, Fail, Crash, End
<1> HIDE DEF n
<1>4. /\ DOMAIN fds' \subseteq DOMAIN fds \cup {n}
      /\ \A m \in DOMAIN fds' : fds'[m] = IF m = n THEN "log" ELSE "inherited"
  BY <1>1, <1>2, <1>3 DEF Opened
<1>5. TypeOK'
  <2>1. shown' \in {"running", "killed", "OK", "USAGE", "OSERR", "SOFTWARE"}
    BY ShownType DEF Main
  <2> QED
    BY <1>1, <1>2, <1>3, <1>4, <2>1 DEF Inv, TypeOK
<1>6. Extent' /\ Slots' /\ Status' /\ Told'
  BY <1>1, <1>2, <1>3, <1>4 DEF Extent, Slots, Status, Told,
     Early, Logged, Nulled, Daemon, Bound
<1>7. Standard => n \notin 0 .. 2 /\ 0 .. 2 \subseteq DOMAIN fds
  BY <1>1, <1>2 DEF Standard
<1>8. Daemonizing'
  BY <1>1, <1>2, <1>3, <1>7 DEF Daemonizing, Standard, Opened, Early, Logged, Nulled
<1>9. Heard'
  BY <1>1, <1>2, <1>3, <1>7 DEF Heard, Standard, Opened
<1>10. Table'
  BY <1>3 DEF Table, Daemon, Bound
<1> QED
  BY <1>5, <1>6, <1>8, <1>9, <1>10 DEF Inv

\* The null device gets a descriptor of its own.
LEMMA NullStep ==
  ASSUME Inv, open_null
  PROVE  Inv'
<1> DEFINE n == NewFd
<1>1. /\ pc = "null" /\ exitval = "OK" /\ svsocks = <<-1, -1>>
      /\ DOMAIN fds \subseteq 0 .. 4
      /\ logfd \in DOMAIN fds /\ fds[logfd] = "log" /\ logfd \in Fd
      /\ Standard => 0 .. 2 \subseteq DOMAIN fds /\ logfd \notin 0 .. 2
  BY DEF Inv, TypeOK, Extent, Daemonizing, Slots, Status, open_null, Logged
<1>2. n \in 0 .. 5 /\ n \in Fd /\ n \notin DOMAIN fds
  BY <1>1, NewFdType
<1>3. /\ UNCHANGED <<conf, logfd, svsocks, dspath, jail, cred, exitflag, said, stray>>
      /\ \/ /\ pc' = "close_all" /\ nullfd' = n /\ fds' = Opened(n, "null")
            /\ exitval' = exitval
         \/ pc' = "ferr" /\ exitval' = "OSERR" /\ UNCHANGED <<nullfd, fds>>
  BY DEF open_null, Continue, Fail
<1> HIDE DEF n
<1>4. /\ DOMAIN fds' \subseteq DOMAIN fds \cup {n} /\ DOMAIN fds \subseteq DOMAIN fds'
      /\ \A m \in DOMAIN fds : fds'[m] = fds[m]
      /\ n \in DOMAIN fds' => fds'[n] = "null"
  BY <1>2, <1>3 DEF Opened
<1>5. TypeOK'
  <2>1. \A m \in DOMAIN fds' :
          fds'[m] \in {"inherited", "log", "null", "epoll"} \cup Family
    BY <1>4 DEF Inv, TypeOK
  <2>2. shown' \in {"running", "killed", "OK", "USAGE", "OSERR", "SOFTWARE"}
    BY ShownType DEF Main
  <2> QED
    BY <1>2, <1>3, <1>4, <2>1, <2>2 DEF Inv, TypeOK
<1>6. Extent' /\ Slots' /\ Status' /\ Told'
  BY <1>1, <1>2, <1>3, <1>4 DEF Extent, Slots, Status, Told,
     Early, Logged, Nulled, Daemon, Bound
<1>7. Daemonizing'
  <2>1. pc' = "close_all" => nullfd' = n /\ n \in DOMAIN fds'
    BY <1>3 DEF Opened
  <2> QED
    BY <1>1, <1>2, <1>3, <1>4, <2>1 DEF Daemonizing, Standard, Early, Logged, Nulled
<1>8. Heard'
  BY <1>1, <1>3, <1>4 DEF Heard, Standard, Fd
<1>9. Table'
  BY <1>3 DEF Table, Daemon, Bound
<1> QED
  BY <1>5, <1>6, <1>7, <1>8, <1>9 DEF Inv

\* Everything but the log and the null device is closed.
LEMMA CloseStep ==
  ASSUME Inv, close_all
  PROVE  Inv'
<1>1. /\ pc = "close_all" /\ exitval = "OK" /\ svsocks = <<-1, -1>>
      /\ DOMAIN fds \subseteq 0 .. 5
      /\ logfd \in DOMAIN fds /\ fds[logfd] = "log" /\ logfd \in Fd
      /\ nullfd \in DOMAIN fds /\ nullfd # logfd /\ fds[nullfd] = "null"
      /\ Standard => logfd \notin 0 .. 2 /\ nullfd \notin 0 .. 2
  BY DEF Inv, TypeOK, Extent, Daemonizing, Slots, Status, close_all, Nulled
<1>2. /\ UNCHANGED <<conf, logfd, nullfd, svsocks, dspath, jail, cred, exitval,
                     exitflag, said, stray>>
      /\ pc' = "dup2" /\ fds' = [m \in {logfd, nullfd} |-> fds[m]]
  BY DEF close_all, Continue
<1>3. /\ DOMAIN fds' = {logfd, nullfd} /\ fds'[logfd] = "log" /\ fds'[nullfd] = "null"
      /\ DOMAIN fds' \subseteq DOMAIN fds
  BY <1>1, <1>2
<1>4. TypeOK'
  <2>1. shown' \in {"running", "killed", "OK", "USAGE", "OSERR", "SOFTWARE"}
    BY ShownType DEF Main
  <2> QED
    BY <1>2, <1>3, <2>1 DEF Inv, TypeOK
<1>5. Extent' /\ Slots' /\ Status' /\ Told'
  BY <1>1, <1>2, <1>3 DEF Extent, Slots, Status, Told,
     Early, Logged, Nulled, Daemon, Bound
<1>6. Daemonizing'
  BY <1>1, <1>2, <1>3 DEF Daemonizing, Standard, Early, Logged, Nulled
<1>7. Heard'
  BY <1>1, <1>2, <1>3 DEF Heard, Standard, Fd
<1>8. Table'
  BY <1>2 DEF Table, Daemon, Bound
<1> QED
  BY <1>4, <1>5, <1>6, <1>7, <1>8 DEF Inv

\* The null device becomes the standard descriptors.  The log is none of them,
\* so it stays, also when one of the three calls fails.
LEMMA DupStep ==
  ASSUME Inv, dup2
  PROVE  Inv'
<1>1. /\ pc = "dup2" /\ exitval = "OK" /\ svsocks = <<-1, -1>>
      /\ DOMAIN fds \subseteq 0 .. 5 /\ DOMAIN fds = {logfd, nullfd}
      /\ fds[logfd] = "log" /\ logfd \in Fd /\ nullfd # logfd /\ fds[nullfd] = "null"
      /\ Standard => logfd \notin 0 .. 2 /\ nullfd \notin 0 .. 2
  BY DEF Inv, TypeOK, Extent, Daemonizing, Slots, Status, dup2, Nulled
<1>2. /\ UNCHANGED <<conf, logfd, nullfd, svsocks, dspath, jail, cred, exitflag, said,
                     stray>>
      /\ \/ /\ pc' = "setsid" /\ exitval' = exitval
            /\ fds' = [n \in (DOMAIN fds \cup 0 .. 2) \ {nullfd} |->
                         IF n \in 0 .. 2 THEN "null" ELSE fds[n]]
         \/ /\ pc' = "ferr" /\ exitval' = "OSERR"
            /\ \E k \in 0 .. 2 :
                 fds' = [n \in DOMAIN fds \cup 0 .. k - 1 |->
                           IF n < k THEN "null" ELSE fds[n]]
  BY DEF dup2, Continue, Fail
<1>3. 0 .. 2 \subseteq Fd /\ \A k \in 0 .. 2 : 0 .. k - 1 \subseteq 0 .. 2
  BY StartupAssumption DEF Fd
<1>4. /\ DOMAIN fds' \subseteq DOMAIN fds \cup 0 .. 2
      /\ \A m \in DOMAIN fds' : fds'[m] \in {"log", "null"}
  <2>1. CASE pc' = "setsid"
    BY <1>1, <1>2, <2>1
  <2>2. CASE pc' = "ferr"
    <3>1. PICK k \in 0 .. 2 :
            fds' = [n \in DOMAIN fds \cup 0 .. k - 1 |-> IF n < k THEN "null" ELSE fds[n]]
      BY <1>2, <2>2
    <3>2. DOMAIN fds \subseteq Int
      BY <1>1
    <3>3. \A m \in 0 .. k - 1 : m < k
      BY <3>1
    <3> QED
      BY <1>1, <1>3, <3>1, <3>2, <3>3
  <2> QED
    BY <1>2, <2>1, <2>2
<1>5. Standard => logfd \in DOMAIN fds' /\ fds'[logfd] = "log"
  <2>1. CASE pc' = "setsid"
    BY <1>1, <1>2, <2>1
  <2>2. CASE pc' = "ferr"
    <3>1. PICK k \in 0 .. 2 :
            fds' = [n \in DOMAIN fds \cup 0 .. k - 1 |-> IF n < k THEN "null" ELSE fds[n]]
      BY <1>2, <2>2
    <3>2. Standard => ~(logfd < k)
      BY <1>1, <3>1 DEF Fd
    <3> QED
      BY <1>1, <3>1, <3>2
  <2> QED
    BY <1>2, <2>1, <2>2
<1>6. TypeOK'
  <2>1. shown' \in {"running", "killed", "OK", "USAGE", "OSERR", "SOFTWARE"}
    BY ShownType DEF Main
  <2> QED
    BY <1>1, <1>2, <1>3, <1>4, <2>1 DEF Inv, TypeOK
<1>7. Extent' /\ Slots' /\ Status' /\ Told'
  BY <1>1, <1>2, <1>4 DEF Extent, Slots, Status, Told,
     Early, Logged, Nulled, Daemon, Bound
<1>8. Daemonizing'
  BY <1>2 DEF Daemonizing, Early, Logged, Nulled
<1>9. Heard'
  BY <1>1, <1>2, <1>5 DEF Heard, Standard, Fd
<1>10. Table'
  <2>1. SUFFICES ASSUME pc' = "setsid", Standard
                 PROVE  Table'
    BY <1>2 DEF Table, Standard, Daemon, Bound
  <2>2. ServerFds' = {}
    BY <1>1, <1>2 DEF ServerFds
  <2>3. \A m \in 0 .. 2 : m \in DOMAIN fds' /\ fds'[m] = "null"
    BY <1>1, <1>2, <2>1
  <2>4. {m \in DOMAIN fds' : fds'[m] \in Family} = {}
    BY <1>4 DEF Family
  <2>5. \A m \in DOMAIN fds' : fds'[m] # "inherited"
    BY <1>4
  <2>6. logfd' \in DOMAIN fds' /\ fds'[logfd'] = "log"
    BY <1>2, <1>5, <2>1
  <2> QED
    BY <2>1, <2>2, <2>3, <2>4, <2>5, <2>6 DEF Table
<1> QED
  BY <1>6, <1>7, <1>8, <1>9, <1>10 DEF Inv

\* The block of iwtftp_init uses an entry that is free.
LEMMA SlotType ==
  ASSUME Inv, svsocks[2] = -1
  PROVE  /\ Slot \in 1 .. 2 /\ svsocks[Slot] = -1
         /\ svsocks[1] = -1 => Slot = 1
<1> DEFINE S == {i \in 1 .. 2 : svsocks[i] < 0}
<1>1. /\ \A i \in 1 .. 2 : svsocks[i] \in Fd \cup {-1}
      /\ \A n \in Fd : n >= 0
  BY DEF Inv, TypeOK, Fd
<1>2. 2 \in S /\ S \in SUBSET Nat
  OBVIOUS
<1>3. PICK l \in S : \A i \in S : l <= i
  <2> HIDE DEF S
  <2> QED
    BY <1>2
<1>4. Slot \in S /\ \A i \in S : Slot <= i
  BY <1>3 DEF Slot, Min
<1>5. svsocks[1] = -1 => 1 \in S
  OBVIOUS
<1>6. Slot \in 1 .. 2 /\ svsocks[Slot] < 0
  BY <1>4
<1> HIDE DEF S
<1>7. svsocks[1] = -1 => Slot = 1
  BY <1>4, <1>5, <1>6
<1>8. svsocks[Slot] = -1
  <2>1. svsocks[Slot] \in Fd \cup {-1}
    BY <1>1, <1>6
  <2> QED
    BY <1>6, <2>1 DEF Fd
<1> QED
  BY <1>6, <1>7, <1>8

\* What a block of iwtftp_init does: a new socket, under a new number, in a
\* free entry; or no socket, and the table as it was or a stranger closed.
Binds(family, n) ==
  /\ family \in conf.ipver /\ n \in Fd /\ n \notin DOMAIN fds
  /\ DOMAIN fds' = DOMAIN fds \cup {n} /\ fds'[n] = family
  /\ \A m \in DOMAIN fds : fds'[m] = fds[m]
  /\ svsocks' = [svsocks EXCEPT ![Slot] = n] /\ stray' = stray

\* The other outcome.
BindsNone ==
  /\ DOMAIN fds' \subseteq DOMAIN fds /\ \A m \in DOMAIN fds' : fds'[m] = fds[m]
  /\ stray' \in BOOLEAN
  /\ ~stray' => ~stray /\ DOMAIN fds' = DOMAIN fds
  /\ svsocks' = svsocks

\* Every outcome of create_socket is one of the two.
LEMMA SocketEffect ==
  ASSUME Inv, NEW here, NEW family, NEW next, ServerSocket(here, family, next),
         NEW k \in 0 .. 7, DOMAIN fds \subseteq 0 .. k, svsocks[2] = -1
  PROVE  \/ \E n \in 0 .. k + 1 : Binds(family, n)
         \/ BindsNone
<1>1. CASE family \notin conf.ipver
  BY <1>1 DEF ServerSocket, BindsNone, Inv, TypeOK
<1>2. CASE family \in conf.ipver
  <2>1. PICK r \in create_socket(family) :
          fds' = r.fds /\ stray' = r.stray /\ svsocks' = [svsocks EXCEPT ![Slot] = r.sock]
    BY <1>2 DEF ServerSocket
  <2>2. NewFd \in 0 .. k + 1 /\ NewFd \in Fd /\ NewFd \notin DOMAIN fds
    BY NewFdType
  <2>3. Slot \in 1 .. 2 /\ svsocks[Slot] = -1 /\ svsocks \in [1 .. 2 -> Fd \cup {-1}]
    BY SlotType DEF Inv, TypeOK
  <2>4. r.sock = -1 => svsocks' = svsocks
    BY <2>1, <2>3
  <2>5. CASE r = [sock |-> NewFd, fds |-> Opened(NewFd, family), stray |-> stray]
    <3>1. Binds(family, NewFd)
      BY <1>2, <2>1, <2>2, <2>5 DEF Binds, Opened
    <3> QED
      BY <2>2, <3>1
  <2>6. CASE r = [sock |-> -1, fds |-> fds, stray |-> stray]
    BY <2>1, <2>4, <2>6 DEF BindsNone, Inv, TypeOK
  <2>7. CASE \E n \in Fd : r = [sock |-> -1, fds |-> Closed({n}),
                              stray |-> stray \/ n \in DOMAIN fds]
    <3>1. PICK n \in Fd : r = [sock |-> -1, fds |-> Closed({n}),
                              stray |-> stray \/ n \in DOMAIN fds]
      BY <2>7
    <3>2. svsocks' = svsocks /\ fds' = [m \in DOMAIN fds \ {n} |-> fds[m]]
      BY <2>1, <2>4, <3>1 DEF Closed
    <3>3. stray' = (stray \/ n \in DOMAIN fds)
      BY <2>1, <3>1
    <3> QED
      BY <3>2, <3>3 DEF BindsNone
  <2> QED
    BY <2>1, <2>5, <2>6, <2>7 DEF create_socket
<1> QED
  BY <1>1, <1>2

\* The table and the entries of svsocks agree after a block of iwtftp_init: the
\* second socket is of the other family, and in the other entry.
LEMMA SocketTable ==
  ASSUME Inv, NEW family \in Family, NEW n, Binds(family, n) \/ BindsNone,
         UNCHANGED <<conf, logfd>>,
         \/ pc = "socket4" /\ pc' = "socket6" /\ family = "ip4"
         \/ pc = "socket6" /\ pc' = "iwtftp_init" /\ family = "ip6"
  PROVE  Table'
<1> SUFFICES ASSUME Standard' PROVE Table'
  BY DEF Table
<1>1. Standard
  BY DEF Standard, Binds, BindsNone, Inv, TypeOK
<1>2. /\ \A m \in 0 .. 2 : m \in DOMAIN fds /\ fds[m] = "null"
      /\ logfd \in DOMAIN fds /\ fds[logfd] = "log"
      /\ \A m \in DOMAIN fds : fds[m] # "inherited"
      /\ \A m \in ServerFds : m \in DOMAIN fds /\ fds[m] \in conf.ipver
      /\ {m \in DOMAIN fds : fds[m] \in Family} = ServerFds
      /\ \A l, m \in ServerFds : fds[l] = fds[m] => l = m
      /\ pc = "socket6" => \A m \in ServerFds : fds[m] = "ip4"
  BY <1>1 DEF Inv, Table, Daemon
<1>3. svsocks[2] = -1 /\ (pc = "socket4" => svsocks[1] = -1)
  BY DEF Inv, Slots, Daemon
<1>4. pc = "socket4" => ServerFds = {}
  BY <1>3 DEF ServerFds
<1>5. \A m \in DOMAIN fds' : fds'[m] # "inherited"
  BY <1>2 DEF Binds, BindsNone, Family
<1>6. DOMAIN fds \subseteq DOMAIN fds' /\ \A m \in DOMAIN fds : fds'[m] = fds[m]
  BY DEF Binds, BindsNone, Standard
<1>7. \A m \in 0 .. 2 : m \in DOMAIN fds' /\ fds'[m] = "null"
  BY <1>2, <1>6
<1>8. logfd' \in DOMAIN fds' /\ fds'[logfd'] = "log"
  BY <1>2, <1>6
<1>9. CASE BindsNone
  <2>1. ServerFds' = ServerFds /\ DOMAIN fds' = DOMAIN fds
    BY <1>9 DEF BindsNone, ServerFds, Standard
  <2>2. {m \in DOMAIN fds' : fds'[m] \in Family} = ServerFds'
    BY <1>2, <1>6, <2>1
  <2>3. pc' = "socket6" => ServerFds' = {}
    BY <1>4, <2>1
  <2> QED
    BY <1>2, <1>5, <1>6, <1>7, <1>8, <2>1, <2>2, <2>3 DEF Table
<1>10. CASE Binds(family, n)
  <2>1. /\ n \in Fd /\ n # -1 /\ n \notin DOMAIN fds /\ family \in conf.ipver
        /\ DOMAIN fds' = DOMAIN fds \cup {n} /\ fds'[n] = family
    BY <1>10 DEF Binds, Fd
  <2>2. ServerFds' = ServerFds \cup {n}
    <3>1. Slot \in 1 .. 2 /\ svsocks[Slot] = -1 /\ svsocks \in [1 .. 2 -> Fd \cup {-1}]
      BY <1>3, SlotType DEF Inv, TypeOK
    <3>2. /\ svsocks' \in [1 .. 2 -> Fd \cup {-1}]
          /\ \A i \in 1 .. 2 : svsocks'[i] = IF i = Slot THEN n ELSE svsocks[i]
      BY <1>10, <2>1, <3>1 DEF Binds
    <3>3. \A x : x \in ServerFds' <=> x \in ServerFds \cup {n}
      BY <2>1, <3>1, <3>2 DEF ServerFds
    <3> QED
      BY <3>3
  <2>3. {m \in DOMAIN fds' : fds'[m] \in Family} = ServerFds'
    BY <1>2, <1>6, <2>1, <2>2
  <2>4. \A m \in ServerFds' : m \in DOMAIN fds' /\ fds'[m] \in conf'.ipver
    BY <1>2, <1>6, <2>1, <2>2
  <2>5. \A m \in ServerFds : fds'[m] # family
    BY <1>2, <1>4, <1>6
  <2>6. \A l, m \in ServerFds' : fds'[l] = fds'[m] => l = m
    BY <1>2, <1>6, <2>1, <2>2, <2>5
  <2>7. pc' = "socket6" => \A m \in ServerFds' : fds'[m] = "ip4"
    BY <1>4, <2>1, <2>2
  <2> QED
    BY <1>5, <1>7, <1>8, <2>3, <2>4, <2>6, <2>7 DEF Table
<1> QED
  BY <1>9, <1>10

\* The two blocks of iwtftp_init.
LEMMA SocketSteps ==
  ASSUME Inv, NEW here, NEW family \in Family, NEW next,
         ServerSocket(here, family, next),
         \/ here = "socket4" /\ next = "socket6" /\ family = "ip4"
         \/ here = "socket6" /\ next = "iwtftp_init" /\ family = "ip6"
  PROVE  Inv'
<1>1. /\ pc = here /\ pc' = next /\ exitval' = exitval
      /\ UNCHANGED <<conf, logfd, nullfd, dspath, jail, cred, exitflag, said>>
  BY DEF ServerSocket, Continue
<1> DEFINE k == IF pc = "socket4" THEN 5 ELSE 6
<1>2. /\ k \in 0 .. 7 /\ DOMAIN fds \subseteq 0 .. k /\ svsocks[2] = -1
      /\ exitval = "OK"
  BY <1>1 DEF Inv, Extent, Slots, Status, Daemon
<1>3. (\E n \in 0 .. k + 1 : Binds(family, n)) \/ BindsNone
  <2> HIDE DEF k
  <2> QED
    BY <1>2, SocketEffect
<1>4. PICK n \in 0 .. k + 1 : Binds(family, n) \/ BindsNone
  BY <1>2, <1>3
<1>5. Table'
  BY <1>1, <1>4, SocketTable
<1>6. /\ DOMAIN fds' \subseteq DOMAIN fds \cup {n}
      /\ \A m \in DOMAIN fds' : fds'[m] = fds[m] \/ (m = n /\ fds'[m] = family)
      /\ n \in DOMAIN fds' => n \in DOMAIN fds \/ n \in Fd
  BY <1>4 DEF Binds, BindsNone
<1>7. Slot \in 1 .. 2 /\ (pc = "socket4" => Slot = 1)
  BY <1>1, <1>2, SlotType DEF Inv, Slots, Daemon
<1>8. svsocks' \in [1 .. 2 -> Fd \cup {-1}] /\ stray' \in BOOLEAN
  BY <1>4, <1>7 DEF Inv, TypeOK, Binds, BindsNone
<1>9. TypeOK'
  <2>1. DOMAIN fds' \subseteq Fd
    BY <1>4, <1>6 DEF Inv, TypeOK, Binds, BindsNone
  <2>2. \A m \in DOMAIN fds' :
          fds'[m] \in {"inherited", "log", "null", "epoll"} \cup Family
    BY <1>4 DEF Inv, TypeOK, Binds, BindsNone
  <2>3. shown' = shown
    BY DEF ServerSocket, Continue
  <2> QED
    BY <1>1, <1>8, <2>1, <2>2, <2>3 DEF Inv, TypeOK
<1>10. Extent' /\ Status' /\ Told' /\ Daemonizing'
  BY <1>1, <1>2, <1>6 DEF Extent, Status, Told, Daemonizing,
     Early, Logged, Nulled, Daemon, Bound
<1>11. Slots'
  <2>1. pc' = "socket6" => svsocks'[2] = svsocks[2]
    BY <1>1, <1>4, <1>7 DEF Inv, TypeOK, Binds, BindsNone
  <2> QED
    BY <1>1, <1>2, <2>1 DEF Slots, Early, Logged, Nulled, Daemon
<1>12. Heard'
  <2>1. Standard' => Standard /\ \A m \in DOMAIN fds : m \in DOMAIN fds' /\ fds'[m] = fds[m]
    BY <1>1, <1>4 DEF Standard, Binds, BindsNone, Inv, TypeOK
  <2> QED
    BY <1>1, <2>1 DEF Inv, Heard
<1> QED
  BY <1>5, <1>9, <1>10, <1>11, <1>12 DEF Inv

\* Closing some of the descriptors leaves the table's type, and no entry in
\* svsocks is one too.
LEMMA ClosingType ==
  ASSUME TypeOK, NEW N, fds' = Closed(N), svsocks' = <<-1, -1>>,
         UNCHANGED <<conf, logfd, nullfd, dspath, jail, cred, exitflag, stray>>,
         exitval' \in {"OK", "USAGE", "OSERR", "SOFTWARE"},
         shown' \in {"running", "killed", "OK", "USAGE", "OSERR", "SOFTWARE"}
  PROVE  TypeOK'
<1>1. DOMAIN fds' \subseteq DOMAIN fds /\ \A m \in DOMAIN fds' : fds'[m] = fds[m]
  BY DEF Closed
<1>2. svsocks' \in [1 .. 2 -> Fd \cup {-1}]
  OBVIOUS
<1> QED
  BY <1>1, <1>2 DEF TypeOK

\* The loop is entered with one more descriptor, or the sockets are closed and
\* the log is not one of them.
LEMMA EpollStep ==
  ASSUME Inv, epoll_create
  PROVE  Inv'
<1>1. /\ pc = "epoll_create" /\ exitval = "OK" /\ DOMAIN fds \subseteq 0 .. 7
      /\ UNCHANGED <<conf, logfd, nullfd, dspath, jail, cred, exitflag, said, stray>>
  BY DEF Inv, Extent, Status, epoll_create, Bound
<1>2. CASE pc' = "serving"
  <2> DEFINE n == NewFd
  <2>1. /\ fds' = Opened(n, "epoll") /\ UNCHANGED <<svsocks, exitval, shown>>
    BY <1>2 DEF epoll_create, Continue, Fail
  <2>2. n \in Fd /\ n \notin DOMAIN fds
    BY <1>1, NewFdType
  <2> HIDE DEF n
  <2>3. /\ DOMAIN fds' = DOMAIN fds \cup {n} /\ fds'[n] = "epoll"
        /\ \A m \in DOMAIN fds : fds'[m] = fds[m]
    BY <2>1, <2>2 DEF Opened
  <2>4. TypeOK'
    BY <1>1, <2>1, <2>2, <2>3 DEF Inv, TypeOK
  <2>5. Extent' /\ Daemonizing' /\ Slots' /\ Status' /\ Told'
    BY <1>1, <1>2, <2>1 DEF Extent, Daemonizing, Slots, Status, Told,
       Early, Logged, Nulled, Daemon, Bound
  <2>6. Heard'
    BY <1>1, <1>2, <2>2, <2>3 DEF Inv, Heard, Standard
  <2>7. Table'
    <3> SUFFICES ASSUME Standard' PROVE Table'
      BY DEF Table
    <3>1. /\ \A m \in 0 .. 2 : m \in DOMAIN fds /\ fds[m] = "null"
          /\ logfd \in DOMAIN fds /\ fds[logfd] = "log"
          /\ \A m \in DOMAIN fds : fds[m] # "inherited"
          /\ \A m \in ServerFds : m \in DOMAIN fds /\ fds[m] \in conf.ipver
          /\ {m \in DOMAIN fds : fds[m] \in Family} = ServerFds
          /\ \A l, m \in ServerFds : fds[l] = fds[m] => l = m
      BY <1>1 DEF Inv, Table, Bound, Standard
    <3>2. ServerFds' = ServerFds
      BY <2>1 DEF ServerFds
    <3>3. {m \in DOMAIN fds' : fds'[m] \in Family} = ServerFds'
      BY <2>3, <3>1, <3>2 DEF Family
    <3>4. \A m \in DOMAIN fds' : fds'[m] # "inherited"
      BY <2>3, <3>1
    <3>5. /\ \A m \in 0 .. 2 : m \in DOMAIN fds' /\ fds'[m] = "null"
          /\ logfd' \in DOMAIN fds' /\ fds'[logfd'] = "log"
      BY <1>1, <2>3, <3>1
    <3>6. /\ \A m \in ServerFds' : m \in DOMAIN fds' /\ fds'[m] \in conf'.ipver
          /\ \A l, m \in ServerFds' : fds'[l] = fds'[m] => l = m
      BY <1>1, <2>3, <3>1, <3>2
    <3> QED
      BY <1>2, <3>3, <3>4, <3>5, <3>6 DEF Table
  <2> QED
    BY <2>4, <2>5, <2>6, <2>7 DEF Inv
<1>3. CASE pc' = "ferr"
  <2>1. exitval' = "SOFTWARE" /\ fds' = Closed(ServerFds) /\ svsocks' = <<-1, -1>>
    BY <1>3 DEF epoll_create, Continue, Fail
  <2>2. TypeOK'
    BY <1>1, <2>1, ShownType, ClosingType DEF Inv, Main
  <2>3. Extent' /\ Daemonizing' /\ Table' /\ Slots' /\ Status' /\ Told'
    BY <1>3, <2>1 DEF Extent, Daemonizing, Table, Slots, Status, Told,
       Early, Logged, Nulled, Daemon, Bound
  <2>4. Heard'
    <3>1. Standard => /\ logfd \in DOMAIN fds /\ fds[logfd] = "log" /\ logfd >= 0
                      /\ logfd \notin ServerFds
      <4>1. Standard => /\ logfd \in DOMAIN fds /\ fds[logfd] = "log"
                        /\ {m \in DOMAIN fds : fds[m] \in Family} = ServerFds
        BY <1>1 DEF Inv, Table, Bound
      <4> QED
        BY <1>1, <4>1 DEF Family
    <3>2. Standard' => logfd' >= 0 /\ logfd' \in DOMAIN fds' /\ fds'[logfd'] = "log"
      BY <1>1, <2>1, <3>1 DEF Closed, Standard
    <3> QED
      BY <3>2 DEF Heard
  <2> QED
    BY <2>2, <2>3, <2>4 DEF Inv
<1> QED
  BY <1>2, <1>3 DEF epoll_create, Continue, Fail

\* The ways out: a signal was what ended the loop, and a failure is told before
\* the log is closed.
LEMMA ExitSteps ==
  ASSUME Inv, service_end \/ normal_exit \/ ferr
  PROVE  Inv'
<1>1. /\ \E N : fds' = Closed(N)
      /\ svsocks' = <<-1, -1>> /\ exitval' = exitval
      /\ UNCHANGED <<conf, logfd, nullfd, dspath, jail, cred, exitflag, stray>>
      /\ pc' \in {"exit", "exited"}
  BY DEF service_end, normal_exit, ferr, Exit, End, Continue
<1>2. TypeOK'
  <2>1. exitval' \in {"OK", "USAGE", "OSERR", "SOFTWARE"}
    BY <1>1 DEF Inv, TypeOK
  <2>2. PICK N : fds' = Closed(N)
    BY <1>1
  <2>3. shown' \in {"running", "killed", "OK", "USAGE", "OSERR", "SOFTWARE"}
    BY ShownType DEF Main
  <2> QED
    BY <1>1, <2>1, <2>2, <2>3, ClosingType DEF Inv
<1>3. Extent' /\ Daemonizing' /\ Heard' /\ Table' /\ Slots'
  BY <1>1 DEF Extent, Daemonizing, Heard, Table, Slots,
     Early, Logged, Nulled, Daemon, Bound
<1>4. Status' /\ Told'
  <2>1. CASE service_end
    BY <1>1, <2>1 DEF service_end, Continue, Inv, Status, Told
  <2>2. CASE normal_exit
    BY <1>1, <2>2 DEF normal_exit, Exit, Inv, Status, Told
  <2>3. CASE ferr
    <3>1. /\ pc = "ferr" /\ pc' = "exited" /\ exitval # "OK"
          /\ said' = IF exitval = "USAGE" THEN said ELSE Reached
      BY <2>3 DEF ferr, Exit, End, Inv, Status
    <3>2. Standard => Reached = IF logfd >= 0 THEN "log" ELSE "inherited"
      BY <3>1 DEF Reached, Inv, Heard
    <3> QED
      BY <1>1, <3>1, <3>2 DEF Status, Told, Standard
  <2> QED
    BY <2>1, <2>2, <2>3
<1> QED
  BY <1>2, <1>3, <1>4 DEF Inv

\* Every step keeps the invariant.
LEMMA NextInv == Inv /\ [Next]_vars => Inv'
<1> SUFFICES ASSUME Inv, [Next]_vars PROVE Inv'
  OBVIOUS
<1>1. ServerSocket("socket4", "ip4", "socket6") => Inv'
  <2>1. "ip4" \in Family
    BY DEF Family
  <2> QED
    BY <2>1, SocketSteps
<1>2. ServerSocket("socket6", "ip6", "iwtftp_init") => Inv'
  <2>1. "ip6" \in Family
    BY DEF Family
  <2> QED
    BY <2>1, SocketSteps
<1>3. Main => Inv'
  BY <1>1, <1>2, QuietSteps, LogStep, NullStep, CloseStep, DupStep, EpollStep,
     ExitSteps DEF Main
<1> QED
  BY <1>3, OtherSteps DEF Next

\* The state keeps its types: every number in logfd, nullfd and svsocks is one
\* of a descriptor or -1, and a new descriptor is always to be had.
THEOREM TypeCorrect == Spec => []TypeOK
<1>1. Inv => TypeOK
  BY DEF Inv
<1> QED
  BY <1>1, InitInv, NextInv, PTL DEF Spec

\* The loop of iwtftp_service has the null device as the standard descriptors,
\* the log, and exactly the sockets svsocks names, one for a family.
THEOREM ServesOpenDescriptorsHolds == Spec => []ServesOpenDescriptors
<1>1. Inv => ServesOpenDescriptors
  <2> SUFFICES ASSUME Inv, pc = "serving", Standard PROVE ServesOpenDescriptors
    BY DEF ServesOpenDescriptors, Standard
  <2>1. /\ \A m \in 0 .. 2 : fds[m] = "null"
        /\ logfd \in DOMAIN fds /\ fds[logfd] = "log"
        /\ \A m \in DOMAIN fds : fds[m] # "inherited"
        /\ \A m \in ServerFds : m \in DOMAIN fds /\ fds[m] \in conf.ipver
        /\ {m \in DOMAIN fds : fds[m] \in Family} = ServerFds
        /\ \A l, m \in ServerFds : fds[l] = fds[m] => l = m
    BY DEF Inv, Table
  <2>2. Cardinality({fds[m] : m \in ServerFds}) = Cardinality(ServerFds)
    <3> DEFINE T == {fds[m] : m \in ServerFds}
               f == [m \in ServerFds |-> fds[m]]
    <3>1. IsFiniteSet(ServerFds)
      <4>1. ServerFds \subseteq Fd
        BY DEF Inv, TypeOK, ServerFds
      <4>2. IsFiniteSet(Fd)
        BY FS_Interval, StartupAssumption DEF Fd
      <4> QED
        BY <4>1, <4>2, FS_Subset
    <3>2. f \in Bijection(ServerFds, T)
      BY <2>1 DEF Bijection, Injection, Surjection, IsInjective
    <3> HIDE DEF T, f
    <3>3. ExistsBijection(ServerFds, T)
      BY <3>2 DEF ExistsBijection
    <3> QED
      BY <3>1, <3>3, FS_Bijection DEF T
  <2> QED
    BY <2>1, <2>2 DEF ServesOpenDescriptors
<1> QED
  BY <1>1, InitInv, NextInv, PTL DEF Spec

----------------------------------------------------------------------------
(***************************************************************************)
(* What the caller is told                                                 *)
(***************************************************************************)

\* The calls before the parent is gone.
Before == Early \cup {"fork"}

\* The process that was started is still there, with a status of its own to
\* come, or its child goes on, and has the log.
Parted ==
  /\ pc \in Before => shown = "running"
  /\ pc \notin Before \cup {"ferr", "exited", "crashed"} => shown = "OK" /\ logfd >= 0
  /\ pc = "ferr" => \/ shown = "running"
                    \/ shown = "OK" /\ logfd >= 0 /\ exitval # "USAGE"
  /\ pc = "exited" => \/ shown = exitval
                      \/ shown = "OK" /\ logfd >= 0 /\ exitval # "USAGE"

LEMMA InitParted == Init => Parted
BY DEF Init, Parted, Before, Early

LEMMA NextParted == Inv /\ Parted /\ [Next]_vars => Parted'
<1> SUFFICES ASSUME Inv, Parted, [Next]_vars PROVE Parted'
  OBVIOUS
<1>1. CASE set_svconf \/ check_root \/ init_signal \/ iwlog_init
  BY <1>1 DEF set_svconf, check_root, init_signal, iwlog_init, Plain, Continue, Fail,
     End, Crash, Inv, Status, Parted, Before, Early
<1>2. CASE fork
  <2>1. logfd >= 0
    BY <1>2 DEF fork, Inv, TypeOK, Daemonizing, Logged, Fd
  <2> QED
    BY <1>2, <2>1 DEF fork, Fail, Parted, Before, Early
<1>3. CASE open_null \/ close_all \/ dup2 \/ setsid
  BY <1>3 DEF open_null, close_all, dup2, setsid, Plain, Continue, Fail, Parted,
     Before, Early
<1>4. CASE iwds_init \/ get_ifaddress \/ iwtftp_init \/ getpwnam
  BY <1>4 DEF iwds_init, get_ifaddress, iwtftp_init, getpwnam, Plain, Continue, Fail,
     End, Crash, Inv, Status, Parted, Before, Early
<1>5. CASE \/ ServerSocket("socket4", "ip4", "socket6")
           \/ ServerSocket("socket6", "ip6", "iwtftp_init")
  BY <1>5 DEF ServerSocket, Continue, Parted, Before, Early
<1>6. CASE chroot \/ chdir \/ iwds_set_chroot \/ set_credential
  BY <1>6 DEF chroot, chdir, iwds_set_chroot, set_credential, Credential, Continue,
     Fail, Parted, Before, Early
<1>7. CASE epoll_create \/ service_end
  BY <1>7 DEF epoll_create, service_end, Continue, Fail, Parted, Before, Early
<1>8. CASE normal_exit \/ ferr
  <2>1. pc = "exit" => exitval = "OK" /\ shown = "OK" /\ logfd >= 0
    BY DEF Inv, Status, Parted, Before, Early
  <2> QED
    BY <1>8, <2>1 DEF normal_exit, ferr, Exit, End, Parted, Before, Early
<1>9. CASE sig_handler \/ Ended \/ UNCHANGED vars
  BY <1>9 DEF sig_handler, Ended, vars, Parted
<1> QED
  BY <1>1, <1>2, <1>3, <1>4, <1>5, <1>6, <1>7, <1>8, <1>9 DEF Next, Main

\* A failure that the status of the process that was started does not show is
\* in the log: the parent is gone only when the log is there.
THEOREM FailureReportedHolds == Spec => []FailureReported
<1>1. Inv /\ Parted => FailureReported
  BY DEF Inv, TypeOK, Told, Standard, Parted, FailureReported
<1> QED
  BY <1>1, InitInv, NextInv, InitParted, NextParted, PTL DEF Spec
============================================================================
