------------------------------- MODULE Logging ------------------------------
(***************************************************************************)
(* The logging of print.c and print.h: the settings print_set_*, the      *)
(* function print(), and the macros that call it, pr_<level> (PRINT_CL,   *)
(* which tests print_level itself first) and pl_<level> (PRINT_RL, rate   *)
(* limited by rate_limited() of util.c, an environment choice here).      *)
(*                                                                         *)
(* Text is abstracted away: a message is its level, a tag its name and    *)
(* whether it holds the "{level}" placeholder, which print() replaces by  *)
(* the level digit.  What is kept is where a message goes (stdout,        *)
(* stderr, syslog) and errno: fprintf and fflush on a broken stream set   *)
(* errno (EPIPE, EBADF, ...); glibc's syslog() restores it.               *)
(*                                                                         *)
(* ReportError is the error path of a caller, sk_receive (sk.c 454-456)   *)
(* and clockadj_compare (clockadj.c 188-189): a system call fails and    *)
(* sets errno, pr_err("...%m") reports it, and the caller returns -errno. *)
(***************************************************************************)
EXTENDS Integers

CONSTANTS
    Tags,         \* tags print_set_tag is given: [name, placeholder]
    Names,        \* program names print_set_progname is given
    Errnos,       \* errno values the failing system calls set
    StdioErr,     \* the errno a failing fprintf/fflush sets
    StdioFails,   \* whether stdout/stderr may be broken
    NONE          \* a NULL pointer, no output

LOG_EMERG == 0
LOG_ERR == 3
LOG_NOTICE == 5
LOG_INFO == 6
LOG_DEBUG == 7
Levels == LOG_EMERG .. LOG_DEBUG

VARIABLES
    verbose, print_level, use_syslog, progname, message_tag,
    errno,        \* the thread's errno
    out,          \* what the last pr_/pl_ call did
    ret           \* [cause, value]: the error a caller reported, and returned

vars == <<verbose, print_level, use_syslog, progname, message_tag, errno, out, ret>>

Sinks == {"stdout", "stderr", NONE}

TypeOK ==
    /\ verbose \in {0, 1} /\ use_syslog \in {0, 1}
    /\ print_level \in Levels
    /\ progname \in Names \cup {NONE}
    /\ message_tag \in Tags \cup {NONE}
    /\ errno \in Errnos \cup {StdioErr, 0}
    /\ out \in {NONE} \cup [via : {"pr", "pl"}, level : Levels, passed : BOOLEAN, emitted : BOOLEAN,
                           stream : Sinks, syslog : BOOLEAN,
                           tag : {NONE} \cup [name : {t.name : t \in Tags}, level : Levels \cup {NONE}]]
    /\ ret \in {NONE} \cup [cause : Errnos, value : Errnos \cup {StdioErr, 0}]

Init ==
    /\ verbose = 0
    /\ print_level = LOG_INFO
    /\ use_syslog = 1
    /\ progname = NONE
    /\ message_tag = NONE
    /\ errno = 0
    /\ out = NONE
    /\ ret = NONE

-----------------------------------------------------------------------------
print_set_progname(name) ==
    /\ progname' = name
    /\ UNCHANGED <<verbose, print_level, use_syslog, message_tag, errno, out, ret>>

print_set_tag(tag) ==
    /\ message_tag' = tag
    /\ UNCHANGED <<verbose, print_level, use_syslog, progname, errno, out, ret>>

print_set_syslog(value) ==
    /\ use_syslog' = IF value # 0 THEN 1 ELSE 0
    /\ UNCHANGED <<verbose, print_level, progname, message_tag, errno, out, ret>>

print_set_level(level) ==
    /\ print_level' = level
    /\ UNCHANGED <<verbose, use_syslog, progname, message_tag, errno, out, ret>>

print_set_verbose(value) ==
    /\ verbose' = IF value # 0 THEN 1 ELSE 0
    /\ UNCHANGED <<print_level, use_syslog, progname, message_tag, errno, out, ret>>

(* print() returns at once for a level above print_level. *)
Filtered(level) == level > print_level

(* What print(level, ...) does: nothing if filtered; otherwise the tag    *)
(* with "{level}" replaced by the level digit, a line on stdout (NOTICE   *)
(* and below in urgency) or stderr when verbose, then fflush, and a       *)
(* syslog() call when use_syslog.  A write to a broken stream (fails)     *)
(* sets errno; syslog() leaves errno as it found it.                      *)
print(level, fails) ==
    LET emitted == ~Filtered(level)
        stream == IF emitted /\ verbose = 1
                  THEN IF level >= LOG_NOTICE THEN "stdout" ELSE "stderr"
                  ELSE NONE
    IN  [emitted |-> emitted, stream |-> stream,
         syslog |-> emitted /\ use_syslog = 1,
         tag |-> IF message_tag = NONE THEN NONE
                 ELSE [name |-> message_tag.name,
                       level |-> IF message_tag.placeholder THEN level ELSE NONE],
         clobbers |-> stream # NONE /\ fails]

(* The outcomes of a write to stdout/stderr. *)
WriteFails == IF StdioFails THEN BOOLEAN ELSE {FALSE}

(* A pr_/pl_ call at level l, which calls print() when go holds, and the *)
(* errno it leaves behind from errno0.                                    *)
Call(via, l, go, fails, errno0) ==
    LET p == print(l, fails)
    IN  [out |-> [via |-> via, level |-> l, passed |-> go, emitted |-> go /\ p.emitted,
                  stream |-> IF go THEN p.stream ELSE NONE, syslog |-> go /\ p.syslog,
                  tag |-> p.tag],
         errno |-> IF go /\ p.clobbers THEN StdioErr ELSE errno0]

(* pr_<level>: PRINT_CL calls print() only if print_get_level() >= l. *)
PrintCL(l, fails, errno0) == Call("pr", l, print_level >= l, fails, errno0)

pr(l) ==
    \E fails \in WriteFails :
        LET r == PrintCL(l, fails, errno)
        IN  /\ out' = r.out
            /\ errno' = r.errno
            /\ UNCHANGED <<verbose, print_level, use_syslog, progname, message_tag, ret>>

(* pl_<level>: PRINT_RL calls print() unless rate_limited() finds that   *)
(* the call site printed within its interval.                            *)
pl(l) ==
    \E limited \in BOOLEAN, fails \in WriteFails :
        LET r == Call("pl", l, ~limited, fails, errno)
        IN  /\ out' = r.out
            /\ errno' = r.errno
            /\ UNCHANGED <<verbose, print_level, use_syslog, progname, message_tag, ret>>

(* A caller's error path: the system call fails and sets errno to e,     *)
(* pr_err("...: %m") reports it (%m is formatted from errno before any    *)
(* write), and the caller returns -errno.                                 *)
ReportError(e) ==
    \E fails \in WriteFails :
        LET r == PrintCL(LOG_ERR, fails, e)
        IN  /\ out' = r.out
            /\ errno' = r.errno
            /\ ret' = [cause |-> e, value |-> r.errno]
            /\ UNCHANGED <<verbose, print_level, use_syslog, progname, message_tag>>

Next ==
    \/ \E n \in Names : print_set_progname(n)
    \/ \E t \in Tags \cup {NONE} : print_set_tag(t)
    \/ \E v \in {0, 1} : print_set_syslog(v) \/ print_set_verbose(v)
    \/ \E l \in Levels : print_set_level(l) \/ pr(l) \/ pl(l)
    \/ \E e \in Errnos : ReportError(e)

Spec == Init /\ [][Next]_vars

-----------------------------------------------------------------------------
(* A caller that reports a failed system call with pr_err and returns    *)
(* -errno returns the error of the failed call (sk_receive, sk.c 455-456; *)
(* clockadj_compare, clockadj.c 188-189).                                *)
ReturnsCause == ret # NONE => ret.value = ret.cause

=============================================================================
