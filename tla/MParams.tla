------------------------------- MODULE MParams -------------------------------
(***************************************************************************)
(* The one-time initialisation of dlmalloc's global parameters (mparams)  *)
(* and of the global arena's lock, as several threads run it, in the      *)
(* build with USE_LOCKS (bionic/libc/bionic/dlmalloc.c).                   *)
(*                                                                         *)
(* Every public call starts with PREACTION(gm):                            *)
(*   GLOBALLY_INITIALIZE() = (mparams.page_size == 0 && init_mparams()),   *)
(* then takes gm->mutex if use_lock(gm).  dlmallopt calls change_mparam,   *)
(* which calls init_mparams() and then sets one parameter without any     *)
(* lock.  init_mparams tests page_size == 0 without a lock, writes the     *)
(* default thresholds and flags, takes magic_init_mutex to set magic, the *)
(* arena lock and gm->mflags once, and publishes page_size last.           *)
(*                                                                         *)
(* Each labelled step below is one shared-memory access or one critical    *)
(* section of magic_init_mutex; memory is sequentially consistent.  The   *)
(* body of a malloc (everything DLHeap models) is one step "body".         *)
(***************************************************************************)
EXTENDS Integers

CONSTANTS
  Threads,
  PAGE_SIZE,               \* malloc_getpagesize
  DEFAULT_MMAP_THRESHOLD,
  DEFAULT_TRIM_THRESHOLD,
  Values,                  \* values passed to mallopt
  NoThread

USE_LOCK_BIT == 2
USE_MMAP_BIT == 1
MAGIC        == 1482184792   \* 0x58585858 (FOOTERS is 0)

(* mallopt's parameter numbers (M_TRIM_THRESHOLD, M_GRANULARITY,          *)
(* M_MMAP_THRESHOLD).                                                     *)
Params == {"trim_threshold", "granularity", "mmap_threshold"}
NONE   == -1

Calls == {[kind |-> "malloc"]}
           \cup [kind : {"mallopt"}, param : Params, value : Values]

VARIABLES
  mparams,   \* struct malloc_params
  gm,        \* _gm_.mflags, how often INITIAL_LOCK(&gm->mutex) ran, its holder
  pc,        \* each thread's next step
  call,      \* the public call each thread is in
  opted      \* ghost: the value each parameter got from the last finished mallopt

vars == <<mparams, gm, pc, call, opted>>

Init ==
  /\ mparams = [page_size |-> 0, granularity |-> 0, mmap_threshold |-> 0,
                trim_threshold |-> 0, default_mflags |-> 0, magic |-> 0]
  /\ gm = [mflags |-> 0, mutex_inits |-> 0, holder |-> NoThread]
  /\ pc = [t \in Threads |-> "idle"]
  /\ call = [t \in Threads |-> [kind |-> "malloc"]]
  /\ opted = [p \in Params |-> NONE]

use_lock == gm.mflags \div USE_LOCK_BIT % 2 = 1

IsPowerOfTwo(v) == \E k \in 0..30 : v = 2^k

(***************************************************************************)
(* A thread starts a public call: malloc (any call that runs PREACTION)   *)
(* or mallopt.                                                            *)
(***************************************************************************)
Start(t, c) ==
  /\ pc[t] = "idle"
  /\ call' = [call EXCEPT ![t] = c]
  /\ pc' = [pc EXCEPT ![t] = IF c.kind = "malloc" THEN "preaction" ELSE "check"]
  /\ UNCHANGED <<mparams, gm, opted>>

(* GLOBALLY_INITIALIZE(): init_mparams only while page_size is 0.         *)
Preaction(t) ==
  /\ pc[t] = "preaction"
  /\ pc' = [pc EXCEPT ![t] = IF mparams.page_size = 0 THEN "check" ELSE "uselock"]
  /\ UNCHANGED <<mparams, gm, call, opted>>

(***************************************************************************)
(* init_mparams (dlmalloc.c 2808-2883).                                    *)
(***************************************************************************)
AfterInit(t) == IF call[t].kind = "malloc" THEN "uselock" ELSE "set"

InitCheck(t) ==
  /\ pc[t] = "check"
  /\ pc' = [pc EXCEPT ![t] = IF mparams.page_size = 0 THEN "defaults" ELSE AfterInit(t)]
  /\ UNCHANGED <<mparams, gm, call, opted>>

(* A plausible reordering: page_size published with the defaults,       *)
(* before the magic_init_mutex section.                                   *)
InitDefaults_publishfirst(t) ==
  /\ pc[t] = "defaults"
  /\ mparams' = [mparams EXCEPT !.mmap_threshold = DEFAULT_MMAP_THRESHOLD,
                                !.trim_threshold = DEFAULT_TRIM_THRESHOLD,
                                !.default_mflags = USE_LOCK_BIT + USE_MMAP_BIT,
                                !.page_size = PAGE_SIZE]
  /\ pc' = [pc EXCEPT ![t] = "magic"]
  /\ UNCHANGED <<gm, call, opted>>

InitDefaults(t) ==
  /\ pc[t] = "defaults"
  /\ mparams' = [mparams EXCEPT !.mmap_threshold = DEFAULT_MMAP_THRESHOLD,
                                !.trim_threshold = DEFAULT_TRIM_THRESHOLD,
                                !.default_mflags = USE_LOCK_BIT + USE_MMAP_BIT]
  /\ pc' = [pc EXCEPT ![t] = "magic"]
  /\ UNCHANGED <<gm, call, opted>>

(* The magic_init_mutex section without its magic == 0 re-check.          *)
InitMagic_norecheck(t) ==
  /\ pc[t] = "magic"
  /\ mparams' = [mparams EXCEPT !.magic = MAGIC]
  /\ gm' = [mutex_inits |-> gm.mutex_inits + 1, holder |-> NoThread,
            mflags |-> mparams.default_mflags]
  /\ pc' = [pc EXCEPT ![t] = "pagesize"]
  /\ UNCHANGED <<call, opted>>

(* The magic_init_mutex critical section: the first thread in sets magic, *)
(* initialises gm->mutex (pthread_mutex_init: unlocked, whoever held it)  *)
(* and gm->mflags.                                                        *)
InitMagic(t) ==
  /\ pc[t] = "magic"
  /\ IF mparams.magic = 0
     THEN /\ mparams' = [mparams EXCEPT !.magic = MAGIC]
          /\ gm' = [mutex_inits |-> gm.mutex_inits + 1, holder |-> NoThread,
                    mflags |-> mparams.default_mflags]
     ELSE UNCHANGED <<mparams, gm>>
  /\ pc' = [pc EXCEPT ![t] = "pagesize"]
  /\ UNCHANGED <<call, opted>>

(* page_size and granularity (DEFAULT_GRANULARITY is 0: the page size),    *)
(* then the configuration sanity check, which holds for these constants.  *)
InitPageSize(t) ==
  /\ pc[t] = "pagesize"
  /\ mparams' = [mparams EXCEPT !.page_size = PAGE_SIZE, !.granularity = PAGE_SIZE]
  /\ pc' = [pc EXCEPT ![t] = AfterInit(t)]
  /\ UNCHANGED <<gm, call, opted>>

(***************************************************************************)
(* change_mparam (2885-2905), the rest of dlmallopt.                        *)
(***************************************************************************)
(* M_GRANULARITY without the power-of-two test.                         *)
change_mparam_ok_nopow2(p, v) ==
  p # "granularity" \/ v >= mparams.page_size

change_mparam_ok(p, v) ==
  p # "granularity" \/ (v >= mparams.page_size /\ IsPowerOfTwo(v))

ChangeMparam(t) ==
  LET p == call[t].param
      v == call[t].value
  IN  /\ pc[t] = "set"
      /\ IF change_mparam_ok(p, v)
         THEN /\ mparams' = [mparams EXCEPT ![p] = v]
              /\ opted' = [opted EXCEPT ![p] = v]
         ELSE UNCHANGED <<mparams, opted>>
      /\ pc' = [pc EXCEPT ![t] = "idle"]
      /\ UNCHANGED <<gm, call>>

(***************************************************************************)
(* The rest of PREACTION, the locked body of the call, and POSTACTION.     *)
(***************************************************************************)
UseLock(t) ==
  /\ pc[t] = "uselock"
  /\ use_lock => gm.holder = NoThread
  /\ gm' = IF use_lock THEN [gm EXCEPT !.holder = t] ELSE gm
  /\ pc' = [pc EXCEPT ![t] = "body"]
  /\ UNCHANGED <<mparams, call, opted>>

Body(t) ==
  /\ pc[t] = "body"
  /\ pc' = [pc EXCEPT ![t] = "postaction"]
  /\ UNCHANGED <<mparams, gm, call, opted>>

Postaction(t) ==
  /\ pc[t] = "postaction"
  /\ gm' = IF use_lock /\ gm.holder = t THEN [gm EXCEPT !.holder = NoThread] ELSE gm
  /\ pc' = [pc EXCEPT ![t] = "idle"]
  /\ UNCHANGED <<mparams, call, opted>>

Next ==
  \E t \in Threads :
    \/ \E c \in Calls : Start(t, c)
    \/ Preaction(t)
    \/ InitCheck(t)
    \/ InitDefaults(t)
    \/ InitMagic(t)
    \/ InitPageSize(t)
    \/ ChangeMparam(t)
    \/ UseLock(t)
    \/ Body(t)
    \/ Postaction(t)

Spec == Init /\ [][Next]_vars

(***************************************************************************)
(* Properties                                                              *)
(***************************************************************************)
Pcs == {"idle", "preaction", "check", "defaults", "magic", "pagesize", "set",
        "uselock", "body", "postaction"}

TypeOK ==
  /\ mparams.page_size \in {0, PAGE_SIZE}
  /\ mparams.magic \in {0, MAGIC}
  /\ mparams.granularity = 0 \/ IsPowerOfTwo(mparams.granularity)
  /\ gm.holder \in Threads \cup {NoThread}
  /\ gm.mutex_inits \in Nat
  /\ pc \in [Threads -> Pcs]
  /\ call \in [Threads -> Calls]
  /\ opted \in [Params -> Values \cup {NONE}]

(* PREACTION/POSTACTION make the bodies of malloc, free, realloc, ... on  *)
(* the global arena mutually exclusive: at most one thread is between     *)
(* taking gm->mutex and releasing it, however the threads' first calls    *)
(* race through init_mparams (the unlocked page_size test, the            *)
(* magic_init_mutex section that initialises gm->mutex, and the late      *)
(* publication of page_size).                                             *)
MutualExclusion ==
  \A t, u \in Threads :
    pc[t] \in {"body", "postaction"} /\ pc[u] \in {"body", "postaction"} => t = u

(* A thread that has passed GLOBALLY_INITIALIZE() (or the init_mparams    *)
(* call of change_mparam) finds the setup done exactly once: magic set,   *)
(* gm->mutex initialised once and gm->mflags carrying USE_LOCK_BIT, since *)
(* page_size is published only after the magic_init_mutex section.        *)
InitPublished ==
  \A t \in Threads :
    pc[t] \in {"uselock", "body", "postaction", "set"} =>
      /\ mparams.magic # 0
      /\ gm.mutex_inits = 1
      /\ use_lock

(* A parameter set by a mallopt that returned 1 keeps that value until a  *)
(* later mallopt changes it: the process-wide setup is done once and does *)
(* not overwrite what the program configured (spec: "one-time             *)
(* process-wide parameter setup ... taken once").                         *)
MalloptSticks ==
  \A p \in Params : opted[p] # NONE => mparams[p] = opted[p]
=============================================================================
