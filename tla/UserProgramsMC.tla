--------------------------- MODULE UserProgramsMC ---------------------------
(***************************************************************************)
(* The user programs, which do not interact.  Each behaviour is one of one *)
(* of them, which `loaded' names from the start; the state space is the    *)
(* sum of theirs.  Names without a prefix are those of SharedMemory.       *)
(***************************************************************************)
EXTENDS SharedMemory, Integers

CONSTANTS
  Pids, Shell, ListLen, MaxBirths,
  Files, Root, Names, Slots, PathLen, MaxQueue,
  Width, IntWidth, Poly, Period, LogSizes, Furthest,
  Wrap, SizeWrap, SqrtOfMax, DoubleSize, DataSize, Sizes
CONSTANTS r1, r2, f1, f2, f3

VARIABLES
  loaded,
  o_parent, o_random, o_births, o_pc, o_pos, o_old_list, o_new_list,
  o_original_pid, o_chain, o_to_report, o_fresh, o_deleted,
  w_place, w_gone, w_renamed, w_queue, w_watch, w_next_wd, w_path_of, w_prog,
  w_announced,
  r_log_size, r_table, r_ran, r_idx, r_pass, r_intact, r_n, r_original,
  m_program, m_size, m_rows, m_pc, m_mapped, m_row, m_col

o_vars == <<o_parent, o_random, o_births, o_pc, o_pos, o_old_list, o_new_list,
            o_original_pid, o_chain, o_to_report, o_fresh, o_deleted>>
w_vars == <<w_place, w_gone, w_renamed, w_queue, w_watch, w_next_wd,
            w_path_of, w_prog, w_announced>>
r_vars == <<r_log_size, r_table, r_ran, r_idx, r_pass, r_intact, r_n,
            r_original>>
m_vars == <<m_program, m_size, m_rows, m_pc, m_mapped, m_row, m_col>>

Obs == INSTANCE ProcessObserver WITH
  parent <- o_parent, random <- o_random, births <- o_births, pc <- o_pc,
  pos <- o_pos, old_list <- o_old_list, new_list <- o_new_list,
  original_pid <- o_original_pid, chain <- o_chain, to_report <- o_to_report,
  fresh <- o_fresh, deleted <- o_deleted

Watch == INSTANCE Inotify WITH
  place <- w_place, gone <- w_gone, renamed <- w_renamed, queue <- w_queue,
  watch <- w_watch, next_wd <- w_next_wd, path_of <- w_path_of,
  prog <- w_prog, announced <- w_announced

Rand == INSTANCE RandomAccess WITH
  log_size <- r_log_size, table <- r_table, ran <- r_ran, idx <- r_idx,
  pass <- r_pass, intact <- r_intact, n <- r_n, original <- r_original

Mat == INSTANCE MatrixPrograms WITH
  program <- m_program, size <- m_size, rows <- m_rows, pc <- m_pc,
  mapped <- m_mapped, row <- m_row, col <- m_col

ASSUME Parameters ==
  /\ Obs!ObserverAssumption /\ Watch!InotifyAssumption
  /\ Rand!RandomAccessAssumption /\ Rand!PeriodAssumption /\ Mat!MatrixAssumption

-----------------------------------------------------------------------------

Programs == {"shared", "observer", "inotify", "random_access", "matrix"}

SumInit ==
  /\ loaded \in Programs
  /\ Init /\ Obs!Init /\ Watch!Init /\ Rand!Init /\ Mat!Init

SumNext ==
  \/ /\ loaded = "shared" /\ Next
     /\ UNCHANGED <<loaded, o_vars, w_vars, r_vars, m_vars>>
  \/ /\ loaded = "observer" /\ Obs!Next
     /\ UNCHANGED <<loaded, vars, w_vars, r_vars, m_vars>>
  \/ /\ loaded = "inotify" /\ Watch!Next
     /\ UNCHANGED <<loaded, vars, o_vars, r_vars, m_vars>>
  \/ /\ loaded = "random_access" /\ Rand!Next
     /\ UNCHANGED <<loaded, vars, o_vars, w_vars, m_vars>>
  \/ /\ loaded = "matrix" /\ Mat!Next
     /\ UNCHANGED <<loaded, vars, o_vars, w_vars, r_vars>>

sumvars == <<loaded, vars, o_vars, w_vars, r_vars, m_vars>>

SumSpec ==
  /\ SumInit /\ [][SumNext]_sumvars
  /\ Fairness /\ Obs!Fairness /\ Watch!Fairness

-----------------------------------------------------------------------------
(* The properties of the programs; those of the shared memory are in      *)
(* SharedMemory.                                                           *)

(* Every process started while the observer runs is reported, or ends. *)
CreationSeen == Obs!CreationSeen

(* A process reported as deleted is not in the list it was missed in.      *)
DeletedAreGone == Obs!DeletedAreGone

(* Every file whose creation was queued is watched in the end. *)
EachWatched == Watch!EachWatched

(* HPCC_starts agrees with stepping the register. *)
StartsAgrees == Rand!StartsAgrees

(* Every second pass restores the table. *)
TableRestored == Rand!TableRestored

(* Accepted sizes fault only when the products wrap, a call failed or too  *)
(* many rows were asked for.                                               *)
FaultsOnlyWhenTooBig == Mat!FaultsOnlyWhenTooBig
=============================================================================
