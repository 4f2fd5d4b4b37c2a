-------------------------- MODULE KernelModulesMC --------------------------
(***************************************************************************)
(* The kernel modules that do not interact.  Each behaviour is one of one  *)
(* of them, which `loaded' names from the start; the state space is the    *)
(* sum of theirs.  Names without a prefix are those of Barrier.            *)
(***************************************************************************)
EXTENDS Barrier

CONSTANTS Size, Users, MaxBytes, PerPage, Wrap, Numbers, MaxWaiting
CONSTANTS u1, u2

VARIABLES
  loaded,
  f_kind, f_loader, f_intact, f_stop, f_in, f_out, f_slot, f_pc, f_held,
  f_write_lock, f_read_lock, f_next, f_overlapped, f_wrong,
  t_loader, t_intact, t_thread, t_child, t_stop, t_armed, t_ts, t_clock,
  p_kind, p_loader, p_at, p_intact, p_timer, p_rate, p_stop, p_pc, p_lost,
  m_loader, m_intact, m_stop, m_thread, m_nr_structs, m_nr_pages, m_tail,
  m_order, m_nr_structs_per_page, m_read,
  u_loader, u_intact, u_server, u_stop, u_thread, u_waiting

f_vars == <<f_kind, f_loader, f_intact, f_stop, f_in, f_out, f_slot, f_pc,
            f_held, f_write_lock, f_read_lock, f_next, f_overlapped, f_wrong>>
t_vars == <<t_loader, t_intact, t_thread, t_child, t_stop, t_armed, t_ts,
            t_clock>>
p_vars == <<p_kind, p_loader, p_at, p_intact, p_timer, p_rate, p_stop, p_pc,
            p_lost>>
m_vars == <<m_loader, m_intact, m_stop, m_thread, m_nr_structs, m_nr_pages,
            m_tail, m_order, m_nr_structs_per_page, m_read>>
u_vars == <<u_loader, u_intact, u_server, u_stop, u_thread, u_waiting>>

Fifo == INSTANCE KfifoModule WITH
  kind <- f_kind, loader <- f_loader, intact <- f_intact, stop <- f_stop,
  in <- f_in, out <- f_out, slot <- f_slot, pc <- f_pc, held <- f_held,
  write_lock <- f_write_lock, read_lock <- f_read_lock, next <- f_next,
  overlapped <- f_overlapped, wrong <- f_wrong

Tim == INSTANCE Timing WITH
  loader <- t_loader, intact <- t_intact, thread <- t_thread, child <- t_child,
  stop <- t_stop, armed <- t_armed, ts <- t_ts, clock <- t_clock

Per == INSTANCE PeriodicThreads WITH
  kind <- p_kind, loader <- p_loader, at <- p_at, intact <- p_intact,
  timer <- p_timer, rate <- p_rate, stop <- p_stop, pc <- p_pc, lost <- p_lost

Mem == INSTANCE KernelMemory WITH
  loader <- m_loader, intact <- m_intact, stop <- m_stop, thread <- m_thread,
  nr_structs <- m_nr_structs, nr_pages <- m_nr_pages, tail <- m_tail,
  order <- m_order, nr_structs_per_page <- m_nr_structs_per_page, read <- m_read

Udp == INSTANCE UdpServer WITH
  loader <- u_loader, intact <- u_intact, server <- u_server, stop <- u_stop,
  thread <- u_thread, waiting <- u_waiting

ASSUME Parameters ==
  /\ Fifo!KfifoAssumption /\ Mem!KernelMemoryAssumption
  /\ Udp!UdpAssumption

-----------------------------------------------------------------------------

Modules == {"kfifo", "barrier", "timing", "periodic", "memory", "udp"}

SumInit ==
  /\ loaded \in Modules
  /\ Fifo!Init /\ Init /\ Tim!Init /\ Per!Init /\ Mem!Init /\ Udp!Init

SumNext ==
  \/ /\ loaded = "kfifo" /\ Fifo!Next
     /\ UNCHANGED <<loaded, vars, t_vars, p_vars, m_vars, u_vars>>
  \/ /\ loaded = "barrier" /\ Next
     /\ UNCHANGED <<loaded, f_vars, t_vars, p_vars, m_vars, u_vars>>
  \/ /\ loaded = "timing" /\ Tim!Next
     /\ UNCHANGED <<loaded, f_vars, vars, p_vars, m_vars, u_vars>>
  \/ /\ loaded = "periodic" /\ Per!Next
     /\ UNCHANGED <<loaded, f_vars, vars, t_vars, m_vars, u_vars>>
  \/ /\ loaded = "memory" /\ Mem!Next
     /\ UNCHANGED <<loaded, f_vars, vars, t_vars, p_vars, u_vars>>
  \/ /\ loaded = "udp" /\ Udp!Next
     /\ UNCHANGED <<loaded, f_vars, vars, t_vars, p_vars, m_vars>>

sumvars == <<loaded, f_vars, vars, t_vars, p_vars, m_vars, u_vars>>

SumSpec ==
  /\ SumInit /\ [][SumNext]_sumvars
  /\ Fairness /\ Per!Fairness /\ Udp!Fairness

-----------------------------------------------------------------------------
(* The properties of the modules; those of the barrier are in Barrier. *)

(* Each module's state has its type. *)
TypeOK ==
  /\ loaded \in Modules
  /\ Fifo!KfifoTypeOK /\ BarrierTypeOK /\ Tim!TimingTypeOK
  /\ Per!PeriodicTypeOK /\ Mem!KernelMemoryTypeOK /\ Udp!UdpTypeOK

(* Readers of the fifo get the bytes once and in order, until the reading  *)
(* thread, which takes no lock, overlaps with a reader of the file.        *)
BytesInOrder == Fifo!BytesInOrder

(* The self test of kfifo_example.c passes. *)
SelfTestPasses == Fifo!SelfTestPasses

(* The differences exit prints are between stamps taken in their order. *)
DifferencesAreReal == Tim!DifferencesAreReal

(* exit of the periodic modules returns. *)
PeriodicUnloads == Per!PeriodicUnloads

(* The structs are found in the pages as they were written. *)
VerifiesClean == Mem!VerifiesClean

(* exit of the UDP server returns. *)
UdpUnloads == Udp!UdpUnloads
=============================================================================
