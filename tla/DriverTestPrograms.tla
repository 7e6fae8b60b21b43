------------------------- MODULE DriverTestPrograms -------------------------
(***************************************************************************)
(* The test programs of testdyplodriver.cpp and testdyplostress.cpp, one   *)
(* definition each: the calls they make, with their arguments and with     *)
(* what the test expects of them.  DriverTests says what a call does.  The *)
(* amounts are a few words, two of them a DMA buffer; loops run twice.     *)
(* Not among them are the tests that move data through queues or blocks    *)
(* (m_hdl_audio_style, l_hdl_block_maze_route_dma, p_dma_zerocopy), see    *)
(* FileQueues and HardwareDMAFifo for these, and two expectations that     *)
(* hold or not as the data moves fast or slow; each is named below.        *)
(***************************************************************************)
EXTENDS Integers, Sequences

(* The devices, and the ports of two adders and of a test node.            *)
r(i)  == << "r", i >>
w(i)  == << "w", i >>
dr(i) == << "dr", i >>
dw(i) == << "dw", i >>
a(i)  == << "a", i >>
b(i)  == << "b", i >>
generator == << "generator", 0 >>
checker   == << "checker", 0 >>

Open(d)    == << "open", d, TRUE >>
Refused(d) == << "open", d, FALSE >>
Route(src, dst) == << "route", src, dst, TRUE >>
Wrong(src, dst) == << "route", src, dst, FALSE >>
OpenBoth(src, dst) == << Open(dst), Open(src), Route(src, dst) >>
Empty(d) == << "poll_in", d, FALSE >>
HasRoom(d) == << "poll_out", d, TRUE >>
Pass(src, dst, n) == << << "write", src, n >>, << "read", dst, n, n, 0 >> >>

-----------------------------------------------------------------------------
(* Devices.                                                                *)

c_fifo_single_open_rw_access ==
  << Open(r(0)), Open(w(1)), Refused(r(0)), Refused(w(1)),
     Refused(<< "r, to write", 2 >>), Refused(<< "w, to read", 0 >>) >>

q_dma_open_only_once ==
  << Open(dr(0)), Refused(dr(0)), Open(dw(0)), Refused(dw(0)), << "close", dw(0) >>,
     Refused(dr(0)) >>

(* What two programs at a time do to get devices: the stress tests, and    *)
(* then the constructor of the programmer, with a DMA node or a fifo.      *)
Search(kind) == << "available", kind, "any" >>
openAvailable_twice ==
  << << "openAvailableFifo", "r", "any" >>, Search("dr"), << "close_all" >>,
     Search("dw"), Search("w"), Search("w"), << "close_all" >> >>

-----------------------------------------------------------------------------
(* Routes and nodes.                                                       *)

d_io_control_route_cpu ==
  << << "unroute_all" >>, << "routes", {} >>,
     Route(w(0), r(0)), << "routes", {<< w(0), r(0) >>} >>,
     Route(w(1), r(1)), << "routes", {<< w(0), r(0) >>, << w(1), r(1) >>} >>,
     Route(w(1), r(2)), << "routes", {<< w(0), r(0) >>, << w(1), r(2) >>} >>,
     << "unroute_all" >>, << "routes", {} >> >>

RouteDirectly(src, dst) ==
  << << "unroute_all" >>, << "routes", {} >>, Open(dst), Open(src),
     Route(src, dst), << "routes", {<< src, dst >>} >>,
     << "unroute_all" >>, Route(src, dst), << "routes", {<< src, dst >>} >>,
     Wrong(dst, src) >>
d_io_control_route_directly_fifo == RouteDirectly(w(2), r(1))
d_io_control_route_directly_dma  == RouteDirectly(dw(0), dr(0))

d_io_control_route_hdl ==
  << << "unroute_all" >>, Route(b(1), r(1)), << "routes", {<< b(1), r(1) >>} >>,
     Route(b(0), a(1)), Route(a(0), r(2)), Route(a(1), b(1)),
     << "routes", {<< b(1), r(1) >>, << b(0), a(1) >>, << a(0), r(2) >>, << a(1), b(1) >>} >>,
     << "unroute", "b" >>, << "routes", {<< a(0), r(2) >>} >>,
     Route(b(0), a(0)), Route(w(0), a(1)), Route(w(1), b(1)), Route(b(1), r(1)),
     Route(a(1), b(0)), << "unroute", "a" >>,
     << "routes", {<< w(1), b(1) >>, << b(1), r(1) >>} >>,
     << "unroute", "b" >>, << "routes", {} >> >>

d_io_control_backplane ==
  << << "enable", "a", TRUE >>, << "is_enabled", "a", TRUE >>,
     << "enable", "b", FALSE >>, << "is_enabled", "b", FALSE >>, << "is_enabled", "a", TRUE >>,
     << "enable", "b", TRUE >>, << "is_enabled", "b", TRUE >>,
     << "enable", "a", FALSE >>, << "is_enabled", "a", FALSE >>, << "is_enabled", "b", TRUE >>,
     << "enable", "a", TRUE >>, << "is_enabled", "a", TRUE >> >>

-----------------------------------------------------------------------------
(* CPU fifos.                                                              *)

(* HardwareFifo::reset of both ends; then words are read until the last    *)
(* one that was written.  The first half of the test is not here: it       *)
(* resets the read fifo first, so that a word in the write fifo may still  *)
(* arrive after that, and then expects no data (testdyplodriver.cpp:477).  *)
d_io_control_fifo_reset ==
  << Route(w(2), r(1)), Open(r(1)), Open(w(2)), << "write", w(2), 3 >>, << "wait_in", r(1) >>,
     << "reset", w(2) >>, << "reset", r(1) >>, Empty(r(1)),
     << "write", w(2), 1 >>, << "drain", r(1), 0 >>, << "unroute_all" >> >>

e_transmit_loop ==
  OpenBoth(w(0), r(0)) \o << Empty(r(0)) >> \o Pass(w(0), r(0), 3) \o Pass(w(0), r(0), 3)

(* fill_fifo_to_the_brim, with 2 ms for the data to move on.               *)
Fill(d) == << << "nonblock", d >>, << "fill", d, TRUE >>, << "poll_out", d, FALSE >> >>

f_poll ==
  OpenBoth(w(0), r(0)) \o
  << Empty(r(0)), << "write", w(0), 1 >>, << "wait_in", r(0) >>, << "read", r(0), 1, 1, 0 >>,
     Empty(r(0)), << "nonblock", r(0) >>, << "eagain", r(0) >>, HasRoom(w(0)) >> \o
  Fill(w(0)) \o
  << << "wait_in", r(0) >>, << "drain", r(0), 0 >>, Empty(r(0)), HasRoom(w(0)),
     << "eagain", r(0) >> >>

(* A thread reads before there is anything to read.                        *)
g_irq_driven_read ==
  OpenBoth(w(0), r(0)) \o << << "start" >>, << "write", w(0), 2 >>, << "join" >>, Empty(r(0)) >>
thread_read_data == << << "read", r(0), 2, 2, 0 >> >>

(* A thread writes when there is no room.  That there is none is expected  *)
(* right after the fill (testdyplodriver.cpp:831); that is not part of     *)
(* this program, as the data may move on in between.                       *)
h_irq_driven_write ==
  OpenBoth(w(0), r(0)) \o
  << << "nonblock", w(0) >>, HasRoom(w(0)), << "fill", w(0), FALSE >>, << "close", w(0) >>,
     Open(w(0)), << "start" >>, << "read", r(0), 2, 2, 0 >>, << "join" >>,
     << "drain", r(0), 0 >>, Empty(r(0)) >>
thread_write_data == << << "write", w(0), 2 >> >>

i_cpu_block_crossbar ==
  LET Over(src, dst) ==
        << Open(dst), Route(src, dst), << "write", src, 2 >>, << "wait_in", dst >>,
           << "read", dst, 2, 2, 0 >>, << "close", dst >> >>
  IN << Open(w(0)) >> \o Over(w(0), r(0)) \o Over(w(0), r(1)) \o << << "close", w(0) >>,
        Open(w(1)) >> \o Over(w(1), r(0)) \o Over(w(1), r(1))

q_fifo_usersignal ==
  OpenBoth(w(2), r(1)) \o << << "signal_is", w(2), 0 >> >> \o Pass(w(2), r(1), 1) \o
  << << "signal_is", r(1), 0 >>, << "signal", w(2), 1 >>, << "signal_is", w(2), 1 >>,
     << "write", w(2), 1 >>, << "wait_in", r(1) >>, << "read", r(1), 1, 0, 0 >>,
     << "signal_is", r(1), 1 >>, << "read", r(1), 1, 1, 0 >>,
     << "write", w(2), 1 >>, << "signal", w(2), 2 >>, << "write", w(2), 1 >>,
     << "signal", w(2), 3 >>, << "write", w(2), 1 >>, << "wait_in", r(1) >>,
     << "read", r(1), 4, 1, 0 >>, << "signal_is", r(1), 2 >>,
     << "read", r(1), 4, 1, 0 >>, << "signal_is", r(1), 3 >>,
     << "read", r(1), 1, 1, 0 >>, << "signal_is", r(1), 3 >> >>

-----------------------------------------------------------------------------
(* Nodes in the logic.                                                     *)

j_hdl_block_processing ==
  LET Through(fifo, node) ==
        << << "configure", node, << 1, 2 >> >>, Open(w(fifo)), << "write", w(fifo), 2 >>,
           Open(r(fifo)), << "wait_in", r(fifo) >>, << "read", r(fifo), 2, 2, fifo + 1 >> >>
  IN << Route(a(0), r(0)), Route(w(0), a(0)), Route(b(1), r(1)), Route(w(1), b(1)) >> \o
     Through(0, "a") \o Through(1, "b")

run_hdl_test(src, dst, total_effect) ==
  << Open(src), << "write", src, 3 >>, Open(dst), << "wait_in", dst >>,
     << "read", dst, 3, 3, total_effect >>, << "close", src >>, << "close", dst >>,
     Open(src) >> \o Fill(src) \o
  << Open(dst), << "wait_in", dst >>, << "nonblock", dst >>, << "drain", dst, total_effect >>,
     Empty(dst), HasRoom(src) >>

ConfigureBoth == << << "configure", "a", << 1, 10 >> >>, << "configure", "b", << 1, 10 >> >> >>

k_hdl_block_ping_pong ==
  << Route(w(1), a(0)), Route(a(0), b(0)), Route(b(0), a(1)), Route(a(1), b(1)),
     Route(b(1), r(1)) >> \o ConfigureBoth \o run_hdl_test(w(1), r(1), 22)

l_hdl_block_zig_zag ==
  << Route(w(0), a(0)), Route(a(0), a(1)), Route(a(1), b(0)), Route(b(0), b(1)),
     Route(b(1), r(2)) >> \o ConfigureBoth \o run_hdl_test(w(0), r(2), 22)

(* What programIcapAndVerify does once the node is programmed.             *)
programIcapAndVerify ==
  << << "enable", "a", FALSE >>, Open(w(1)), Open(r(1)), << "enable", "a", TRUE >>,
     << "configure", "a", << 1, 10 >> >>, Route(w(1), a(0)), Route(a(0), r(1)),
     << "write", w(1), 2 >>, << "wait_in", r(1) >>, << "read", r(1), 2, 2, 1 >> >>
a_program_icap_via_cpu_fifo ==
  << Open(dw(0)), Open(dw(1)), << "available", "dw", "fails" >>,
     << "available", "w", "open" >> >> \o programIcapAndVerify

-----------------------------------------------------------------------------
(* DMA nodes that are read and written like fifos.                         *)

n_dma_cpu_transfer ==
  OpenBoth(dw(0), r(2)) \o << Empty(r(2)), HasRoom(dw(0)) >> \o
  Pass(dw(0), r(2), 2) \o << Empty(r(2)) >> \o Pass(dw(0), r(2), 2) \o << Empty(r(2)) >>

(* The DMA node is polled before anything is written (and as if not).      *)
o_cpu_dma_transfer_unpolled ==
  OpenBoth(w(2), dr(0)) \o Pass(w(2), dr(0), 2) \o
  Pass(w(2), dr(0), 2) \o << Empty(dr(0)) >>
o_cpu_dma_transfer ==
  OpenBoth(w(2), dr(0)) \o << Empty(dr(0)) >> \o Pass(w(2), dr(0), 2) \o
  Pass(w(2), dr(0), 2) \o << Empty(dr(0)) >>

p_dma_crossbar ==
  LET Over(src, dst) ==
        << Open(dst), Route(src, dst), Empty(dst), HasRoom(src), << "write", src, 2 >> >> \o
        Pass(src, dst, 2) \o Pass(src, dst, 2) \o
        << << "read", dst, 2, 2, 0 >>, Empty(dst), HasRoom(src), << "close", dst >> >>
  IN << Open(dw(0)) >> \o Over(dw(0), dr(0)) \o Over(dw(0), dr(1))

p_dma_nonblocking_io ==
  OpenBoth(dw(0), dr(1)) \o
  << << "nonblock", dw(0) >>, << "nonblock", dr(1) >>, Empty(dr(1)), HasRoom(dw(0)),
     << "eagain", dr(1) >>, << "fill", dw(0), FALSE >>, << "drain", dr(1), 0 >>,
     Empty(dr(1)), HasRoom(dw(0)) >>

p_dma_reset ==
  LET Transfer(n) ==
        << Empty(dr(0)), << "write", dw(0), n >>, << "wait_in", dr(0) >>,
           << "read", dr(0), n, n, 0 >> >>
  IN OpenBoth(dw(0), dr(0)) \o Transfer(2) \o
     << << "treshold", dr(0), 1, FALSE >>, << "reset", dr(0) >>,
        << "treshold", dr(0), 1, TRUE >> >> \o Transfer(1) \o
     << << "reset", dr(0) >>, << "treshold", dr(0), 2, TRUE >>, << "reset", dw(0) >> >> \o
     Transfer(2)

q_dma_usersignal ==
  OpenBoth(w(0), dr(0)) \o
  << << "signal_is", dr(0), 0 >>, << "signal_is", w(0), 0 >>, << "write", w(0), 1 >>,
     Empty(dr(0)), << "signal", w(0), 1 >>, << "signal_is", w(0), 1 >>, << "write", w(0), 1 >>,
     << "wait_in", dr(0) >>, << "read", dr(0), 2, 1, 0 >>,
     << "signal_is", dr(0), 0 >>, << "signal_is", w(0), 1 >>,
     << "signal", w(0), 2 >>, << "signal_is", w(0), 2 >>, << "write", w(0), 1 >>,
     << "signal", w(0), 0 >>, << "write", w(0), 2 >>, << "wait_in", dr(0) >>,
     << "read", dr(0), 2, 1, 0 >>, << "signal_is", dr(0), 1 >>,
     << "read", dr(0), 2, 1, 0 >>, << "signal_is", dr(0), 2 >>,
     << "wait_in", dr(0) >>, << "read", dr(0), 2, 2, 0 >>, << "signal_is", dr(0), 0 >> >>

-----------------------------------------------------------------------------
(* testdyplostress.cpp: a test node that sends or compares numbers.        *)

FromLogic(dst) ==
  << Open(dst), << "unroute", "generator" >>, << "reset", dst >>, Route(generator, dst),
     Empty(dst), << "run", "generator", TRUE >>, << "read", dst, 2, 2, 0 >>,
     << "read", dst, 2, 2, 0 >>, << "run", "generator", FALSE >>, << "reset", dst >> >>
a_to_cpu         == FromLogic(r(0))
d_dma_from_logic == FromLogic(dr(0))

ToLogic(src) ==
  << Open(src), << "unroute", "checker" >>, Route(src, checker),
     << "write", src, 2 >>, << "no_error" >>, << "write", src, 2 >>, << "no_error" >> >>
a_from_cpu     == ToLogic(w(0))
d_dma_to_logic == ToLogic(dw(0))

-----------------------------------------------------------------------------
(* The programs, and what their second thread (or program) does.           *)
Main ==
  [c_fifo_single_open_rw_access |-> c_fifo_single_open_rw_access,
   q_dma_open_only_once |-> q_dma_open_only_once,
   openAvailable |-> << << "start" >> >> \o openAvailable_twice,
   d_io_control_route_cpu |-> d_io_control_route_cpu,
   d_io_control_route_directly_fifo |-> d_io_control_route_directly_fifo,
   d_io_control_route_directly_dma |-> d_io_control_route_directly_dma,
   d_io_control_route_hdl |-> d_io_control_route_hdl,
   d_io_control_backplane |-> d_io_control_backplane,
   d_io_control_fifo_reset |-> d_io_control_fifo_reset,
   e_transmit_loop |-> e_transmit_loop, f_poll |-> f_poll,
   g_irq_driven_read |-> g_irq_driven_read, h_irq_driven_write |-> h_irq_driven_write,
   i_cpu_block_crossbar |-> i_cpu_block_crossbar, q_fifo_usersignal |-> q_fifo_usersignal,
   j_hdl_block_processing |-> j_hdl_block_processing,
   k_hdl_block_ping_pong |-> k_hdl_block_ping_pong,
   l_hdl_block_zig_zag |-> l_hdl_block_zig_zag,
   a_program_icap_via_cpu_fifo |-> a_program_icap_via_cpu_fifo,
   n_dma_cpu_transfer |-> n_dma_cpu_transfer, o_cpu_dma_transfer |-> o_cpu_dma_transfer,
   p_dma_crossbar |-> p_dma_crossbar, p_dma_nonblocking_io |-> p_dma_nonblocking_io,
   p_dma_reset |-> p_dma_reset, q_dma_usersignal |-> q_dma_usersignal,
   a_to_cpu |-> a_to_cpu, d_dma_from_logic |-> d_dma_from_logic,
   a_from_cpu |-> a_from_cpu, d_dma_to_logic |-> d_dma_to_logic]

Other(test) ==
  CASE test = "openAvailable"      -> openAvailable_twice
    [] test = "g_irq_driven_read"  -> thread_read_data
    [] test = "h_irq_driven_write" -> thread_write_data
    [] OTHER -> << >>
=============================================================================
