----------------------------- MODULE ThreadFrames -----------------------------
(***************************************************************************)
(* The frames on a thread's ring 0 stack: those an interrupt and a switch  *)
(* push (isr_stubs.S, thread_switch.S) and those thread.c makes up so that *)
(* a new thread can be switched to as if it had been interrupted.          *)
(*                                                                         *)
(* A word is a pair of strings.  The stack is the sequence of the words    *)
(* from esp up to ebp0, where it starts out empty.  Registers hold words;  *)
(* what the frames say is compared with what the processor then loads.     *)
(***************************************************************************)
EXTENDS Integers, Sequences

CONSTANT FrameCases

VARIABLE frameCase

FrameInit == frameCase \in FrameCases

ZeroWord == <<"zero", "">>
Junk == <<"uninitialised", "">>
EFLAGS_IF == <<"eflags", "IF">>
Address(symbol) == <<"address", symbol>>

KERNEL_CODE_SELECTOR == <<"selector", "kernel code">>
KERNEL_DATA_SELECTOR == <<"selector", "kernel data">>
USER_CODE_SELECTOR == <<"selector", "user code">>
USER_DATA_SELECTOR == <<"selector", "user data">>

\* struct isr_frame and struct x86_switch_frame, from the lowest address on.
isr_frame == <<"edi", "esi", "ebp", "esp_dummy", "ebx", "edx", "ecx", "eax", "gs", "fs", "es", "ds",
               "int_no", "error_code", "frame_pointer", "eip", "cs", "eflags", "esp", "ss">>
x86_switch_frame == <<"edi", "esi", "ebp", "ebx", "eip">>

Registers == {"edi", "esi", "ebp", "ebx", "edx", "ecx", "eax", "gs", "fs", "es", "ds",
              "eip", "cs", "eflags", "esp", "ss"}

\* The words of a frame: a field that fields does not name is as kalloc left it.
Words(layout, fields) ==
  [i \in DOMAIN layout |-> IF layout[i] \in DOMAIN fields THEN fields[layout[i]] ELSE Junk]

Drop(stack, n) == SubSeq(stack, n + 1, Len(stack))

\* The registers, with those that names lists popped from the stack.
Popped(cpu, stack, names) ==
  [r \in Registers |->
     IF \E i \in DOMAIN names : names[i] = r THEN stack[CHOOSE i \in DOMAIN names : names[i] = r] ELSE cpu[r]]

-----------------------------------------------------------------------------
\* The processor and the code in assembly.  A state is the registers and stack.

\* iret takes esp and ss from the stack too when it returns to another ring.
iret(s) ==
  IF s.stack[2] = USER_CODE_SELECTOR
  THEN [cpu |-> Popped(s.cpu, s.stack, <<"eip", "cs", "eflags", "esp", "ss">>), stack |-> Drop(s.stack, 5)]
  ELSE [cpu |-> Popped(s.cpu, s.stack, <<"eip", "cs", "eflags">>), stack |-> Drop(s.stack, 3)]

\* popal and the segment registers; int_no, error_code and frame_pointer go.
isr_exit(s) ==
  LET popped == Popped(s.cpu, s.stack, <<"edi", "esi", "ebp", "", "ebx", "edx", "ecx", "eax", "gs", "fs", "es", "ds">>)
  IN  iret([cpu |-> popped, stack |-> Drop(s.stack, 15)])

\* The vectors for which the stubs expect an error code, and those for which
\* the processor pushes one.
isr_stubs == {"08", "0a", "0b", "0d", "0e", "11", "18", "1a", "1b", "1d", "1e"}
ErrorCode == {"08", "0a", "0b", "0c", "0d", "0e", "11", "15"}

\* The processor changes to stack0, empty while user code runs, if it was in
\* another ring, and pushes an error code for some vectors.
Interrupt(s, vector) ==
  [s EXCEPT !.stack =
     (IF vector \in ErrorCode THEN <<<<"error", "code">>>> ELSE <<>>)
     \o <<s.cpu.eip, s.cpu.cs, s.cpu.eflags>>
     \o (IF s.cpu.cs = USER_CODE_SELECTOR THEN <<s.cpu.esp, s.cpu.ss>> ELSE <<>>) \o @]

\* ZERO pushes ebp and 0; REAL moves the error code and puts ebp in its place.
STUB(s, vector) ==
  [s EXCEPT !.stack =
     <<<<"vector", vector>>>> \o
     IF vector \in isr_stubs THEN <<s.stack[1], s.cpu.ebp>> \o Tail(s.stack) ELSE <<ZeroWord, s.cpu.ebp>> \o s.stack]

isr_entry(s) ==
  [cpu |-> [s.cpu EXCEPT !.ds = KERNEL_DATA_SELECTOR, !.es = KERNEL_DATA_SELECTOR, !.ebp = Address("frame")],
   stack |-> <<s.cpu.edi, s.cpu.esi, s.cpu.ebp, <<"esp", "dummy">>, s.cpu.ebx, s.cpu.edx, s.cpu.ecx,
               s.cpu.eax, s.cpu.gs, s.cpu.fs, s.cpu.es, s.cpu.ds>> \o s.stack]

\* x86_thread_switch(current, new), called from where return says: what stays
\* on the stack of the current thread, and what happens on that of the new one.
SwitchFrom(s, return) == <<s.cpu.edi, s.cpu.esi, s.cpu.ebp, s.cpu.ebx, return>> \o s.stack
SwitchTo(cpu, stack) ==
  [cpu |-> Popped(cpu, stack, x86_switch_frame), stack |-> Drop(stack, Len(x86_switch_frame))]

\* uthread_switch_entry releases the scheduler's lock and returns.
uthread_switch_entry(s) ==
  [cpu |-> [s.cpu EXCEPT !.eip = s.stack[1], !.eax = Junk, !.ecx = Junk, !.edx = Junk], stack |-> Tail(s.stack)]

\* A thread that is switched to for the first time, up to its first instruction.
Resume(cpu, stack) ==
  LET s == SwitchTo(cpu, stack)
      t == IF s.cpu.eip = Address("uthread_switch_entry") THEN uthread_switch_entry(s) ELSE s IN
  IF t.cpu.eip = Address("isr_exit") THEN isr_exit(t) ELSE t

-----------------------------------------------------------------------------
\* thread.c.  The fields of struct arch_thread a frame is made from.

x86_thread_construct_thread(tentry, cs, ds, stack) ==
  [tentry |-> tentry, cs |-> cs, ds |-> ds, ebp |-> IF cs = USER_CODE_SELECTOR THEN stack ELSE ZeroWord,
   ebp0 |-> Address("stack0 bottom"), int_enabled |-> TRUE]

\* The frame of a thread that has not been interrupted yet.
NewFrame(arch, esp, ss) ==
  [ebp |-> arch.ebp0, ds |-> arch.ds, es |-> arch.ds, fs |-> ZeroWord, gs |-> ZeroWord, ss |-> ss, esp |-> esp,
   eflags |-> IF arch.int_enabled THEN EFLAGS_IF ELSE ZeroWord, cs |-> arch.cs, eip |-> arch.tentry]

setup_kthread_stack(arch) ==
  Words(x86_switch_frame, [ebp |-> arch.ebp0, eip |-> Address("isr_exit")])
  \o Words(isr_frame, NewFrame(arch, ZeroWord, ZeroWord))

kthread_create ==
  setup_kthread_stack(x86_thread_construct_thread(Address("kthread_entry"), KERNEL_CODE_SELECTOR, KERNEL_DATA_SELECTOR, ZeroWord))

\* Mutation: there is no return address for uthread_switch_entry.
UthreadWithoutReturn(arch, frame) ==
  Words(x86_switch_frame, [ebp |-> arch.ebp0, eip |-> Address("uthread_switch_entry")])
  \o Words(isr_frame, frame)

setup_uthread_stack(arch, frame) ==
  Words(x86_switch_frame, [ebp |-> arch.ebp0, eip |-> Address("uthread_switch_entry")])
  \o <<Address("isr_exit")>> \o Words(isr_frame, frame)

uthread_create(tentry, stack) ==
  LET arch == x86_thread_construct_thread(tentry, USER_CODE_SELECTOR, USER_DATA_SELECTOR, stack) IN
  setup_uthread_stack(arch, NewFrame(arch, arch.ebp, arch.ds))

\* frame is the frame of the parent's system call, which the child returns from.
uthread_fork_create(frame) ==
  setup_uthread_stack(
    x86_thread_construct_thread(Address("tentry"), USER_CODE_SELECTOR, USER_DATA_SELECTOR, Address("vstack bottom")),
    [[f \in {isr_frame[i] : i \in DOMAIN isr_frame} |-> frame[CHOOSE i \in DOMAIN isr_frame : isr_frame[i] = f]]
       EXCEPT !["eax"] = ZeroWord])

-----------------------------------------------------------------------------
\* The registers of a thread with code and data segments of its ring, and what
\* they hold in the middle of a function of the kernel.
RegistersOf(cs, ds) ==
  [[r \in Registers |-> <<"value", r>>] EXCEPT !.cs = cs, !.ds = ds, !.es = ds, !.ss = ds, !.eflags = EFLAGS_IF]
InKernel(cpu) == [[r \in Registers |-> <<"kernel", r>>] EXCEPT !.cs = KERNEL_CODE_SELECTOR, !.ds = cpu.ds, !.es = cpu.es]

Interrupted(cpu, vector) == isr_entry(STUB(Interrupt([cpu |-> cpu, stack |-> <<>>], vector), vector))

\* esp of a thread in ring 0 is where its stack is.
SameExceptEsp(a, b) == \A r \in Registers \ {"esp", "ss"} : a[r] = b[r]

(* A new thread begins where it should, with its segments, its own stack    *)
(* and interrupts enabled, and a forked one with the registers its parent   *)
(* had in fork, but for 0 as the result.  A user thread leaves nothing on   *)
(* its ring 0 stack, where the next interrupt starts from ebp0 again.       *)
FirstRunEnters ==
  /\ frameCase.kind = "kthread" =>
       LET s == Resume(RegistersOf(KERNEL_CODE_SELECTOR, KERNEL_DATA_SELECTOR), kthread_create) IN
       /\ s.cpu.eip = Address("kthread_entry") /\ s.cpu.cs = KERNEL_CODE_SELECTOR
       /\ {s.cpu.ds, s.cpu.es} = {KERNEL_DATA_SELECTOR} /\ s.cpu.eflags = EFLAGS_IF
       /\ s.cpu.ebp = Address("stack0 bottom") /\ Len(s.stack) = 2
  /\ frameCase.kind = "uthread" =>
       LET s == Resume(RegistersOf(KERNEL_CODE_SELECTOR, KERNEL_DATA_SELECTOR), uthread_create(Address("main"), Address("stack bottom"))) IN
       /\ s.cpu.eip = Address("main") /\ s.cpu.cs = USER_CODE_SELECTOR /\ s.cpu.esp = Address("stack bottom")
       /\ {s.cpu.ds, s.cpu.es, s.cpu.ss} = {USER_DATA_SELECTOR} /\ s.cpu.eflags = EFLAGS_IF
       /\ s.stack = <<>>
  /\ frameCase.kind = "fork" =>
       LET parent == RegistersOf(USER_CODE_SELECTOR, USER_DATA_SELECTOR)
           s == Resume(RegistersOf(KERNEL_CODE_SELECTOR, KERNEL_DATA_SELECTOR),
                       uthread_fork_create(Interrupted(parent, "80").stack)) IN
       s.cpu = [parent EXCEPT !.eax = ZeroWord] /\ s.stack = <<>>

(* For a vector whose stub expects an error code just when the processor    *)
(* pushes one, an interrupt or a system call, also one in which the thread  *)
(* is switched away from and back to, leaves the interrupted code with the  *)
(* registers it had, in both rings, and its ring 0 stack as it was.         *)
InterruptTransparent ==
  frameCase.kind = "interrupt" /\ (frameCase.vector \in isr_stubs <=> frameCase.vector \in ErrorCode) =>
    LET cpu == IF frameCase.ring = 3 THEN RegistersOf(USER_CODE_SELECTOR, USER_DATA_SELECTOR) ELSE RegistersOf(KERNEL_CODE_SELECTOR, KERNEL_DATA_SELECTOR)
        entered == Interrupted(cpu, frameCase.vector)
        inside == [entered EXCEPT !.cpu = InKernel(entered.cpu)]
        back == SwitchTo(RegistersOf(KERNEL_CODE_SELECTOR, KERNEL_DATA_SELECTOR), SwitchFrom(inside, Address("after")))
        left == IF frameCase.switched THEN back ELSE inside
        s == isr_exit(left) IN
    /\ frameCase.switched => /\ back.stack = inside.stack /\ back.cpu.eip = Address("after")
                             /\ \A r \in {"edi", "esi", "ebp", "ebx"} : back.cpu[r] = inside.cpu[r]
    /\ SameExceptEsp(s.cpu, cpu) /\ s.stack = <<>>
    /\ frameCase.ring = 3 => s.cpu.esp = cpu.esp /\ s.cpu.ss = cpu.ss

(* The two together: every frame is taken off the stack by code that        *)
(* expects just that frame.                                                 *)
FramesMatch == FirstRunEnters /\ InterruptTransparent

===============================================================================
