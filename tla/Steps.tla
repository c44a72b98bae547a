-------------------------------- MODULE Steps --------------------------------
(***************************************************************************)
(* A notation for what the hooks and threads of a Producer do to the state *)
(* they share: sequences of steps, each of which is atomic.                *)
(***************************************************************************)
EXTENDS Integers, Sequences

Step(op, x, n) == <<[op |-> op, x |-> x, n |-> n]>>

Set(f)    == Step("set", f, 1)      \* a Boolean member
Clear(f)  == Step("clear", f, 1)
Phase(s)  == Step("phase", s, 1)    \* a member with several values
Lock(m)   == Step("lock", m, 1)     \* a mutex, released when an exception leaves
Unlock(m) == Step("unlock", m, 1)
Make(d)   == Step("make", d, 1)     \* d = new ..., or open it
Free(d)   == Step("free", d, 1)     \* delete d if there is one; d = null
Delete(d) == Step("delete", d, 1)   \* delete d, the pointer stays
Use(d)    == Step("use", d, 1)
Send      == Step("send", "", 1)    \* SendEvent
Spawn(t)  == Step("spawn", t, 1)    \* t = std::thread(...)
Join(t)   == Step("join", t, 1)     \* if(t.joinable()) t.join()
Need(x)   == Step("need", x, 1)     \* throws unless x
Throws    == Step("throws", "", 1)  \* may throw
Raise     == Need("never")
Await(f)  == Step("await", f, 1)    \* waits for the end of f
Patient(f) == Step("patient", f, 1) \* the same with a limit

\* Branches: n is the number of steps to jump.
If(x, p)        == Step("if", x, Len(p) + 1) \o p
Unless(x, p)    == Step("unless", x, Len(p) + 1) \o p
IfElse(x, p, q) == Step("if", x, Len(p) + 2) \o p \o Step("jump", "", Len(q) + 1) \o q
Maybe(p)        == Step("either", "", Len(p) + 1) \o p
Unfailing(p)    == Step("fails", "", Len(p) + 1) \o p     \* p, unless it fails
Breaks(p)       == Step("fails", "", Len(p) + 2) \o p     \* p ends a loop, which is left if it fails
Read(p, q)      == Step("read", "", Len(p) + 2) \o p \o Step("jump", "", Len(q) + 1) \o q
While(f, p)     == Step("while", f, Len(p) + 2) \o p \o Step("jump", "", -(Len(p) + 1))
Do(p, f)        == Step("do", "", 1) \o p \o Step("again", f, -Len(p))
=============================================================================
