------------------------- MODULE HeadModule_proofs -------------------------
(***************************************************************************)
(* Proofs about HeadModule: the types of its fields and of the steps on    *)
(* the stacks, and that an ACTIVE head module has one worker, for any      *)
(* threads and whatever they do with the stream; then, of a stream that    *)
(* one thread controls (HeadSession), that its sessions begin, end and are *)
(* released in order, once, along the transitions of the state machine.    *)
(***************************************************************************)
EXTENDS HeadSession, QueueTheorems

USE DEF sync, mq, task, flags, session, ghost, usage, vars

-----------------------------------------------------------------------------
(* The invariant. *)

\* The steps with which a thread serves the queue, until exit has decremented
\* thr_count_.
Serving == {"svc", "get", "leave", "exit"} \X {""}

\* The steps that only a call of the interface makes; those of stop() among them.
Halting == ({"stop"} \X BOOLEAN) \cup ({"stop_state"} \X {""})
Calling == Halting \cup ({"module_closed"} \X {""})

Messages == {"BEGIN", "END", "ABORT", "DATA"}

\* The steps that take no argument, but for those above.
Plain == {"starting", "spawn", "stopping", "error", "put_stop", "put_stop_head",
          "abort", "abort_sent", "finished", "send_end", "process_end",
          "session_end", "unlock", "stop_processing", "clear_ids", "deactivate",
          "flush", "release", "start", "join", "close_queue", "wait_threads",
          "initialize"}

\* The steps that are neither, with the arguments that they are given.
Working ==
  ({"change", "set", "enter"} \X States)
  \cup ({"put"} \X (Messages \cup {"EXPEDITED_ABORT"}))
  \cup ({"handle"} \X (Messages \cup {"CONTROL_ABORT"}))
  \cup ({"deliver"} \X Messages)
  \cup ({"event"} \X {"BEGIN", "END", "ABORT"})
  \cup ({"notify", "notify_end", "notify_control"} \X {"ABORT", "EXPEDITED_ABORT"})
  \cup ({"wait"} \X BOOLEAN)
  \cup ({"join_lent"} \X Threads)
  \cup (Plain \X {""})

Entries == Working \cup Calling \cup Serving

LastOf(s) == s[Len(s)]

\* A stop() is never the last thing a thread has to do: a wait() follows.  Only the
\* threads of the application make calls.
Stacks ==
  /\ stack \in [Threads -> Seq(Entries)]
  /\ \A t \in Threads : stack[t] # <<>> => LastOf(stack[t]) \notin Halting
  /\ \A w \in Workers : stack[w] \in Seq(Working \cup Serving)

Serves(t) == stack[t] # <<>> /\ LastOf(stack[t]) \in Serving

\* A worker serves the queue last of all, and thr_count_ says whether one does.
OneWorker ==
  /\ thrCount \in 0..1
  /\ Mode = "ACTIVE" =>
       /\ \A u \in Users : stack[u] \in Seq(Working \cup Calling)
       /\ \A w \in Workers :
            \A i \in 1..Len(stack[w]) : stack[w][i] \in Serving => i = Len(stack[w])
       /\ \A w \in Workers : Serves(w) => thrCount = 1
       /\ \A v, w \in Workers : Serves(v) /\ Serves(w) => v = w

\* What the fields hold.
Fields ==
  /\ state \in States
  /\ {stateLock, taskLock, suspended} \subseteq Threads \cup {None}
  /\ queue \in Seq(Kinds)
  /\ {queueActive, isShuttingDown, isHighPriorityStop, abortSent, sessionEndSent,
      sessionEndProcessed, aborted, sessionData} \subseteq BOOLEAN
  /\ threadIds \subseteq Threads
  /\ app \in Applications /\ calls \in 0..app.calls
  /\ log \in [Events -> 0..2]

IInv == Stacks /\ OneWorker /\ Fields

-----------------------------------------------------------------------------
(* Stacks. *)

LEMMA Work ==
  /\ \A to \in States : <<"change", to>> \in Working /\ <<"set", to>> \in Working
                        /\ <<"enter", to>> \in Working
  /\ \A m \in Messages : <<"put", m>> \in Working /\ <<"handle", m>> \in Working
                         /\ <<"deliver", m>> \in Working
  /\ <<"put", "EXPEDITED_ABORT">> \in Working /\ <<"handle", "CONTROL_ABORT">> \in Working
  /\ \A e \in {"BEGIN", "END", "ABORT"} : <<"event", e>> \in Working
  /\ \A a \in {"ABORT", "EXPEDITED_ABORT"} :
       <<"notify", a>> \in Working /\ <<"notify_end", a>> \in Working
       /\ <<"notify_control", a>> \in Working
  /\ \A b \in BOOLEAN : <<"wait", b>> \in Working
  /\ \A u \in Threads : <<"join_lent", u>> \in Working
  /\ \A l \in Plain : Step(l) \in Working
<1>1. \A to \in States : <<"change", to>> \in Working /\ <<"set", to>> \in Working
                         /\ <<"enter", to>> \in Working
  BY DEF Working
<1>2. \A m \in Messages : <<"put", m>> \in Working /\ <<"handle", m>> \in Working
                          /\ <<"deliver", m>> \in Working
  BY DEF Working
<1>3. <<"put", "EXPEDITED_ABORT">> \in Working /\ <<"handle", "CONTROL_ABORT">> \in Working
  BY DEF Working
<1>4. \A e \in {"BEGIN", "END", "ABORT"} : <<"event", e>> \in Working
  BY DEF Working
<1>5. \A a \in {"ABORT", "EXPEDITED_ABORT"} :
        <<"notify", a>> \in Working /\ <<"notify_end", a>> \in Working
        /\ <<"notify_control", a>> \in Working
  BY DEF Working
<1>6. (\A b \in BOOLEAN : <<"wait", b>> \in Working)
      /\ (\A u \in Threads : <<"join_lent", u>> \in Working)
  BY DEF Working
<1>7. \A l \in Plain : Step(l) \in Working
  BY DEF Working, Step
<1> QED BY <1>1, <1>2, <1>3, <1>4, <1>5, <1>6, <1>7

\* What an entry says when its label is known.
LEMMA Labelled ==
  ASSUME NEW e \in Entries
  PROVE  /\ e[1] \in Labels
         /\ e[1] \in {"change", "set", "enter"} => e[2] \in States
         /\ e[1] = "put" => e[2] \in Messages \cup {"EXPEDITED_ABORT"}
         /\ e[1] = "handle" => e[2] \in Messages \cup {"CONTROL_ABORT"}
         /\ e[1] = "deliver" => e[2] \in Messages
         /\ e[1] = "event" => e[2] \in {"BEGIN", "END", "ABORT"}
         /\ e[1] \in {"notify", "notify_end", "notify_control"} =>
              e[2] \in {"ABORT", "EXPEDITED_ABORT"}
         /\ e[1] \in {"stop", "wait"} => e[2] \in BOOLEAN
         /\ e[1] \in {"svc", "get", "leave", "exit"} => e \in Serving
         /\ e[1] \in {"stop", "stop_state"} => e \in Halting
         /\ e[1] = "module_closed" => e \in Calling
         /\ e[1] \notin {"svc", "get", "leave", "exit"} => e \notin Serving
         /\ e[1] \notin {"stop", "stop_state"} => e \notin Halting
  BY DEF Entries, Working, Plain, Calling, Halting, Serving, Labels

LEMMA Apart == /\ Serving \cap (Working \cup Calling) = {}
               /\ Calling \cap Working = {}
               /\ Halting \subseteq Calling
  BY DEF Working, Plain, Calling, Halting, Serving

\* n is p before all but the first element of s.
Spliced(s, p, n) ==
  /\ Len(s) \in Nat \ {0} /\ Len(p) \in Nat
  /\ Len(n) = Len(p) + Len(s) - 1
  /\ \A i \in 1..Len(p) : n[i] = p[i]
  /\ \A i \in Len(p) + 1..Len(n) : n[i] = s[i - Len(p) + 1]
  /\ Len(s) = 1 => n = p
  /\ Len(s) > 1 => n # <<>> /\ LastOf(n) = LastOf(s)

\* What a stack holds when its first step has made way for others.
LEMMA Pushed ==
  ASSUME NEW S, NEW s \in Seq(S), s # <<>>, NEW p \in Seq(S), NEW n, n = p \o Tail(s)
  PROVE  n \in Seq(S) /\ Spliced(s, p, n)
<1>1. /\ Len(s) \in Nat \ {0} /\ Len(p) \in Nat /\ s[1] \in S
      /\ Tail(s) \in Seq(S) /\ Len(Tail(s)) = Len(s) - 1
      /\ \A i \in 1..Len(s) - 1 : Tail(s)[i] = s[i + 1]
  BY LenProperties, HeadTailProperties, EmptySeq
<1>2. n \in Seq(S) /\ Len(n) = Len(p) + Len(s) - 1
  BY <1>1, ConcatProperties
<1>3. \A i \in 1..Len(p) : n[i] = p[i]
  BY <1>1, ConcatProperties
<1>4. \A i \in Len(p) + 1..Len(n) : n[i] = s[i - Len(p) + 1]
  <2> TAKE i \in Len(p) + 1..Len(n)
  <2> DEFINE j == i - Len(p)
  <2>1. j \in 1..Len(s) - 1 /\ i \in Nat
    BY <1>1, <1>2
  <2>2. n[i] = Tail(s)[j]
    BY <1>1, <1>2, <2>1, ConcatProperties
  <2> QED BY <1>1, <2>1, <2>2
<1>5. Len(s) = 1 => n = p
  <2> SUFFICES ASSUME Len(s) = 1 PROVE n = p
    OBVIOUS
  <2>0. Tail(s) \in Seq(S) /\ Len(Tail(s)) = 0
    BY <1>1
  <2>1. Tail(s) = <<>>
    BY ONLY <2>0, EmptySeq
  <2> QED BY <2>1, ConcatEmptySeq
<1>6. Len(s) > 1 => n # <<>> /\ LastOf(n) = LastOf(s)
  <2> SUFFICES ASSUME Len(s) > 1 PROVE n # <<>> /\ LastOf(n) = LastOf(s)
    OBVIOUS
  <2>1. Len(n) \in Len(p) + 1..Len(n) /\ Len(n) - Len(p) + 1 = Len(s) /\ Len(n) # 0
    BY <1>1, <1>2
  <2>2. n[Len(n)] = s[Len(s)]
    BY <1>4, <2>1
  <2> QED BY <2>1, <2>2, EmptySeq DEF LastOf
<1> QED BY <1>1, <1>2, <1>3, <1>4, <1>5, <1>6 DEF Spliced

\* A change of one stack that lets no thread begin to serve.
LEMMA Changed ==
  ASSUME Stacks, OneWorker, NEW t \in Threads, NEW n \in Seq(Entries),
         stack' = [stack EXCEPT ![t] = n], thrCount' = thrCount, app' = app,
         n # <<>> => LastOf(n) \notin Halting,
         t \in Workers => n \in Seq(Working \cup Serving),
         Mode = "ACTIVE" =>
           /\ t \in Users => n \in Seq(Working \cup Calling)
           /\ t \in Workers => \A i \in 1..Len(n) : n[i] \in Serving => i = Len(n)
           /\ n # <<>> /\ LastOf(n) \in Serving => Serves(t)
  PROVE  Stacks' /\ OneWorker'
<1>1. /\ stack'[t] = n /\ \A u \in Threads : u # t => stack'[u] = stack[u]
      /\ stack' \in [Threads -> Seq(Entries)]
  BY DEF Stacks
<1>2. Stacks'
  BY <1>1 DEF Stacks, Threads
<1>3. Mode' = Mode
  BY DEF Mode
<1>4. Mode = "ACTIVE" => \A u \in Threads : Serves(u)' => Serves(u)
  BY <1>1 DEF Serves
<1>5. OneWorker'
  BY <1>1, <1>3, <1>4 DEF OneWorker, Threads
<1> QED BY <1>2, <1>5

\* A step that does not serve the queue goes on to steps that do not either.
LEMMA WorkingStep ==
  ASSUME Stacks, OneWorker, NEW t \in Threads, stack[t] # <<>>, stack[t][1] \notin Serving,
         NEW p \in Seq(Working \cup Calling), Do(t, p), thrCount' = thrCount, app' = app,
         t \in Workers => p \in Seq(Working),
         Len(stack[t]) = 1 /\ p # <<>> => LastOf(p) \in Working
  PROVE  Stacks' /\ OneWorker'
<1> DEFINE O == Working \cup Calling
           P == Working \cup Serving
<1>0. PICK s, n : s = stack[t] /\ n = p \o Tail(s)
  OBVIOUS
<1>1. s \in Seq(Entries) /\ p \in Seq(Entries) /\ s # <<>>
  BY <1>0, SeqMonotonic DEF Stacks, Entries
<1>2. n \in Seq(Entries) /\ Spliced(s, p, n)
  BY <1>0, <1>1, Pushed
<1>3. n # <<>> => LastOf(n) \notin Halting
  <2>1. LastOf(s) \notin Halting
    BY <1>0, <1>1 DEF Stacks
  <2>2. CASE Len(s) = 1
    BY <1>0, <1>2, <2>2, Apart DEF Spliced
  <2>3. CASE Len(s) > 1
    BY <1>2, <2>1, <2>3 DEF Spliced
  <2>4. Len(s) \in Nat \ {0}
    BY <1>2 DEF Spliced
  <2>5. \A k \in Nat \ {0} : k = 1 \/ k > 1
    OBVIOUS
  <2> QED BY <2>2, <2>3, <2>4, <2>5
<1>4. t \in Workers => n \in Seq(P)
  <2> SUFFICES ASSUME t \in Workers PROVE n \in Seq(P)
    OBVIOUS
  <2>1. s \in Seq(P) /\ p \in Seq(P)
    BY <1>0, SeqMonotonic DEF Stacks
  <2> QED BY <1>0, <1>1, <2>1, Pushed
<1>5. Mode = "ACTIVE" /\ t \in Users => n \in Seq(O)
  <2> SUFFICES ASSUME Mode = "ACTIVE", t \in Users PROVE n \in Seq(O)
    OBVIOUS
  <2>1. s \in Seq(O) /\ p \in Seq(O)
    BY <1>0 DEF OneWorker
  <2> QED BY <1>0, <1>1, <2>1, Pushed
<1>6. ASSUME Mode = "ACTIVE", t \in Workers
      PROVE  \A i \in 1..Len(n) : n[i] \in Serving => i = Len(n)
  <2> SUFFICES ASSUME NEW i \in 1..Len(n), n[i] \in Serving PROVE i = Len(n)
    OBVIOUS
  <2>1. ~(i \in 1..Len(p))
    BY <1>2, <1>6, Apart, ElementOfSeq DEF Spliced
  <2>2. i \in Len(p) + 1..Len(n) /\ i - Len(p) + 1 \in 1..Len(s)
    BY <1>2, <2>1 DEF Spliced
  <2>3. i - Len(p) + 1 = Len(s)
    BY <1>0, <1>2, <1>6, <2>2 DEF OneWorker, Spliced
  <2> QED BY <1>2, <2>3 DEF Spliced
<1>7. n # <<>> /\ LastOf(n) \in Serving => Serves(t)
  <2>1. LastOf(s) \in Serving => Serves(t)
    BY <1>0, <1>1 DEF Serves
  <2>2. CASE Len(s) = 1
    BY <1>0, <1>2, <2>2, Apart DEF Spliced
  <2>3. CASE Len(s) > 1
    BY <1>2, <2>1, <2>3 DEF Spliced
  <2>4. Len(s) \in Nat \ {0}
    BY <1>2 DEF Spliced
  <2>5. \A k \in Nat \ {0} : k = 1 \/ k > 1
    OBVIOUS
  <2> QED BY <2>2, <2>3, <2>4, <2>5
<1>8. stack' = [stack EXCEPT ![t] = n]
  BY <1>0 DEF Do
<1> QED BY <1>2, <1>3, <1>4, <1>5, <1>6, <1>7, <1>8, Changed

\* A thread that serves the queue goes on to serve it; or, with the last step that
\* does, it stops being counted.
LEMMA ServingStep ==
  ASSUME Stacks, OneWorker, NEW t \in Threads, stack[t] # <<>>, stack[t][1] \in Serving,
         NEW p \in Seq(Working \cup Serving), Do(t, p), app' = app,
         p # <<>> => LastOf(p) \notin Halting,
         \A i \in 1..Len(p) : p[i] \in Serving => i = Len(p),
         \/ thrCount' = thrCount
         \/ /\ p \in Seq(Working)
            /\ thrCount' = IF Mode = "ACTIVE" THEN thrCount - 1 ELSE thrCount
  PROVE  Stacks' /\ OneWorker'
<1> DEFINE P == Working \cup Serving
<1>0. PICK s, n : s = stack[t] /\ n = p \o Tail(s)
  OBVIOUS
<1>1. s \in Seq(Entries) /\ p \in Seq(Entries) /\ s # <<>>
  BY <1>0, SeqMonotonic DEF Stacks, Entries
<1>2. n \in Seq(Entries) /\ Spliced(s, p, n)
  BY <1>0, <1>1, Pushed
<1>3. n # <<>> => LastOf(n) \notin Halting
  <2>1. LastOf(s) \notin Halting
    BY <1>0, <1>1 DEF Stacks
  <2>2. CASE Len(s) = 1
    BY <1>0, <1>2, <2>2 DEF Spliced
  <2>3. CASE Len(s) > 1
    BY <1>2, <2>1, <2>3 DEF Spliced
  <2>4. Len(s) \in Nat \ {0}
    BY <1>2 DEF Spliced
  <2>5. \A k \in Nat \ {0} : k = 1 \/ k > 1
    OBVIOUS
  <2> QED BY <2>2, <2>3, <2>4, <2>5
<1>4. t \in Workers => n \in Seq(P)
  <2> SUFFICES ASSUME t \in Workers PROVE n \in Seq(P)
    OBVIOUS
  <2>1. s \in Seq(P) /\ p \in Seq(P)
    BY <1>0 DEF Stacks
  <2> QED BY <1>0, <1>1, <2>1, Pushed
<1>5. Mode = "ACTIVE" => /\ t \in Workers /\ t \notin Users /\ n = p
                         /\ Serves(t) /\ thrCount = 1
                         /\ \A w \in Workers : Serves(w) => w = t
  <2> SUFFICES ASSUME Mode = "ACTIVE"
               PROVE  /\ t \in Workers /\ t \notin Users /\ n = p
                      /\ Serves(t) /\ thrCount = 1
                      /\ \A w \in Workers : Serves(w) => w = t
    OBVIOUS
  <2>1. ASSUME t \in Users PROVE FALSE
    <3>1. s \in Seq(Working \cup Calling) /\ 1 \in 1..Len(s)
      BY <1>0, <1>2, <2>1 DEF OneWorker, Spliced
    <3>2. s[1] \in Working \cup Calling
      BY <3>1, ElementOfSeq
    <3> QED BY <1>0, <3>2, Apart
  <2>2. t \in Workers
    BY <2>1 DEF Threads
  <2>3. 1 = Len(s)
    <3>1. 1 \in 1..Len(s)
      BY <1>2 DEF Spliced
    <3> QED BY <1>0, <2>2, <3>1 DEF OneWorker
  <2>4. Serves(t)
    BY <1>0, <1>1, <2>3 DEF Serves, LastOf
  <2> QED BY <1>2, <2>1, <2>2, <2>3, <2>4 DEF OneWorker, Spliced
<1>8. stack' = [stack EXCEPT ![t] = n]
  BY <1>0 DEF Do
<1>9. CASE thrCount' = thrCount
  BY <1>2, <1>3, <1>4, <1>5, <1>8, <1>9, Changed
<1>10. CASE /\ p \in Seq(Working)
            /\ thrCount' = IF Mode = "ACTIVE" THEN thrCount - 1 ELSE thrCount
  <2>1. /\ stack'[t] = n /\ \A u \in Threads : u # t => stack'[u] = stack[u]
        /\ stack' \in [Threads -> Seq(Entries)]
    BY <1>2, <1>8 DEF Stacks
  <2>2. Stacks'
    BY <1>3, <1>4, <2>1 DEF Stacks, Threads
  <2>3. Mode' = Mode
    BY DEF Mode
  <2>4. CASE Mode # "ACTIVE"
    BY <1>10, <2>3, <2>4, <2>2 DEF OneWorker
  <2>5. CASE Mode = "ACTIVE"
    <3>1. thrCount' = 0
      BY <1>5, <1>10, <2>5
    <3>2. \A w \in Workers : ~Serves(w)'
      <4> TAKE w \in Workers
      <4>1. CASE w = t
        <5>1. n # <<>> => LastOf(n) \in Working
          <6> SUFFICES ASSUME n # <<>> PROVE LastOf(n) \in Working
            OBVIOUS
          <6>1. n \in Seq(Working)
            BY <1>5, <1>10, <2>5
          <6>2. Len(n) \in 1..Len(n)
            BY <6>1, EmptySeq, LenProperties
          <6> QED BY <6>1, <6>2, ElementOfSeq DEF LastOf
        <5> QED BY <2>1, <4>1, <5>1, Apart DEF Serves
      <4>2. CASE w # t
        BY <1>5, <2>1, <2>5, <4>2 DEF Serves, Threads
      <4> QED BY <4>1, <4>2
    <3>3. \A u \in Users : stack'[u] \in Seq(Working \cup Calling)
      BY <1>5, <2>1, <2>5 DEF OneWorker, Threads
    <3>4. \A w \in Workers :
            \A i \in 1..Len(stack'[w]) : stack'[w][i] \in Serving => i = Len(stack'[w])
      BY <1>5, <2>1, <2>5 DEF OneWorker, Threads
    <3> QED BY <2>2, <3>1, <3>2, <3>3, <3>4 DEF OneWorker
  <2> QED BY <2>4, <2>5
<1> QED BY <1>9, <1>10

\* stop_state may end the call: the step behind it is dropped as well.
LEMMA DroppingStep ==
  ASSUME Stacks, OneWorker, NEW t \in Threads, stack[t] # <<>>, stack[t][1] \in Calling,
         stack[t][1] \in Halting,
         stack' = [stack EXCEPT ![t] = Tail(Tail(@))], thrCount' = thrCount, app' = app
  PROVE  Stacks' /\ OneWorker'
<1>0. PICK s, r, n : s = stack[t] /\ r = Tail(s) /\ n = Tail(r)
  OBVIOUS
<1>1. s \in Seq(Entries) /\ s # <<>> /\ LastOf(s) \notin Halting
  BY <1>0 DEF Stacks
<1>2. Len(s) \in Nat \ {0} /\ s[1] \in Halting
  BY <1>0, <1>1, EmptySeq, LenProperties
<1>3. Len(s) # 1
  BY <1>1, <1>2 DEF LastOf
<1>4. /\ r \in Seq(Entries) /\ Len(r) = Len(s) - 1 /\ r # <<>>
      /\ \A i \in 1..Len(r) : r[i] = s[i + 1]
  <2>1. r \in Seq(Entries) /\ Len(r) = Len(s) - 1 /\ \A i \in 1..Len(r) : r[i] = s[i + 1]
    BY <1>0, <1>1, HeadTailProperties
  <2>2. Len(r) # 0
    BY <1>2, <1>3, <2>1
  <2> QED BY <2>1, <2>2, EmptySeq
<1>5. /\ n \in Seq(Entries) /\ Len(n) = Len(r) - 1
      /\ \A i \in 1..Len(n) : n[i] = r[i + 1]
  BY <1>0, <1>4, HeadTailProperties
<1>6. \A S : s \in Seq(S) => n \in Seq(S)
  <2> TAKE S
  <2> HAVE s \in Seq(S)
  <2>1. r \in Seq(S)
    BY <1>0, <1>1, HeadTailProperties
  <2> QED BY <1>0, <1>4, <2>1, HeadTailProperties
<1>7. n # <<>> => LastOf(n) = LastOf(s)
  <2> SUFFICES ASSUME n # <<>> PROVE n[Len(n)] = s[Len(s)]
    BY DEF LastOf
  <2>1. Len(n) \in 1..Len(n)
    BY <1>5, EmptySeq, LenProperties
  <2>2. n[Len(n)] = r[Len(n) + 1] /\ Len(n) + 1 = Len(r) /\ Len(r) \in 1..Len(r)
    BY <1>2, <1>3, <1>4, <1>5, <2>1
  <2>3. r[Len(r)] = s[Len(r) + 1] /\ Len(r) + 1 = Len(s)
    BY <1>2, <1>4, <2>2
  <2> QED BY <2>2, <2>3
<1>8. t \in Users /\ t \notin Workers
  <2>1. ASSUME t \in Workers PROVE FALSE
    <3>1. s \in Seq(Working \cup Serving) /\ 1 \in 1..Len(s)
      BY <1>0, <1>2, <2>1 DEF Stacks
    <3>2. s[1] \in Working \cup Serving
      BY <3>1, ElementOfSeq
    <3> QED BY <1>2, <3>2, Apart
  <2> QED BY <2>1 DEF Threads
<1>9. Mode = "ACTIVE" => /\ n \in Seq(Working \cup Calling)
                         /\ n # <<>> /\ LastOf(n) \in Serving => Serves(t)
  BY <1>0, <1>1, <1>6, <1>7, <1>8 DEF OneWorker, Serves
<1>10. stack' = [stack EXCEPT ![t] = n]
  BY <1>0
<1>11. n # <<>> => LastOf(n) \notin Halting
  BY <1>1, <1>7
<1> QED BY <1>5, <1>8, <1>9, <1>10, <1>11, Changed

-----------------------------------------------------------------------------
(* The actions. *)

\* What is known of a thread by the step that it is at.
LEMMA AtStep ==
  ASSUME Stacks, NEW t \in Threads, NEW l, At(t, l)
  PROVE  /\ stack[t] # <<>>
         /\ l \notin {"svc", "get", "leave", "exit"} => stack[t][1] \notin Serving
         /\ l \in {"svc", "get", "leave", "exit"} => stack[t][1] \in Serving
         /\ l \in {"change", "set", "enter"} => Arg(t) \in States
         /\ l = "put" => Arg(t) \in Messages \cup {"EXPEDITED_ABORT"}
         /\ l = "handle" => Arg(t) \in Messages \cup {"CONTROL_ABORT"}
         /\ l = "deliver" => Arg(t) \in Messages
         /\ l = "event" => Arg(t) \in {"BEGIN", "END", "ABORT"}
         /\ l \in {"notify", "notify_end", "notify_control"} =>
              Arg(t) \in {"ABORT", "EXPEDITED_ABORT"}
         /\ l \in {"stop", "wait"} => Arg(t) \in BOOLEAN
         /\ l \in {"stop", "stop_state"} => stack[t][1] \in Halting
         /\ l = "module_closed" => stack[t][1] \in Calling
<1>1. stack[t] # <<>> /\ stack[t][1][1] = l
  BY DEF At
<1>2. stack[t][1] \in Entries
  <2>1. stack[t] \in Seq(Entries) /\ 1 \in 1..Len(stack[t])
    BY <1>1, EmptySeq, LenProperties DEF Stacks
  <2> QED BY <2>1, ElementOfSeq
<1> QED BY <1>1, <1>2, Labelled DEF Arg

\* One that does not serve the queue goes on with work.
Works(t) == stack[t] # <<>> /\ stack[t][1] \notin Serving /\ \E p \in Seq(Working) : Do(t, p)

LEMMA WorkDone ==
  ASSUME Stacks, OneWorker, NEW t \in Threads, Works(t), thrCount' = thrCount, app' = app
  PROVE  Stacks' /\ OneWorker'
<1>1. PICK p \in Seq(Working) : Do(t, p)
  BY DEF Works
<1>2. p # <<>> => LastOf(p) \in Working
  <2> SUFFICES ASSUME p # <<>> PROVE p[Len(p)] \in Working
    BY DEF LastOf
  <2>1. Len(p) \in 1..Len(p)
    BY EmptySeq, LenProperties
  <2> QED BY <2>1, ElementOfSeq
<1>3. p \in Seq(Working \cup Calling)
  BY SeqMonotonic
<1> QED BY <1>1, <1>2, <1>3, WorkingStep DEF Works

LEMMA ChangeKeeps ==
  ASSUME IInv, NEW t \in Threads, Change(t)
  PROVE  IInv'
<1>1. Stacks /\ OneWorker /\ Fields /\ At(t, "change")
  BY DEF IInv, Change
<1>2. stack[t] # <<>> /\ stack[t][1] \notin Serving /\ Arg(t) \in States
  BY <1>1, AtStep
<1>3. Route(state, Arg(t)) \in Seq(States)
  <2>1. /\ "RUNNING" \in States /\ "SESSION_STOPPING" \in States
        /\ \A x, y \in States : <<x>> \in Seq(States) /\ <<x, y>> \in Seq(States)
    BY DEF States
  <2> QED BY <1>2, <2>1 DEF Route
<1>4. [i \in DOMAIN Route(state, Arg(t)) |-> <<"enter", Route(state, Arg(t))[i]>>] \in Seq(Working)
  <2> DEFINE r == Route(state, Arg(t))
             p == [i \in DOMAIN r |-> <<"enter", r[i]>>]
  <2>1. DOMAIN r = 1..Len(r) /\ Len(r) \in Nat /\ \A i \in 1..Len(r) : r[i] \in States
    BY <1>3, LenProperties, ElementOfSeq
  <2>2. p \in [1..Len(r) -> Working]
    BY <2>1, Work
  <2> QED BY <2>1, <2>2, SeqDef
<1>5. <<>> \in Seq(Working)
  OBVIOUS
<1>6. Works(t)
  BY <1>2, <1>4, <1>5 DEF Change, Works
<1>7. Fields'
  BY <1>1 DEF Change, Fields
<1> QED BY <1>1, <1>6, <1>7, WorkDone DEF Change, IInv

LEMMA EnteringKeeps ==
  ASSUME IInv, NEW t \in Threads,
         \/ SetState(t) \/ EnterInitialized(t) \/ EnterStarting(t) \/ EnterRunning(t)
         \/ EnterPaused(t) \/ EnterStopping(t) \/ EnterStopped(t) \/ EnterFinished(t)
  PROVE  IInv'
<1>1. Stacks /\ OneWorker /\ Fields
  BY DEF IInv
<1>2. \A l \in {"set", "enter"} : At(t, l) =>
        stack[t] # <<>> /\ stack[t][1] \notin Serving /\ Arg(t) \in States
  BY <1>1, AtStep
<1>3. /\ \A to \in States : <<"set", to>> \in Working /\ <<"change", to>> \in Working
      /\ Step("starting") \in Working /\ Step("stopping") \in Working
  BY Work DEF Plain
<1>4. /\ {"INITIALIZED", "SESSION_STARTING", "RUNNING", "PAUSED", "SESSION_STOPPING",
          "STOPPED", "FINISHED"} \subseteq States
  BY DEF States
<1>5. /\ <<>> \in Seq(Working)
      /\ \A e \in Working : <<e>> \in Seq(Working)
  OBVIOUS
<1>a. CASE SetState(t)
  <2>1. Works(t)
    BY <1>a, <1>2, <1>5 DEF SetState, Works
  <2>2. Fields' /\ thrCount' = thrCount /\ app' = app
    BY <1>a, <1>1, <1>2 DEF SetState, Fields
  <2> QED BY <1>1, <2>1, <2>2, WorkDone DEF IInv
<1>b. CASE EnterInitialized(t)
  <2>1. Works(t)
    BY <1>b, <1>2, <1>3, <1>4, <1>5 DEF EnterInitialized, Works
  <2>2. Fields' /\ thrCount' = thrCount /\ app' = app
    BY <1>b, <1>1 DEF EnterInitialized, Fields
  <2> QED BY <1>1, <2>1, <2>2, WorkDone DEF IInv
<1>c. CASE EnterStarting(t)
  <2>1. Works(t)
    BY <1>c, <1>2, <1>3, <1>5 DEF EnterStarting, Works
  <2>2. Fields' /\ thrCount' = thrCount /\ app' = app
    <3>1. NoLog \in [Events -> 0..2]
      BY DEF NoLog
    <3> QED BY <1>c, <1>1, <3>1 DEF EnterStarting, Fields
  <2> QED BY <1>1, <2>1, <2>2, WorkDone DEF IInv
<1>d. CASE EnterRunning(t)
  <2>1. Works(t)
    BY <1>d, <1>2, <1>3, <1>4, <1>5 DEF EnterRunning, Works
  <2>2. Fields' /\ thrCount' = thrCount /\ app' = app
    BY <1>d, <1>1 DEF EnterRunning, Fields, Resumed
  <2> QED BY <1>1, <2>1, <2>2, WorkDone DEF IInv
<1>e. CASE EnterPaused(t)
  <2>1. Works(t)
    BY <1>e, <1>2, <1>3, <1>4, <1>5 DEF EnterPaused, Works
  <2>2. Fields' /\ thrCount' = thrCount /\ app' = app
    BY <1>e, <1>1 DEF EnterPaused, Fields
  <2> QED BY <1>1, <2>1, <2>2, WorkDone DEF IInv
<1>f. CASE EnterStopping(t)
  <2>1. Works(t)
    BY <1>f, <1>2, <1>3, <1>4, <1>5 DEF EnterStopping, Works
  <2>2. Fields' /\ thrCount' = thrCount /\ app' = app
    BY <1>f, <1>1, <1>4 DEF EnterStopping, Fields, Resumed
  <2> QED BY <1>1, <2>1, <2>2, WorkDone DEF IInv
<1>g. CASE EnterStopped(t)
  <2>1. Works(t)
    BY <1>g, <1>2, <1>3, <1>4, <1>5 DEF EnterStopped, Works
  <2>2. Fields' /\ thrCount' = thrCount /\ app' = app
    BY <1>g, <1>1, <1>4 DEF EnterStopped, Fields
  <2> QED BY <1>1, <2>1, <2>2, WorkDone DEF IInv
<1>h. CASE EnterFinished(t)
  <2>1. Works(t)
    BY <1>h, <1>2, <1>3, <1>4, <1>5 DEF EnterFinished, Works
  <2>2. Fields' /\ thrCount' = thrCount /\ app' = app
    BY <1>h, <1>1 DEF EnterFinished, Fields
  <2> QED BY <1>1, <2>1, <2>2, WorkDone DEF IInv
<1> QED BY <1>a, <1>b, <1>c, <1>d, <1>e, <1>f, <1>g, <1>h

LEMMA OnChangeKeeps ==
  ASSUME IInv, NEW t \in Threads, Starting(t) \/ Stopping(t)
  PROVE  IInv'
<1>1. Stacks /\ OneWorker /\ Fields
  BY DEF IInv
<1>2. \A l \in {"starting", "stopping"} : At(t, l) =>
        stack[t] # <<>> /\ stack[t][1] \notin Serving
  BY <1>1, AtStep
<1>3. /\ <<"put", "BEGIN">> \in Working /\ Step("spawn") \in Working
      /\ <<"change", "STOPPED">> \in Working
      /\ Step("finished") \in Working /\ Step("put_stop") \in Working
  BY Work DEF Plain, States, Messages
<1>a. CASE Starting(t)
  <2>0. <<<<"put", "BEGIN">>, Step("spawn")>> \in Seq(Working)
    BY <1>3
  <2>1. Works(t)
    BY <1>a, <1>2, <2>0 DEF Starting, StartingWith, Works
  <2>2. Fields' /\ thrCount' = thrCount /\ app' = app
    BY <1>a, <1>1 DEF Starting, StartingWith, Fields, States
  <2> QED BY <1>1, <2>1, <2>2, WorkDone DEF IInv
<1>b. CASE Stopping(t)
  <2>0. PICK p, q : /\ p = IF Inline THEN <<Step("finished")>> ELSE <<Step("put_stop")>>
                    /\ q = IF abortSent \/ aborted THEN <<<<"change", "STOPPED">>>> ELSE <<>>
                    /\ At(t, "stopping") /\ Do(t, p \o q)
    BY <1>b DEF Stopping, StoppingWith
  <2>3. p \in Seq(Working) /\ q \in Seq(Working)
    BY <1>3, <2>0
  <2>4. p \o q \in Seq(Working)
    BY <2>3, ConcatProperties
  <2>1. Works(t)
    BY <1>2, <2>0, <2>4 DEF Works
  <2>2. Fields' /\ thrCount' = thrCount /\ app' = app
    BY <1>b, <1>1 DEF Stopping, StoppingWith, Fields
  <2> QED BY <1>1, <2>1, <2>2, WorkDone DEF IInv
<1> QED BY <1>a, <1>b

\* start() of an ACTIVE head makes a worker serve the queue if none does.
LEMMA SpawnKeeps ==
  ASSUME IInv, NEW t \in Threads, Spawn(t)
  PROVE  IInv'
<1>1. Stacks /\ OneWorker /\ Fields /\ At(t, "spawn")
  BY DEF IInv, Spawn
<1>2. stack[t] # <<>> /\ stack[t][1] \notin Serving
  BY <1>1, AtStep
<1>3. <<"change", "SESSION_STOPPING">> \in Working
  BY Work DEF States
<1>4. app' = app /\ Mode' = Mode
  BY DEF Spawn, Mode
<1>5. Mode \in Modes
  BY <1>1, ApplicationsAssumption DEF Fields, Mode
<1>a. CASE Mode = "ACTIVE" /\ thrCount = 0
  <2>1. PICK w \in Workers :
          /\ stack[w] = <<>> /\ threadIds' = threadIds \cup {w} /\ thrCount' = 1
          /\ stack' = [stack EXCEPT ![t] = Tail(@), ![w] = <<Step("svc")>>]
    BY <1>a DEF Spawn
  <2>2. PICK s, r, v : s = stack[t] /\ r = Tail(s) /\ v = <<Step("svc")>>
    OBVIOUS
  <2>3. s \in Seq(Entries) /\ s # <<>> /\ LastOf(s) \notin Halting
    BY <1>1, <1>2, <2>2 DEF Stacks
  <2>4. \A S : s \in Seq(S) => r \in Seq(S) /\ Spliced(s, <<>>, r)
    <3> TAKE S
    <3> HAVE s \in Seq(S)
    <3>1. r \in Seq(S) /\ <<>> \in Seq(S)
      BY <2>2, <2>3, HeadTailProperties
    <3>2. r = <<>> \o Tail(s)
      BY <2>2, <3>1, ConcatEmptySeq
    <3> QED BY <2>3, <3>1, <3>2, Pushed
  <2>5. Spliced(s, <<>>, r) /\ r \in Seq(Entries) /\ Len(<<>>) = 0
    BY <2>3, <2>4
  <2>6. r # <<>> => LastOf(r) = LastOf(s)
    BY <2>5 DEF Spliced
  <2>7. /\ v \in Seq(Working \cup Serving) /\ v \in Seq(Entries) /\ Len(v) = 1
        /\ LastOf(v) \notin Halting
        /\ \A i \in 1..Len(v) : v[i] \in Serving => i = Len(v)
    <3>1. Step("svc") \in Serving /\ Step("svc") \notin Halting
      BY DEF Step, Serving, Halting
    <3>2. v \in Seq(Serving) /\ Len(v) = 1 /\ v[1] = Step("svc")
      BY <2>2, <3>1
    <3>3. v \in Seq(Working \cup Serving) /\ v \in Seq(Entries)
      BY <3>2, SeqMonotonic DEF Entries
    <3>4. \A i \in 1..1 : i = 1
      OBVIOUS
    <3> QED BY <3>1, <3>2, <3>3, <3>4 DEF LastOf
  <2>8. /\ stack'[t] = r /\ stack'[w] = v /\ t # w
        /\ \A u \in Threads : u # t /\ u # w => stack'[u] = stack[u]
        /\ stack' \in [Threads -> Seq(Entries)]
    <3>1. stack' = [stack EXCEPT ![t] = r, ![w] = v] /\ t # w /\ w \in Threads
      BY <1>2, <2>1, <2>2 DEF Threads
    <3>2. stack \in [Threads -> Seq(Entries)]
      BY <1>1 DEF Stacks
    <3> QED BY <2>5, <2>7, <3>1, <3>2
  <2>9. Stacks'
    <3>1. \A u \in Threads : stack'[u] # <<>> => LastOf(stack'[u]) \notin Halting
      BY <1>1, <2>3, <2>6, <2>7, <2>8 DEF Stacks
    <3>2. \A u \in Workers : stack'[u] \in Seq(Working \cup Serving)
      BY <1>1, <2>2, <2>4, <2>7, <2>8 DEF Stacks, Threads
    <3> QED BY <2>8, <3>1, <3>2 DEF Stacks
  <2>10. \A u \in Workers : ~Serves(u)
    BY <1>1, <1>a DEF OneWorker
  <2>11. \A u \in Workers : Serves(u)' => u = w
    <3>1. Serves(t)' => Serves(t)
      BY <2>2, <2>3, <2>6, <2>8 DEF Serves
    <3> QED BY <2>8, <2>10, <3>1 DEF Serves, Threads
  <2>12. \A u \in Users : stack'[u] \in Seq(Working \cup Calling)
    BY <1>1, <1>a, <2>2, <2>4, <2>8, ThreadsAssumption DEF OneWorker, Threads
  <2>13. \A u \in Workers :
           \A i \in 1..Len(stack'[u]) : stack'[u][i] \in Serving => i = Len(stack'[u])
    <3>1. t \in Workers => \A i \in 1..Len(r) : r[i] \in Serving => i = Len(r)
      <4> SUFFICES ASSUME t \in Workers, NEW i \in 1..Len(r), r[i] \in Serving
                   PROVE  i = Len(r)
        OBVIOUS
      <4>1. r[i] = s[i + 1] /\ i + 1 \in 1..Len(s) /\ Len(r) = Len(s) - 1 /\ Len(s) \in Nat
        BY <2>5 DEF Spliced
      <4>2. i + 1 = Len(s)
        BY <1>1, <1>a, <2>2, <4>1 DEF OneWorker
      <4> QED BY <4>1, <4>2
    <3> QED BY <1>1, <1>a, <2>7, <2>8, <3>1 DEF OneWorker, Threads
  <2>14. OneWorker'
    <3>1. \A u, x \in Workers : Serves(u)' /\ Serves(x)' => u = x
      BY <2>11
    <3>2. thrCount' = 1 /\ thrCount' \in 0..1
      BY <2>1
    <3> QED BY <2>12, <2>13, <3>1, <3>2 DEF OneWorker
  <2>15. Fields'
    BY <1>1, <2>1 DEF Spawn, Fields, Threads
  <2> QED BY <2>9, <2>14, <2>15 DEF IInv
<1>b. CASE Mode = "ACTIVE" /\ thrCount # 0
  <2>0. thrCount > 0 /\ <<>> \in Seq(Working)
    BY <1>1, <1>b DEF OneWorker
  <2>1. Do(t, <<>>) /\ thrCount' = thrCount /\ threadIds' = threadIds
    BY <1>b, <2>0 DEF Spawn
  <2>2. Works(t)
    BY <1>2, <2>0, <2>1 DEF Works
  <2>3. Fields'
    BY <1>1, <2>1 DEF Spawn, Fields
  <2> QED BY <1>1, <1>4, <2>1, <2>2, <2>3, WorkDone DEF IInv
<1>c. CASE Mode = "PASSIVE"
  <2>1. thrCount' = thrCount /\ threadIds' = threadIds \cup {t} /\ Do(t, <<Step("svc")>>)
    BY <1>c DEF Spawn
  <2>2. PICK s, p, n : s = stack[t] /\ p = <<Step("svc")>> /\ n = p \o Tail(s)
    OBVIOUS
  <2>3. stack' = [stack EXCEPT ![t] = n]
    BY <2>1, <2>2 DEF Do
  <2>4. s \in Seq(Entries) /\ s # <<>> /\ LastOf(s) \notin Halting
    BY <1>1, <1>2, <2>2 DEF Stacks
  <2>5. p \in Seq(Working \cup Serving) /\ p \in Seq(Entries) /\ LastOf(p) \notin Halting
    <3>1. Step("svc") \in Serving /\ Step("svc") \notin Halting
      BY DEF Step, Serving, Halting
    <3>2. p \in Seq(Serving) /\ Len(p) = 1 /\ p[1] = Step("svc")
      BY <2>2, <3>1
    <3> QED BY <3>1, <3>2, SeqMonotonic DEF LastOf, Entries
  <2>6. n \in Seq(Entries) /\ Spliced(s, p, n)
    BY <2>2, <2>4, <2>5, Pushed
  <2>7. LastOf(n) \notin Halting
    <3>1. CASE Len(s) = 1
      BY <2>5, <2>6, <3>1 DEF Spliced
    <3>2. CASE Len(s) > 1
      BY <2>4, <2>6, <3>2 DEF Spliced
    <3>3. Len(s) \in Nat \ {0}
      BY <2>6 DEF Spliced
    <3>4. \A k \in Nat \ {0} : k = 1 \/ k > 1
      OBVIOUS
    <3> QED BY <3>1, <3>2, <3>3, <3>4
  <2>8. t \in Workers => n \in Seq(Working \cup Serving)
    <3> SUFFICES ASSUME t \in Workers PROVE n \in Seq(Working \cup Serving)
      OBVIOUS
    <3>1. s \in Seq(Working \cup Serving)
      BY <1>1, <2>2 DEF Stacks
    <3> QED BY <2>2, <2>4, <2>5, <3>1, Pushed
  <2>9. Stacks' /\ OneWorker'
    BY <1>1, <1>4, <1>c, <2>1, <2>3, <2>6, <2>7, <2>8, Changed
  <2>10. Fields'
    BY <1>1, <2>1 DEF Spawn, Fields
  <2> QED BY <2>9, <2>10 DEF IInv
<1>d. CASE Mode = "CONCURRENT"
  <2>1. thrCount' = thrCount /\ threadIds' = threadIds
        /\ Do(t, IF aborted THEN <<<<"change", "SESSION_STOPPING">>>> ELSE <<>>)
    BY <1>d DEF Spawn
  <2>2. Works(t)
    <3>1. <<>> \in Seq(Working) /\ <<<<"change", "SESSION_STOPPING">>>> \in Seq(Working)
      BY <1>3
    <3> QED BY <1>2, <2>1, <3>1 DEF Works
  <2>3. Fields'
    BY <1>1, <2>1 DEF Spawn, Fields
  <2> QED BY <1>1, <1>4, <2>1, <2>2, <2>3, WorkDone DEF IInv
<1> QED BY <1>5, <1>a, <1>b, <1>c, <1>d DEF Modes

LEMMA PutMessageKeeps ==
  ASSUME IInv, NEW t \in Threads, PutMessage(t)
  PROVE  IInv'
<1>1. Stacks /\ OneWorker /\ Fields
  BY DEF IInv
<1>2. /\ \A l \in {"put", "error", "put_stop", "put_stop_head", "abort", "abort_sent"} :
           At(t, l) => stack[t] # <<>> /\ stack[t][1] \notin Serving
      /\ At(t, "put") => Arg(t) \in Messages \cup {"EXPEDITED_ABORT"}
  BY <1>1, AtStep
<1>3. /\ \A m \in Messages : <<"handle", m>> \in Working
      /\ <<"handle", "CONTROL_ABORT">> \in Working
      /\ Step("error") \in Working /\ Step("finished") \in Working
      /\ Step("abort") \in Working /\ Step("put_stop_head") \in Working
      /\ Step("abort_sent") \in Working
  BY Work DEF Plain
<1>4. /\ <<>> \in Seq(Working)
      /\ \A e \in Working : <<e>> \in Seq(Working)
      /\ \A e, f \in Working : <<e, f>> \in Seq(Working)
  OBVIOUS
<1>5. /\ \A m \in Messages \cup {"STOP", "CONTROL_ABORT"} :
           m \in Kinds /\ Append(queue, m) \in Seq(Kinds) /\ <<m>> \o queue \in Seq(Kinds)
      /\ "ABORT" \in Messages
  <2>1. queue \in Seq(Kinds)
    BY <1>1 DEF Fields
  <2>2. "ABORT" \in Messages /\ Messages \cup {"STOP", "CONTROL_ABORT"} \subseteq Kinds
    BY DEF Messages, Kinds
  <2>3. \A m \in Kinds : Append(queue, m) \in Seq(Kinds) /\ <<m>> \o queue \in Seq(Kinds)
    BY <2>1, AppendProperties, RangePrepend
  <2> QED BY <2>2, <2>3
<1>a. CASE Put(t)
  <2>1. At(t, "put") /\ thrCount' = thrCount /\ app' = app
    BY <1>a DEF Put
  <2>2. Arg(t) # "EXPEDITED_ABORT" => Arg(t) \in Messages
    BY <1>2, <2>1
  <2>3. Kind(Arg(t)) \in Messages
    BY <1>5, <2>2 DEF Kind
  <2>4. CASE Inline
    <3>1. PICK p, q : /\ p = <<<<"handle", Kind(Arg(t))>>>>
                      /\ q = IF Stops(Kind(Arg(t))) THEN <<Step("error")>> ELSE <<>>
                      /\ Do(t, p \o q)
      BY <1>a, <2>4 DEF Put
    <3>2. p \in Seq(Working) /\ q \in Seq(Working)
      BY <1>3, <1>4, <2>3, <3>1
    <3>3. p \o q \in Seq(Working)
      BY <3>2, ConcatProperties
    <3>4. Works(t)
      BY <1>2, <2>1, <3>1, <3>3 DEF Works
    <3>5. Fields'
      BY <1>a, <1>1, <2>4 DEF Put, Fields
    <3> QED BY <1>1, <2>1, <3>4, <3>5, WorkDone DEF IInv
  <2>5. CASE ~Inline
    <3>1. Works(t)
      BY <1>a, <1>2, <1>4, <2>1, <2>5 DEF Put, Works
    <3>2. queue' \in Seq(Kinds)
      BY <1>a, <1>1, <1>5, <2>2, <2>5 DEF Put, Enqueue, EnqueueHead, Fields
    <3>3. Fields'
      BY <1>a, <1>1, <3>2 DEF Put, Fields
    <3> QED BY <1>1, <2>1, <3>1, <3>3, WorkDone DEF IInv
  <2> QED BY <2>4, <2>5
<1>b. CASE PutError(t)
  <2>1. Works(t)
    BY <1>b, <1>2, <1>3, <1>4 DEF PutError, Works
  <2>2. Fields' /\ thrCount' = thrCount /\ app' = app
    BY <1>b, <1>1 DEF PutError, Fields
  <2> QED BY <1>1, <2>1, <2>2, WorkDone DEF IInv
<1>c. CASE PutStop(t)
  <2>1. Works(t)
    BY <1>c, <1>2, <1>3, <1>4 DEF PutStop, Works
  <2>2. Fields' /\ thrCount' = thrCount /\ app' = app
    BY <1>c, <1>1, <1>5 DEF PutStop, Fields, Enqueue
  <2> QED BY <1>1, <2>1, <2>2, WorkDone DEF IInv
<1>d. CASE PutStopHead(t)
  <2>1. Works(t)
    BY <1>d, <1>2, <1>4 DEF PutStopHead, Works
  <2>2. Fields' /\ thrCount' = thrCount /\ app' = app
    BY <1>d, <1>1, <1>5 DEF PutStopHead, Fields, EnqueueHead
  <2> QED BY <1>1, <2>1, <2>2, WorkDone DEF IInv
<1>e. CASE ControlAbort(t)
  <2>1. Works(t)
    BY <1>e, <1>2, <1>3, <1>4 DEF ControlAbort, ControlAbortIf, Works
  <2>2. Fields' /\ thrCount' = thrCount /\ app' = app
    BY <1>e, <1>1, <1>5 DEF ControlAbort, ControlAbortIf, Fields, EnqueueHead
  <2> QED BY <1>1, <2>1, <2>2, WorkDone DEF IInv
<1>f. CASE AbortSent(t)
  <2>1. Works(t)
    BY <1>f, <1>2, <1>4 DEF AbortSent, Works
  <2>2. Fields' /\ thrCount' = thrCount /\ app' = app
    BY <1>f, <1>1 DEF AbortSent, Fields
  <2> QED BY <1>1, <2>1, <2>2, WorkDone DEF IInv
<1> QED BY <1>a, <1>b, <1>c, <1>d, <1>e, <1>f DEF PutMessage

LEMMA FinishedKeeps ==
  ASSUME IInv, NEW t \in Threads, Finished(t) \/ SendEnd(t) \/ Notify(t)
  PROVE  IInv'
<1>1. Stacks /\ OneWorker /\ Fields
  BY DEF IInv
<1>2. /\ \A l \in {"finished", "send_end", "notify", "notify_end", "notify_control"} :
           At(t, l) => stack[t] # <<>> /\ stack[t][1] \notin Serving
      /\ \A l \in {"notify", "notify_end", "notify_control"} :
           At(t, l) => Arg(t) \in {"ABORT", "EXPEDITED_ABORT"}
  BY <1>1, AtStep
<1>3. /\ Step("send_end") \in Working /\ Step("abort") \in Working
      /\ <<"put", "END">> \in Working
      /\ \A a \in {"ABORT", "EXPEDITED_ABORT"} :
           <<"put", a>> \in Working /\ <<"notify_end", a>> \in Working
           /\ <<"notify_control", a>> \in Working
  BY Work DEF Plain, Messages
<1>4. /\ <<>> \in Seq(Working)
      /\ \A e \in Working : <<e>> \in Seq(Working)
  OBVIOUS
<1>a. CASE Finished(t)
  <2>1. Works(t)
    BY <1>a, <1>2, <1>3, <1>4 DEF Finished, Works
  <2>2. Fields' /\ thrCount' = thrCount /\ app' = app
    BY <1>a, <1>1 DEF Finished, Fields
  <2> QED BY <1>1, <2>1, <2>2, WorkDone DEF IInv
<1>b. CASE SendEnd(t)
  <2>1. Works(t)
    BY <1>b, <1>2, <1>3, <1>4 DEF SendEnd, Works
  <2>2. Fields' /\ thrCount' = thrCount /\ app' = app
    BY <1>b, <1>1 DEF SendEnd, Fields
  <2> QED BY <1>1, <2>1, <2>2, WorkDone DEF IInv
<1>c. CASE NotifyAborted(t)
  <2>1. Works(t)
    BY <1>c, <1>2, <1>3, <1>4 DEF NotifyAborted, Works
  <2>2. Fields' /\ thrCount' = thrCount /\ app' = app
    BY <1>c, <1>1 DEF NotifyAborted, Fields
  <2> QED BY <1>1, <2>1, <2>2, WorkDone DEF IInv
<1>d. CASE NotifyEnd(t)
  <2>1. Works(t)
    BY <1>d, <1>2, <1>3, <1>4 DEF NotifyEnd, Works
  <2>2. Fields' /\ thrCount' = thrCount /\ app' = app
    BY <1>d, <1>1 DEF NotifyEnd, Fields
  <2> QED BY <1>1, <2>1, <2>2, WorkDone DEF IInv
<1>e. CASE NotifyControl(t)
  <2>1. PICK p, q : /\ p = IF abortSent THEN <<>> ELSE <<Step("abort")>>
                    /\ q = <<<<"put", Arg(t)>>>>
                    /\ Do(t, (p \o q) \o <<>>) /\ At(t, "notify_control")
    BY <1>e DEF NotifyControl, NotifyControlThen
  <2>2. p \in Seq(Working) /\ q \in Seq(Working)
    BY <1>2, <1>3, <1>4, <2>1
  <2>3. (p \o q) \o <<>> \in Seq(Working)
    BY <1>4, <2>2, ConcatProperties
  <2>4. Works(t)
    BY <1>2, <2>1, <2>3 DEF Works
  <2>5. Fields' /\ thrCount' = thrCount /\ app' = app
    BY <1>e, <1>1 DEF NotifyControl, NotifyControlThen, Fields
  <2> QED BY <1>1, <2>4, <2>5, WorkDone DEF IInv
<1> QED BY <1>a, <1>b, <1>c, <1>d, <1>e DEF Notify

LEMMA MessageKeeps ==
  ASSUME IInv, NEW t \in Threads, Message(t)
  PROVE  IInv'
<1>1. Stacks /\ OneWorker /\ Fields
  BY DEF IInv
<1>2. /\ \A l \in {"handle", "process_end", "deliver", "event", "session_end"} :
           At(t, l) => stack[t] # <<>> /\ stack[t][1] \notin Serving
      /\ At(t, "handle") => Arg(t) \in Messages \cup {"CONTROL_ABORT"}
      /\ At(t, "deliver") => Arg(t) \in Messages
      /\ At(t, "event") => Arg(t) \in {"BEGIN", "END", "ABORT"}
  BY <1>1, AtStep
<1>3. /\ \A m \in Messages : <<"deliver", m>> \in Working
      /\ \A e \in {"BEGIN", "END", "ABORT"} : <<"event", e>> \in Working
      /\ \A to \in {"SESSION_STOPPING", "RUNNING", "STOPPED"} : <<"change", to>> \in Working
      /\ \A a \in {"ABORT", "EXPEDITED_ABORT"} : <<"notify", a>> \in Working
      /\ Step("process_end") \in Working /\ Step("put_stop") \in Working
      /\ Step("error") \in Working /\ Step("stop_processing") \in Working
      /\ Step("session_end") \in Working
  BY Work DEF Plain, States
<1>4. /\ <<>> \in Seq(Working)
      /\ \A e \in Working : <<e>> \in Seq(Working)
      /\ \A e, f \in Working : <<e, f>> \in Seq(Working)
      /\ \A e, f, g \in Working : <<e, f, g>> \in Seq(Working)
  OBVIOUS
<1>5. "BEGIN" \in Messages /\ "END" \in Messages /\ "ABORT" \in Messages
      /\ \A m \in Messages : m # "DATA" => m \in {"BEGIN", "END", "ABORT"} /\ m \in Events
  BY DEF Messages, Events
<1>6. \A e \in Events : Count(e) => log' \in [Events -> 0..2]
  BY <1>1 DEF Fields, Count
<1>a. CASE Handle(t)
  <2>1. At(t, "handle") /\ thrCount' = thrCount /\ app' = app
    BY <1>a DEF Handle
  <2>2. Works(t)
    <3>1. CASE Arg(t) = "CONTROL_ABORT"
      BY <1>a, <1>2, <1>4, <2>1, <3>1 DEF Handle, Works
    <3>2. CASE Arg(t) = "ABORT"
      BY <1>a, <1>2, <1>3, <1>4, <1>5, <2>1, <3>2 DEF Handle, Works
    <3>3. CASE Arg(t) = "END"
      BY <1>a, <1>2, <1>3, <1>4, <1>5, <2>1, <3>3 DEF Handle, Works
    <3>4. CASE Arg(t) \in {"BEGIN", "DATA"}
      BY <1>a, <1>2, <1>3, <1>4, <1>5, <2>1, <3>4 DEF Handle, Works, Messages
    <3> QED BY <1>2, <2>1, <3>1, <3>2, <3>3, <3>4 DEF Messages
  <2>3. queue' \in Seq(Kinds)
    <3>1. queue \in Seq(Kinds)
      BY <1>1 DEF Fields
    <3>2. Without(queue, {"DATA"}) \in Seq(Kinds)
      BY <3>1, WithoutType
    <3> QED BY <1>a, <3>1, <3>2 DEF Handle, FlushData
  <2>4. isHighPriorityStop' \in BOOLEAN
    BY <1>a, <1>1 DEF Handle, Fields
  <2>5. Fields'
    BY <1>a, <1>1, <2>3, <2>4 DEF Handle, Fields
  <2> QED BY <1>1, <2>1, <2>2, <2>5, WorkDone DEF IInv
<1>b. CASE ProcessEnd(t)
  <2>1. Works(t)
    BY <1>b, <1>2, <1>3, <1>4 DEF ProcessEnd, Works
  <2>2. Fields' /\ thrCount' = thrCount /\ app' = app
    BY <1>b, <1>1 DEF ProcessEnd, Fields
  <2> QED BY <1>1, <2>1, <2>2, WorkDone DEF IInv
<1>c. CASE Deliver(t)
  <2>1. At(t, "deliver") /\ thrCount' = thrCount /\ app' = app
    BY <1>c DEF Deliver
  <2>0. PICK q : q = IF Arg(t) = "DATA" THEN <<>> ELSE <<<<"event", Arg(t)>>>>
    OBVIOUS
  <2>2. q \in Seq(Working)
    BY <1>2, <1>3, <1>4, <1>5, <2>0, <2>1
  <2>3. \A a \in {"ABORT", "EXPEDITED_ABORT"} : <<<<"notify", a>>>> \o q \in Seq(Working)
    <3> TAKE a \in {"ABORT", "EXPEDITED_ABORT"}
    <3>1. <<<<"notify", a>>>> \in Seq(Working)
      BY <1>3, <1>4
    <3> QED BY <2>2, <3>1, ConcatProperties
  <2>4. <<Step(IF Inline THEN "error" ELSE "stop_processing")>> \in Seq(Working)
    BY <1>3, <1>4
  <2>5. Works(t)
    BY <1>c, <1>2, <2>0, <2>1, <2>2, <2>3, <2>4 DEF Deliver, Works
  <2>6. log' \in [Events -> 0..2]
    BY <1>c, <1>1, <1>2, <1>5, <1>6, <2>1 DEF Deliver, Fields
  <2>7. Fields'
    BY <1>c, <1>1, <2>6 DEF Deliver, Fields
  <2> QED BY <1>1, <2>1, <2>5, <2>7, WorkDone DEF IInv
<1>d. CASE OnEvent(t)
  <2>1. At(t, "event") /\ thrCount' = thrCount /\ app' = app
    BY <1>d DEF OnEvent
  <2> DEFINE over == Rank[state] > Rank["SESSION_STOPPING"]
             stopping == Rank[state] >= Rank["SESSION_STOPPING"]
             early == state = "SESSION_STARTING" /\ ~aborted
  <2>2. Works(t)
    <3>1. CASE Arg(t) = "BEGIN"
      <4>1. Do(t, <<<<"change", "RUNNING">>>>)
        BY <1>d, <3>1 DEF OnEvent
      <4> QED BY <1>2, <1>3, <1>4, <2>1, <4>1 DEF Works
    <3>2. CASE Arg(t) = "ABORT" /\ early
      <4>1. Do(t, <<<<"notify", "ABORT">>>>)
        BY <1>d, <3>2 DEF OnEvent
      <4> QED BY <1>2, <1>3, <1>4, <2>1, <4>1 DEF Works
    <3>3. CASE Arg(t) = "ABORT" /\ ~early
      <4>1. PICK p, q : /\ p = IF stopping THEN <<>> ELSE <<<<"change", "SESSION_STOPPING">>>>
                        /\ q = <<<<"event", "END">>>> /\ Do(t, p \o q)
        BY <1>d, <3>3 DEF OnEvent
      <4>2. p \in Seq(Working) /\ q \in Seq(Working)
        BY <1>3, <1>4, <4>1
      <4>3. p \o q \in Seq(Working)
        BY <4>2, ConcatProperties
      <4> QED BY <1>2, <2>1, <4>1, <4>3 DEF Works
    <3>4. CASE Arg(t) = "END" /\ over
      <4>1. Do(t, <<>>)
        BY <1>d, <3>4 DEF OnEvent
      <4> QED BY <1>2, <1>4, <2>1, <4>1 DEF Works
    <3>5. CASE Arg(t) = "END" /\ ~over
      <4>1. Do(t, <<<<"change", IF state = "RUNNING" THEN "SESSION_STOPPING" ELSE "STOPPED">>,
                      Step("session_end")>>)
        BY <1>d, <3>5 DEF OnEvent
      <4>2. <<"change", IF state = "RUNNING" THEN "SESSION_STOPPING" ELSE "STOPPED">> \in Working
        BY <1>3
      <4> QED BY <1>2, <1>3, <1>4, <2>1, <4>1, <4>2 DEF Works
    <3> QED BY <1>2, <2>1, <3>1, <3>2, <3>3, <3>4, <3>5
  <2>3. Fields'
    BY <1>d, <1>1 DEF OnEvent, Fields
  <2> QED BY <1>1, <2>1, <2>2, <2>3, WorkDone DEF IInv
<1>e. CASE SessionEnd(t)
  <2>1. Works(t)
    BY <1>e, <1>2, <1>4 DEF SessionEnd, Works
  <2>2. log' \in [Events -> 0..2] /\ thrCount' = thrCount /\ app' = app
    BY <1>e, <1>6 DEF SessionEnd, Events
  <2>3. Fields'
    BY <1>e, <1>1, <2>2 DEF SessionEnd, Fields
  <2> QED BY <1>1, <2>1, <2>2, <2>3, WorkDone DEF IInv
<1> QED BY <1>a, <1>b, <1>c, <1>d, <1>e DEF Message

\* One that serves the queue goes on with work, and then serves it again.
Resumes(p) ==
  /\ p \in Seq(Working \cup Serving)
  /\ LastOf(p) \in Serving
  /\ \A i \in 1..Len(p) : p[i] \in Serving => i = Len(p)

LEMMA ResumeForms ==
  /\ \A e \in Serving : Resumes(<<e>>)
  /\ \A a \in Working, e \in Serving : Resumes(<<a, e>>)
  /\ \A a, b \in Working, e \in Serving : Resumes(<<a, b, e>>)
  /\ \A q \in Seq(Working), e \in Serving : Resumes(q \o <<e>>)
<1>0. Working \cap Serving = {}
  BY Apart
<1>1. ASSUME NEW e \in Serving PROVE Resumes(<<e>>)
  <2>1. <<e>> \in Seq(Working \cup Serving) /\ Len(<<e>>) = 1 /\ <<e>>[1] = e
    OBVIOUS
  <2>2. \A i \in 1..1 : i = 1
    OBVIOUS
  <2> QED BY <2>1, <2>2 DEF Resumes, LastOf
<1>2. ASSUME NEW a \in Working, NEW e \in Serving PROVE Resumes(<<a, e>>)
  <2>1. /\ <<a, e>> \in Seq(Working \cup Serving) /\ Len(<<a, e>>) = 2
        /\ <<a, e>>[1] = a /\ <<a, e>>[2] = e
    OBVIOUS
  <2>2. \A i \in 1..2 : i = 1 \/ i = 2
    OBVIOUS
  <2> QED BY <1>0, <2>1, <2>2 DEF Resumes, LastOf
<1>3. ASSUME NEW a \in Working, NEW b \in Working, NEW e \in Serving PROVE Resumes(<<a, b, e>>)
  <2>1. /\ <<a, b, e>> \in Seq(Working \cup Serving) /\ Len(<<a, b, e>>) = 3
        /\ <<a, b, e>>[1] = a /\ <<a, b, e>>[2] = b /\ <<a, b, e>>[3] = e
    OBVIOUS
  <2>2. \A i \in 1..3 : i = 1 \/ i = 2 \/ i = 3
    OBVIOUS
  <2> QED BY <1>0, <2>1, <2>2 DEF Resumes, LastOf
<1>4. ASSUME NEW q \in Seq(Working), NEW e \in Serving PROVE Resumes(q \o <<e>>)
  <2>1. PICK p, r : r = <<e>> /\ p = q \o r
    OBVIOUS
  <2>2. r \in Seq(Serving) /\ Len(r) = 1 /\ r[1] = e /\ Len(q) \in Nat
    BY <2>1, LenProperties
  <2>3. r \in Seq(Working \cup Serving) /\ q \in Seq(Working \cup Serving)
    BY <2>2, SeqMonotonic
  <2>4. /\ p \in Seq(Working \cup Serving) /\ Len(p) = Len(q) + 1
        /\ \A i \in 1..Len(q) : p[i] = q[i]
        /\ p[Len(q) + 1] = e
    <3>1. /\ p \in Seq(Working \cup Serving) /\ Len(p) = Len(q) + 1
          /\ \A i \in 1..Len(p) : p[i] = IF i <= Len(q) THEN q[i] ELSE r[i - Len(q)]
      BY <2>1, <2>2, <2>3, ConcatProperties
    <3>2. /\ Len(q) + 1 \in 1..Len(p) /\ ~(Len(q) + 1 <= Len(q)) /\ Len(q) + 1 - Len(q) = 1
          /\ \A i \in 1..Len(q) : i \in 1..Len(p) /\ i <= Len(q)
      BY <2>2, <3>1
    <3> QED BY <2>2, <3>1, <3>2
  <2>5. \A i \in 1..Len(p) : p[i] \in Serving => i = Len(p)
    <3> TAKE i \in 1..Len(p)
    <3> HAVE p[i] \in Serving
    <3>1. ~(i \in 1..Len(q))
      BY <1>0, <2>4, ElementOfSeq
    <3> QED BY <2>2, <2>4, <3>1
  <2>6. Resumes(p)
    BY <2>4, <2>5 DEF Resumes, LastOf
  <2> QED BY <2>1, <2>6
<1> QED BY <1>1, <1>2, <1>3, <1>4

LEMMA ServiceDone ==
  ASSUME Stacks, OneWorker, NEW t \in Threads, stack[t] # <<>>, stack[t][1] \in Serving,
         NEW p, Resumes(p), Do(t, p), thrCount' = thrCount, app' = app
  PROVE  Stacks' /\ OneWorker'
<1>1. Halting \cap Serving = {}
  BY Apart
<1> QED BY <1>1, ServingStep DEF Resumes

LEMMA ServingKeeps ==
  ASSUME IInv, NEW t \in Threads, Svc(t) \/ GetQ(t) \/ GetQShutdown(t) \/ Leave(t) \/ Exit(t)
  PROVE  IInv'
<1>1. Stacks /\ OneWorker /\ Fields
  BY DEF IInv
<1>2. \A l \in {"svc", "get", "leave", "exit"} : At(t, l) =>
        stack[t] # <<>> /\ stack[t][1] \in Serving
  BY <1>1, AtStep
<1>3. /\ Step("abort") \in Working /\ Step("finished") \in Working
      /\ Step("unlock") \in Working /\ Step("stop_processing") \in Working
      /\ Step("clear_ids") \in Working /\ Step("deactivate") \in Working
      /\ Step("flush") \in Working /\ Step("release") \in Working
      /\ \A m \in Messages \cup {"CONTROL_ABORT"} : <<"handle", m>> \in Working
  BY Work DEF Plain
<1>4. Step("get") \in Serving /\ Step("leave") \in Serving /\ Step("exit") \in Serving
  BY DEF Serving, Step
<1>5. /\ <<>> \in Seq(Working)
      /\ \A e \in Working : <<e>> \in Seq(Working)
      /\ \A e, f, g, h \in Working : <<e, f, g, h>> \in Seq(Working)
  OBVIOUS
<1>a. CASE Svc(t)
  <2>1. Do(t, <<Step("get")>>) /\ At(t, "svc") /\ thrCount' = thrCount /\ app' = app
    BY <1>a DEF Svc
  <2>2. Resumes(<<Step("get")>>)
    BY <1>4, ResumeForms
  <2>3. Fields'
    BY <1>a, <1>1 DEF Svc, Fields
  <2> QED BY <1>1, <1>2, <2>1, <2>2, <2>3, ServiceDone DEF IInv
<1>b. CASE GetQ(t)
  <2>1. At(t, "get") /\ thrCount' = thrCount /\ app' = app /\ queue # <<>> /\ queue' = Tail(queue)
    BY <1>b DEF GetQ
  <2>2. Head(queue) \in Kinds /\ Tail(queue) \in Seq(Kinds)
    <3>1. queue \in Seq(Kinds)
      BY <1>1 DEF Fields
    <3> QED BY <2>1, <3>1, HeadTailProperties
  <2>3. Fields'
    BY <1>b, <1>1, <2>1, <2>2 DEF GetQ, Fields
  <2>4. CASE Head(queue) = "STOP"
    <3>1. PICK q : /\ q = IF isHighPriorityStop /\ ~abortSent THEN <<Step("abort")>> ELSE <<>>
                   /\ Do(t, q \o <<Step("leave")>>)
      BY <1>b, <2>4 DEF GetQ
    <3>2. q \in Seq(Working)
      BY <1>3, <1>5, <3>1
    <3>3. Resumes(q \o <<Step("leave")>>)
      BY <1>4, <3>2, ResumeForms
    <3> QED BY <1>1, <1>2, <2>1, <2>3, <3>1, <3>3, ServiceDone DEF IInv
  <2>5. CASE Head(queue) # "STOP"
    <3>1. PICK p, q : /\ p = <<<<"handle", Head(queue)>>>>
                      /\ q = IF Stops(Head(queue)) THEN <<Step("stop_processing")>> ELSE <<>>
                      /\ Do(t, (p \o q) \o <<Step("get")>>)
      BY <1>b, <2>5 DEF GetQ
    <3>2. p \in Seq(Working) /\ q \in Seq(Working)
      BY <1>3, <1>5, <2>2, <2>5, <3>1 DEF Kinds, Messages
    <3>3. p \o q \in Seq(Working)
      BY <3>2, ConcatProperties
    <3>4. Resumes((p \o q) \o <<Step("get")>>)
      BY <1>4, <3>3, ResumeForms
    <3> QED BY <1>1, <1>2, <2>1, <2>3, <3>1, <3>4, ServiceDone DEF IInv
  <2> QED BY <2>4, <2>5
<1>c. CASE GetQShutdown(t)
  <2>1. At(t, "get") /\ thrCount' = thrCount /\ app' = app
    BY <1>c DEF GetQShutdown
  <2>2. Resumes(<<Step("exit")>>) /\ Resumes(<<Step("finished"), Step("unlock"), Step("get")>>)
    BY <1>3, <1>4, ResumeForms
  <2>3. \E p : Resumes(p) /\ Do(t, p)
    BY <1>c, <2>2 DEF GetQShutdown
  <2>4. Fields'
    BY <1>c, <1>1 DEF GetQShutdown, Fields
  <2> QED BY <1>1, <1>2, <2>1, <2>3, <2>4, ServiceDone DEF IInv
<1>d. CASE Leave(t)
  <2>1. At(t, "leave") /\ thrCount' = thrCount /\ app' = app
    BY <1>d DEF Leave, LeaveIf
  <2>2. Resumes(<<Step("exit")>>) /\ Resumes(<<Step("finished"), Step("get")>>)
    BY <1>3, <1>4, ResumeForms
  <2>3. \E p : Resumes(p) /\ Do(t, p)
    BY <1>d, <2>2 DEF Leave, LeaveIf
  <2>4. Fields'
    BY <1>d, <1>1 DEF Leave, LeaveIf, Fields
  <2> QED BY <1>1, <1>2, <2>1, <2>3, <2>4, ServiceDone DEF IInv
<1>e. CASE Exit(t)
  <2>1. PICK p : /\ p = <<Step("clear_ids"), Step("deactivate"), Step("flush"), Step("release")>>
                 /\ Do(t, p) /\ At(t, "exit") /\ app' = app
                 /\ thrCount' = IF Mode = "ACTIVE" THEN thrCount - 1 ELSE thrCount
    BY <1>e DEF Exit, ExitBy
  <2>2. p \in Seq(Working) /\ Len(p) = 4
    BY <1>3, <1>5, <2>1
  <2>3. LastOf(p) \in Working /\ \A i \in 1..Len(p) : p[i] \in Working
    <3>1. 4 \in 1..Len(p)
      BY <2>2
    <3> QED BY <2>2, <3>1, ElementOfSeq DEF LastOf
  <2>4. p \in Seq(Working \cup Serving)
    BY <2>2, SeqMonotonic
  <2>5. Fields'
    BY <1>e, <1>1 DEF Exit, ExitBy, Fields
  <2> QED BY <1>1, <1>2, <2>1, <2>2, <2>3, <2>4, <2>5, Apart, ServingStep DEF IInv
<1> QED BY <1>a, <1>b, <1>c, <1>d, <1>e

LEMMA ClosingKeeps ==
  ASSUME IInv, NEW t \in Threads,
         \/ Unlock(t) \/ StopProcessing(t) \/ ClearThreadIds(t) \/ Deactivate(t)
         \/ Flush(t) \/ Release(t)
  PROVE  IInv'
<1>1. Stacks /\ OneWorker /\ Fields
  BY DEF IInv
<1>2. \A l \in {"unlock", "stop_processing", "clear_ids", "deactivate", "flush", "release"} :
        At(t, l) => stack[t] # <<>> /\ stack[t][1] \notin Serving
  BY <1>1, AtStep
<1>3. <<>> \in Seq(Working) /\ <<Step("finished")>> \in Seq(Working) /\ <<>> \in Seq(Kinds)
  <2>1. Step("finished") \in Working
    BY Work DEF Plain
  <2> QED BY <2>1
<1>a. CASE Unlock(t)
  <2>1. Works(t)
    BY <1>a, <1>2, <1>3 DEF Unlock, Works
  <2>2. Fields' /\ thrCount' = thrCount /\ app' = app
    BY <1>a, <1>1 DEF Unlock, Fields
  <2> QED BY <1>1, <2>1, <2>2, WorkDone DEF IInv
<1>b. CASE StopProcessing(t)
  <2>1. Works(t)
    BY <1>b, <1>2, <1>3 DEF StopProcessing, Works
  <2>2. Fields' /\ thrCount' = thrCount /\ app' = app
    BY <1>b, <1>1 DEF StopProcessing, Fields
  <2> QED BY <1>1, <2>1, <2>2, WorkDone DEF IInv
<1>c. CASE ClearThreadIds(t)
  <2>1. Works(t)
    BY <1>c, <1>2, <1>3 DEF ClearThreadIds, Works
  <2>2. Fields' /\ thrCount' = thrCount /\ app' = app
    BY <1>c, <1>1 DEF ClearThreadIds, Fields
  <2> QED BY <1>1, <2>1, <2>2, WorkDone DEF IInv
<1>d. CASE Deactivate(t)
  <2>1. Works(t)
    BY <1>d, <1>2, <1>3 DEF Deactivate, Works
  <2>2. Fields' /\ thrCount' = thrCount /\ app' = app
    BY <1>d, <1>1 DEF Deactivate, Fields
  <2> QED BY <1>1, <2>1, <2>2, WorkDone DEF IInv
<1>e. CASE Flush(t)
  <2>1. Works(t)
    BY <1>e, <1>2, <1>3 DEF Flush, FlushTo, Works
  <2>2. Fields' /\ thrCount' = thrCount /\ app' = app
    BY <1>e, <1>1, <1>3 DEF Flush, FlushTo, Fields
  <2> QED BY <1>1, <2>1, <2>2, WorkDone DEF IInv
<1>f. CASE Release(t)
  <2>1. Works(t)
    BY <1>f, <1>2, <1>3 DEF Release, Works
  <2>2. Fields' /\ thrCount' = thrCount /\ app' = app
    BY <1>f, <1>1 DEF Release, Fields
  <2> QED BY <1>1, <2>1, <2>2, WorkDone DEF IInv
<1> QED BY <1>a, <1>b, <1>c, <1>d, <1>e, <1>f

\* The steps that call others of the interface are those of the application.
LEMMA CallersAreUsers ==
  ASSUME Stacks, NEW t \in Threads, stack[t] # <<>>, stack[t][1] \in Calling
  PROVE  t \notin Workers
<1> SUFFICES ASSUME t \in Workers PROVE FALSE
  OBVIOUS
<1>1. stack[t] \in Seq(Working \cup Serving) /\ 1 \in 1..Len(stack[t])
  BY EmptySeq, LenProperties DEF Stacks
<1>2. stack[t][1] \in Working \cup Serving
  BY <1>1, ElementOfSeq
<1> QED BY <1>2, Apart

LEMMA InterfaceKeeps ==
  ASSUME IInv, NEW t \in Threads, Interface(t)
  PROVE  IInv'
<1>1. Stacks /\ OneWorker /\ Fields
  BY DEF IInv
<1>2. /\ \A l \in {"start", "stop", "stop_state", "wait", "join", "join_lent", "module_closed",
                   "close_queue", "wait_threads", "initialize"} :
           At(t, l) => stack[t] # <<>> /\ stack[t][1] \notin Serving
      /\ At(t, "stop") => Arg(t) \in BOOLEAN /\ stack[t][1] \in Halting
      /\ At(t, "stop_state") => stack[t][1] \in Halting
      /\ At(t, "module_closed") => stack[t][1] \in Calling
  BY <1>1, AtStep
<1>3. /\ <<"change", "SESSION_STARTING">> \in Working
      /\ <<"change", "SESSION_STOPPING">> \in Working
      /\ <<"change", "INITIALIZED">> \in Working
      /\ Step("abort") \in Working /\ Step("unlock") \in Working
      /\ Step("join") \in Working /\ <<"wait", TRUE>> \in Working
      /\ Step("close_queue") \in Working /\ Step("wait_threads") \in Working
  BY Work DEF Plain, States
<1>4. /\ <<>> \in Seq(Working)
      /\ \A e \in Working : <<e>> \in Seq(Working)
      /\ \A e, f \in Working : <<e, f>> \in Seq(Working)
      /\ <<>> \in Seq(Kinds)
  OBVIOUS
<1>5. {"SESSION_STARTING", "RUNNING", "PAUSED", "SESSION_STOPPING", "STOPPED", "FINISHED",
       "INVALID", "INITIALIZED"} = States
  BY DEF States
<1>a. CASE Start(t)
  <2>1. Works(t)
    BY <1>a, <1>2, <1>3, <1>4 DEF Start, Works
  <2>2. Fields' /\ thrCount' = thrCount /\ app' = app
    BY <1>a, <1>1 DEF Start, Fields
  <2> QED BY <1>1, <2>1, <2>2, WorkDone DEF IInv
<1>b. CASE Stop(t)
  <2>1. PICK p : p = <<Step("stop_state")>> /\ Do(t, p) /\ At(t, "stop")
                 /\ thrCount' = thrCount /\ app' = app
    BY <1>b DEF Stop
  <2>2. p \in Seq(Working \cup Calling)
    <3>1. Step("stop_state") \in Calling
      BY DEF Step, Calling, Halting
    <3> QED BY <2>1, <3>1
  <2>3. t \notin Workers
    BY <1>1, <1>2, <2>1, Apart, CallersAreUsers
  <2>4. Len(stack[t]) # 1
    BY <1>1, <1>2, <2>1 DEF Stacks, LastOf
  <2>5. Fields'
    BY <1>b, <1>1, <1>2, <2>1 DEF Stop, Fields
  <2> QED BY <1>1, <1>2, <2>1, <2>2, <2>3, <2>4, <2>5, WorkingStep DEF IInv
<1>c. CASE StopState(t)
  <2>1. At(t, "stop_state") /\ thrCount' = thrCount /\ app' = app
    BY <1>c DEF StopState
  <2>2. CASE state \in {"INVALID", "INITIALIZED"}
    <3>1. stack' = [stack EXCEPT ![t] = Tail(Tail(@))] /\ stateLock' = stateLock
      BY <1>c, <2>2 DEF StopState
    <3>2. Fields'
      BY <1>c, <1>1, <3>1 DEF StopState, Fields
    <3> QED BY <1>1, <1>2, <2>1, <3>1, <3>2, Apart, DroppingStep DEF IInv
  <2>3. CASE state \in {"SESSION_STARTING", "RUNNING", "PAUSED"}
    <3>1. Do(t, <<<<"change", "SESSION_STOPPING">>>>) /\ stateLock' = stateLock
      BY <1>c, <2>3 DEF StopState
    <3>2. Works(t)
      BY <1>2, <1>3, <1>4, <2>1, <3>1 DEF Works
    <3>3. Fields'
      BY <1>c, <1>1, <3>1 DEF StopState, Fields
    <3> QED BY <1>1, <2>1, <3>2, <3>3, WorkDone DEF IInv
  <2>4. CASE state \in {"SESSION_STOPPING", "STOPPED", "FINISHED"}
    <3>1. IF isHighPriorityStop /\ ~abortSent
          THEN stateLock' = t /\ Do(t, <<Step("abort"), Step("unlock")>>)
          ELSE Do(t, <<>>) /\ UNCHANGED stateLock
      BY <1>c, <2>4 DEF StopState
    <3>2. Works(t)
      BY <1>2, <1>3, <1>4, <2>1, <3>1 DEF Works
    <3>3. Fields'
      BY <1>c, <1>1, <3>1 DEF StopState, Fields
    <3> QED BY <1>1, <2>1, <3>2, <3>3, WorkDone DEF IInv
  <2>5. state \in States
    BY <1>1 DEF Fields
  <2> QED BY <1>5, <2>2, <2>3, <2>4, <2>5
<1>d. CASE WaitState(t)
  <2>1. Works(t)
    BY <1>d, <1>2, <1>3, <1>4 DEF WaitState, Works
  <2>2. Fields' /\ thrCount' = thrCount /\ app' = app
    BY <1>d, <1>1 DEF WaitState, Fields
  <2> QED BY <1>1, <2>1, <2>2, WorkDone DEF IInv
<1>e. CASE Join(t)
  <2>1. Works(t)
    <3>1. \/ Do(t, <<>>)
          \/ \E u \in threadIds : Do(t, <<<<"join_lent", u>>>>)
      BY <1>e DEF Join
    <3>2. \A u \in threadIds : <<<<"join_lent", u>>>> \in Seq(Working)
      <4>1. \A u \in threadIds : <<"join_lent", u>> \in Working
        BY <1>1, Work DEF Fields
      <4> QED BY <1>4, <4>1
    <3> QED BY <1>e, <1>2, <1>4, <3>1, <3>2 DEF Join, Works
  <2>2. Fields' /\ thrCount' = thrCount /\ app' = app
    BY <1>e, <1>1 DEF Join, Fields
  <2> QED BY <1>1, <2>1, <2>2, WorkDone DEF IInv
<1>j. CASE LentJoined(t)
  <2>1. Works(t)
    BY <1>j, <1>2, <1>4 DEF LentJoined, Works
  <2>2. Fields' /\ thrCount' = thrCount /\ app' = app
    BY <1>j, <1>1 DEF LentJoined, Fields
  <2> QED BY <1>1, <2>1, <2>2, WorkDone DEF IInv
<1>f. CASE ModuleClosed(t)
  <2>1. PICK q, r, p : /\ q = IF IsRunning THEN <<<<"stop", TRUE>>, <<"wait", TRUE>>>> ELSE <<>>
                       /\ r = <<Step("close_queue"), Step("wait_threads")>>
                       /\ p = q \o r
                       /\ Do(t, p) /\ At(t, "module_closed")
                       /\ thrCount' = thrCount /\ app' = app
    BY <1>f DEF ModuleClosed
  <2>2. q \in Seq(Working \cup Calling)
    <3>1. <<"stop", TRUE>> \in Calling
      BY DEF Calling, Halting
    <3>2. <<>> \in Seq(Working \cup Calling)
          /\ <<<<"stop", TRUE>>, <<"wait", TRUE>>>> \in Seq(Working \cup Calling)
      BY <1>3, <3>1
    <3> QED BY <2>1, <3>2
  <2>3. /\ r \in Seq(Working \cup Calling) /\ Len(r) = 2
        /\ r[2] = Step("wait_threads")
    BY <1>3, <2>1
  <2>4. p \in Seq(Working \cup Calling) /\ LastOf(p) \in Working
    <3>1. /\ p \in Seq(Working \cup Calling) /\ Len(p) = Len(q) + 2 /\ Len(q) \in Nat
          /\ \A i \in 1..Len(p) : p[i] = IF i <= Len(q) THEN q[i] ELSE r[i - Len(q)]
      BY <2>1, <2>2, <2>3, ConcatProperties, LenProperties
    <3>2. Len(q) + 2 \in 1..Len(p) /\ ~(Len(q) + 2 <= Len(q)) /\ Len(q) + 2 - Len(q) = 2
      BY <3>1
    <3> QED BY <1>3, <2>3, <3>1, <3>2 DEF LastOf
  <2>5. t \notin Workers
    BY <1>1, <1>2, <2>1, CallersAreUsers
  <2>6. Fields'
    BY <1>f, <1>1 DEF ModuleClosed, Fields
  <2> QED BY <1>1, <1>2, <2>1, <2>4, <2>5, <2>6, WorkingStep DEF IInv
<1>g. CASE CloseQueue(t)
  <2>1. Works(t)
    BY <1>g, <1>2, <1>4 DEF CloseQueue, Works
  <2>2. Fields' /\ thrCount' = thrCount /\ app' = app
    BY <1>g, <1>1, <1>4 DEF CloseQueue, Fields
  <2> QED BY <1>1, <2>1, <2>2, WorkDone DEF IInv
<1>h. CASE WaitThreads(t)
  <2>1. Works(t)
    BY <1>h, <1>2, <1>4 DEF WaitThreads, Works
  <2>2. Fields' /\ thrCount' = thrCount /\ app' = app
    BY <1>h, <1>1 DEF WaitThreads, Fields
  <2> QED BY <1>1, <2>1, <2>2, WorkDone DEF IInv
<1>i. CASE Initialize(t)
  <2>1. Works(t)
    BY <1>i, <1>2, <1>3, <1>4 DEF Initialize, Works
  <2>2. Fields' /\ thrCount' = thrCount /\ app' = app
    BY <1>i, <1>1 DEF Initialize, Fields
  <2> QED BY <1>1, <2>1, <2>2, WorkDone DEF IInv
<1> QED BY <1>a, <1>b, <1>c, <1>d, <1>e, <1>j, <1>f, <1>g, <1>h, <1>i DEF Interface

LEMMA CallKeeps ==
  ASSUME IInv, NEW u \in Users, Call(u)
  PROVE  IInv'
<1>1. Stacks /\ OneWorker /\ Fields
  BY DEF IInv
<1>2. app.calls \in Nat /\ app.api \in [Users -> SUBSET Calls]
  BY <1>1, ApplicationsAssumption DEF Fields
<1>3. PICK call \in app.api[u], wait \in BOOLEAN : stack' = [stack EXCEPT ![u] = Body(call, wait)]
  BY DEF Call
<1>4. call \in Calls /\ u \in Threads /\ u \notin Workers
  BY <1>2, ThreadsAssumption DEF Threads
<1>5. PICK n : n = Body(call, wait)
  OBVIOUS
<1>6. /\ Step("initialize") \in Working /\ Step("start") \in Working
      /\ <<"change", "PAUSED">> \in Working /\ <<"put", "DATA">> \in Working
      /\ <<"notify", "ABORT">> \in Working /\ <<"notify", "EXPEDITED_ABORT">> \in Working
      /\ \A b \in BOOLEAN : <<"wait", b>> \in Working
  BY Work DEF Plain, States, Messages
<1>7. /\ Step("module_closed") \in Calling /\ Step("module_closed") \notin Halting
      /\ <<"stop", TRUE>> \in Calling /\ <<"stop", FALSE>> \in Calling
  BY DEF Calling, Halting, Step
<1>8. \E e, f \in Working \cup Calling :
        \/ n = <<e>> /\ e \notin Halting
        \/ n = <<e, f>> /\ f \notin Halting
  <2>1. \A e \in Working : e \notin Halting
    BY Apart
  <2> DEFINE O == Working \cup Calling
  <2>2. CASE call = "initialize"
    <3>1. n = <<Step("module_closed"), Step("initialize")>>
      BY <1>5, <2>2 DEF Body
    <3> QED BY <1>6, <1>7, <2>1, <3>1
  <2>3. CASE call = "close"
    <3>1. n = <<Step("module_closed")>>
      BY <1>5, <2>3 DEF Body
    <3> QED BY <1>6, <1>7, <2>1, <3>1
  <2>4. CASE call = "start"
    <3>1. n = <<Step("start")>>
      BY <1>5, <2>4 DEF Body
    <3> QED BY <1>6, <2>1, <3>1
  <2>5. CASE call = "stop"
    <3>1. n = <<<<"stop", FALSE>>, <<"wait", wait>>>>
      BY <1>5, <2>5 DEF Body
    <3> QED BY <1>3, <1>6, <1>7, <2>1, <3>1
  <2>6. CASE call = "abort_stop"
    <3>1. n = <<<<"stop", TRUE>>, <<"wait", wait>>>>
      BY <1>5, <2>6 DEF Body
    <3> QED BY <1>3, <1>6, <1>7, <2>1, <3>1
  <2>7. CASE call = "pause"
    <3>1. n = <<<<"change", "PAUSED">>>>
      BY <1>5, <2>7 DEF Body
    <3> QED BY <1>6, <2>1, <3>1
  <2>8. CASE call = "data"
    <3>1. n = <<<<"put", "DATA">>>>
      BY <1>5, <2>8 DEF Body
    <3> QED BY <1>6, <2>1, <3>1
  <2>9. CASE call = "notify"
    <3>1. n = <<<<"notify", "ABORT">>>>
      BY <1>5, <2>9 DEF Body
    <3> QED BY <1>6, <2>1, <3>1
  <2>10. CASE call = "notify_expedited"
    <3>1. n = <<<<"notify", "EXPEDITED_ABORT">>>>
      BY <1>5, <2>10 DEF Body
    <3> QED BY <1>6, <2>1, <3>1
  <2> QED BY <1>4, <2>2, <2>3, <2>4, <2>5, <2>6, <2>7, <2>8, <2>9, <2>10 DEF Calls
<1>9. /\ n \in Seq(Working \cup Calling)
      /\ LastOf(n) \in Working \cup Calling /\ LastOf(n) \notin Halting
  <2>1. PICK e, f \in Working \cup Calling : \/ n = <<e>> /\ e \notin Halting
                                             \/ n = <<e, f>> /\ f \notin Halting
    BY <1>8
  <2>2. /\ <<e>> \in Seq(Working \cup Calling) /\ Len(<<e>>) = 1 /\ <<e>>[1] = e
        /\ <<e, f>> \in Seq(Working \cup Calling) /\ Len(<<e, f>>) = 2 /\ <<e, f>>[2] = f
    OBVIOUS
  <2>3. LastOf(<<e>>) = e /\ LastOf(<<e, f>>) = f
    BY <2>2 DEF LastOf
  <2> QED BY <2>1, <2>2, <2>3
<1>10. n \in Seq(Entries)
  BY <1>9, SeqMonotonic DEF Entries
<1>11. LastOf(n) \notin Serving
  <2>1. \A e \in Working \cup Calling : e \notin Serving
    BY Apart
  <2> QED BY <1>9, <2>1
<1>12. thrCount' = thrCount /\ app' = app
  BY DEF Call
<1>13. Stacks' /\ OneWorker'
  BY <1>1, <1>3, <1>4, <1>5, <1>9, <1>10, <1>11, <1>12, Changed
<1>14. calls' \in 0..app.calls
  BY <1>1, <1>2 DEF Call, Fields
<1>15. Fields'
  BY <1>1, <1>14 DEF Call, Fields
<1> QED BY <1>13, <1>15 DEF IInv

-----------------------------------------------------------------------------
(* The theorems. *)

LEMMA InitHolds == Init => IInv
<1> SUFFICES ASSUME Init PROVE IInv
  OBVIOUS
<1>1. Stacks
  <2>1. <<>> \in Seq(Entries) /\ <<>> \in Seq(Working \cup Serving)
    OBVIOUS
  <2> QED BY <2>1 DEF Init, Stacks, Threads
<1>2. OneWorker
  <2>1. /\ <<>> \in Seq(Working \cup Calling) /\ Len(<<>>) = 0
    OBVIOUS
  <2>2. /\ \A u \in Threads : stack[u] = <<>> /\ ~Serves(u)
        /\ thrCount = 0
    BY DEF Init, Serves
  <2>3. \A i \in 1..0 : FALSE
    OBVIOUS
  <2>4. thrCount \in 0..1
    BY <2>2
  <2>5. \A u \in Users : stack[u] \in Seq(Working \cup Calling)
    BY <2>1, <2>2 DEF Threads
  <2>6. \A w \in Workers :
          \A i \in 1..Len(stack[w]) : stack[w][i] \in Serving => i = Len(stack[w])
    BY <2>1, <2>2, <2>3 DEF Threads
  <2>7. \A w \in Workers : ~Serves(w)
    BY <2>2 DEF Threads
  <2> QED BY <2>4, <2>5, <2>6, <2>7 DEF OneWorker
<1>3. Fields
  <2>1. NoLog \in [Events -> 0..2] /\ <<>> \in Seq(Kinds) /\ "INITIALIZED" \in States
    BY DEF NoLog, States
  <2>2. app \in Applications /\ app.calls \in Nat
    BY ApplicationsAssumption DEF Init
  <2>3. calls \in 0..app.calls
    BY <2>2 DEF Init
  <2> QED BY <2>1, <2>2, <2>3 DEF Init, Fields
<1> QED BY <1>1, <1>2, <1>3 DEF IInv

LEMMA StepHolds ==
  ASSUME IInv, [Next]_vars
  PROVE  IInv'
<1>1. ASSUME NEW u \in Users, Call(u) PROVE IInv'
  BY <1>1, CallKeeps
<1>2. ASSUME NEW t \in Threads, Run(t) PROVE IInv'
  <2>1. Change(t) => IInv'
    BY ChangeKeeps
  <2>2. SetState(t) \/ OnChange(t) => IInv'
    BY EnteringKeeps, OnChangeKeeps, SpawnKeeps DEF OnChange
  <2>3. PutMessage(t) => IInv'
    BY PutMessageKeeps
  <2>4. Finished(t) \/ SendEnd(t) \/ Notify(t) => IInv'
    BY FinishedKeeps
  <2>5. Message(t) => IInv'
    BY MessageKeeps
  <2>6. Serve(t) => IInv'
    BY ServingKeeps, ClosingKeeps DEF Serve
  <2>7. Interface(t) => IInv'
    BY InterfaceKeeps
  <2> QED BY <1>2, <2>1, <2>2, <2>3, <2>4, <2>5, <2>6, <2>7 DEF Run
<1>3. ASSUME UNCHANGED vars PROVE IInv'
  BY <1>3 DEF IInv, Stacks, OneWorker, Fields, Serves, Mode
<1> QED BY <1>1, <1>2, <1>3 DEF Next

\* What the invariant says of the types.
LEMMA Typed == IInv => TypeOK
<1> SUFFICES ASSUME IInv PROVE TypeOK
  OBVIOUS
<1>1. Stacks /\ OneWorker /\ Fields
  BY DEF IInv
<1>2. \A t \in Threads : \A i \in DOMAIN stack[t] : stack[t][i][1] \in Labels
  <2> TAKE t \in Threads
  <2> TAKE i \in DOMAIN stack[t]
  <2>1. stack[t] \in Seq(Entries) /\ i \in 1..Len(stack[t])
    BY <1>1, LenProperties DEF Stacks
  <2>2. stack[t][i] \in Entries
    BY <2>1, ElementOfSeq
  <2> QED BY <2>2, Labelled
<1>3. \A i \in DOMAIN queue : queue[i] \in Kinds
  <2> TAKE i \in DOMAIN queue
  <2>1. queue \in Seq(Kinds) /\ i \in 1..Len(queue)
    BY <1>1, LenProperties DEF Fields
  <2> QED BY <2>1, ElementOfSeq
<1>4. DOMAIN stack = Threads
  BY <1>1 DEF Stacks
<1> QED BY <1>1, <1>2, <1>3, <1>4 DEF TypeOK, Fields, OneWorker

\* Whatever the application does, and in every concurrency mode, the fields and the
\* stacks hold what they are meant to, and thr_count_ is 0 or 1: start() spawns no
\* second worker while one serves the queue, and a worker is counted out once.
THEOREM TypeCorrect == Spec => []TypeOK
<1>1. Init => IInv
  BY InitHolds
<1>2. IInv /\ [Next]_vars => IInv'
  BY StepHolds
<1>3. IInv => TypeOK
  BY Typed
<1> QED BY <1>1, <1>2, <1>3, PTL DEF Spec

\* An ACTIVE head module has one worker: at most one thread serves its queue, so that
\* an MB_STOP need not be passed on, and the messages of a session are processed in
\* turn.
THEOREM OneThreadServes ==
  Spec => [](Mode = "ACTIVE" =>
               \A t, v \in Threads : Serves(t) /\ Serves(v) => t = v)
<1> DEFINE One == Mode = "ACTIVE" => \A t, v \in Threads : Serves(t) /\ Serves(v) => t = v
<1>1. Init => IInv
  BY InitHolds
<1>2. IInv /\ [Next]_vars => IInv'
  BY StepHolds
<1>3. IInv => One
  <2> SUFFICES ASSUME IInv, Mode = "ACTIVE", NEW t \in Threads, Serves(t) PROVE t \in Workers
    BY DEF IInv, OneWorker
  <2> SUFFICES ASSUME t \in Users PROVE FALSE
    BY DEF Threads
  <2>1. stack[t] \in Seq(Working \cup Calling) /\ Len(stack[t]) \in 1..Len(stack[t])
    BY EmptySeq, LenProperties DEF IInv, OneWorker, Serves
  <2>2. LastOf(stack[t]) \in Working \cup Calling
    BY <2>1, ElementOfSeq DEF LastOf
  <2> QED BY <2>2, Apart DEF Serves
<1> HIDE DEF One
<1>4. Spec => []One
  BY <1>1, <1>2, <1>3, PTL DEF Spec
<1> QED BY <1>4 DEF One

-----------------------------------------------------------------------------
(* The steps of a thread, one after the other. *)

LEMMA PushHeads ==
  ASSUME NEW S, NEW q \in Seq(S), NEW e
  PROVE  Heads(Push(e, q), e, q) /\ \A T : e \in T /\ q \in Seq(T) => Push(e, q) \in Seq(T)
<1> DEFINE A == S \cup {e}
<1>1. q \in Seq(A) /\ <<e>> \in Seq(A) /\ Len(<<e>>) = 1 /\ <<e>>[1] = e
  <2>1. q \in Seq(A)
    BY SeqMonotonic
  <2> QED BY <2>1
<1>2. PICK s : s = <<e>> \o q
  OBVIOUS
<1>3. /\ s \in Seq(A) /\ Len(s) = 1 + Len(q) /\ Len(q) \in Nat
      /\ \A i \in 1..Len(s) : s[i] = IF i <= 1 THEN e ELSE q[i - 1]
  BY <1>1, <1>2, ConcatProperties, LenProperties
<1>4. s # <<>> /\ s[1] = e
  <2>1. 1 \in 1..Len(s)
    BY <1>3
  <2>2. s[1] = e
    BY <1>3, <2>1
  <2>3. Len(s) # 0
    BY <1>3
  <2> QED BY <1>3, <2>2, <2>3, EmptySeq
<1>5. Tail(s) \in Seq(A) /\ Len(Tail(s)) = Len(q) /\ \A i \in 1..Len(q) : Tail(s)[i] = s[i + 1]
  BY <1>3, <1>4, HeadTailProperties
<1>6. \A i \in 1..Len(q) : Tail(s)[i] = q[i]
  <2> TAKE i \in 1..Len(q)
  <2>1. i + 1 \in 1..Len(s) /\ ~(i + 1 <= 1) /\ i + 1 - 1 = i
    BY <1>3
  <2> QED BY <1>3, <1>5, <2>1
<1>7. Tail(s) = q
  BY <1>1, <1>5, <1>6, SeqEqual
<1>8. \A T : e \in T /\ q \in Seq(T) => s \in Seq(T)
  <2> TAKE T
  <2> HAVE e \in T /\ q \in Seq(T)
  <2>1. <<e>> \in Seq(T)
    OBVIOUS
  <2> QED BY <1>2, <2>1, ConcatProperties
<1> QED BY <1>2, <1>4, <1>7, <1>8 DEF Heads, Push

\* Literals, one element first.
LEMMA Literals ==
  /\ \A x, y : <<x>> \o <<y>> = <<x, y>>
  /\ \A x, y, z : <<x>> \o <<y, z>> = <<x, y, z>>
  /\ \A x, y, z, u : <<x>> \o <<y, z, u>> = <<x, y, z, u>>
<1>1. ASSUME NEW T, NEW x \in T, NEW r \in Seq(T), NEW s \in Seq(T), Len(s) = Len(r) + 1,
             s[1] = x, \A i \in 1..Len(r) : s[i + 1] = r[i]
      PROVE  <<x>> \o r = s
  <2>1. <<x>> \in Seq(T) /\ Len(<<x>>) = 1 /\ <<x>>[1] = x
    OBVIOUS
  <2>2. PICK n : n = <<x>> \o r
    OBVIOUS
  <2>3. /\ n \in Seq(T) /\ Len(n) = 1 + Len(r) /\ Len(r) \in Nat
        /\ \A i \in 1..Len(n) : n[i] = IF i <= 1 THEN x ELSE r[i - 1]
    BY <2>1, <2>2, ConcatProperties, LenProperties
  <2>4. \A i \in 1..Len(n) : n[i] = s[i]
    <3> TAKE i \in 1..Len(n)
    <3>1. CASE i = 1
      BY <1>1, <2>3, <3>1
    <3>2. CASE i # 1
      <4>1. i - 1 \in 1..Len(r) /\ i - 1 + 1 = i /\ ~(i <= 1)
        BY <2>3, <3>2
      <4>2. s[(i - 1) + 1] = r[i - 1]
        BY <1>1, <4>1
      <4> QED BY <2>3, <4>1, <4>2
    <3> QED BY <3>1, <3>2
  <2>5. Len(n) = Len(s)
    BY <1>1, <2>3
  <2>6. n = s
    BY <1>1, <2>3, <2>4, <2>5, SeqEqual
  <2> QED BY <2>2, <2>6
<1>2. ASSUME NEW x, NEW y PROVE <<x>> \o <<y>> = <<x, y>>
  <2> DEFINE T == {x, y}
  <2>1. /\ <<y>> \in Seq(T) /\ <<x, y>> \in Seq(T) /\ Len(<<y>>) = 1 /\ Len(<<x, y>>) = 2
        /\ <<y>>[1] = y /\ <<x, y>>[1] = x /\ <<x, y>>[2] = y
    OBVIOUS
  <2>2. \A i \in 1..1 : i = 1
    OBVIOUS
  <2>3. \A i \in 1..Len(<<y>>) : <<x, y>>[i + 1] = <<y>>[i]
    BY <2>1, <2>2
  <2>4. Len(<<x, y>>) = Len(<<y>>) + 1
    BY <2>1
  <2> QED BY <1>1, <2>1, <2>3, <2>4
<1>3. ASSUME NEW x, NEW y, NEW z PROVE <<x>> \o <<y, z>> = <<x, y, z>>
  <2> DEFINE T == {x, y, z}
  <2>1. /\ <<y, z>> \in Seq(T) /\ <<x, y, z>> \in Seq(T)
        /\ Len(<<y, z>>) = 2 /\ Len(<<x, y, z>>) = 3
        /\ <<y, z>>[1] = y /\ <<y, z>>[2] = z
        /\ <<x, y, z>>[1] = x /\ <<x, y, z>>[2] = y /\ <<x, y, z>>[3] = z
    OBVIOUS
  <2>2. \A i \in 1..2 : i = 1 \/ i = 2
    OBVIOUS
  <2>3. \A i \in 1..Len(<<y, z>>) : <<x, y, z>>[i + 1] = <<y, z>>[i]
    BY <2>1, <2>2
  <2>4. Len(<<x, y, z>>) = Len(<<y, z>>) + 1
    BY <2>1
  <2> QED BY <1>1, <2>1, <2>3, <2>4
<1>4. ASSUME NEW x, NEW y, NEW z, NEW u PROVE <<x>> \o <<y, z, u>> = <<x, y, z, u>>
  <2> DEFINE T == {x, y, z, u}
  <2>1. /\ <<y, z, u>> \in Seq(T) /\ <<x, y, z, u>> \in Seq(T)
        /\ Len(<<y, z, u>>) = 3 /\ Len(<<x, y, z, u>>) = 4
        /\ <<y, z, u>>[1] = y /\ <<y, z, u>>[2] = z /\ <<y, z, u>>[3] = u
        /\ <<x, y, z, u>>[1] = x /\ <<x, y, z, u>>[2] = y
        /\ <<x, y, z, u>>[3] = z /\ <<x, y, z, u>>[4] = u
    OBVIOUS
  <2>2. \A i \in 1..3 : i = 1 \/ i = 2 \/ i = 3
    OBVIOUS
  <2>3. \A i \in 1..Len(<<y, z, u>>) : <<x, y, z, u>>[i + 1] = <<y, z, u>>[i]
    BY <2>1, <2>2
  <2>4. Len(<<x, y, z, u>>) = Len(<<y, z, u>>) + 1
    BY <2>1
  <2> QED BY <1>1, <2>1, <2>3, <2>4
<1> QED BY <1>2, <1>3, <1>4

LEMMA Pushing ==
  ASSUME NEW S, NEW q \in Seq(S)
  PROVE  /\ <<>> \o q = q
         /\ \A x : <<x>> \o q = Push(x, q)
         /\ \A x, y : <<x, y>> \o q = Push(x, Push(y, q))
         /\ \A x, y, z : <<x, y, z>> \o q = Push(x, Push(y, Push(z, q)))
         /\ \A x, y, z, u : <<x, y, z, u>> \o q = Push(x, Push(y, Push(z, Push(u, q))))
<1>1. <<>> \o q = q
  BY ConcatEmptySeq
<1>2. \A x : <<x>> \o q = Push(x, q)
  BY DEF Push
<1>3. ASSUME NEW T, NEW r \in Seq(T), NEW x, NEW p \in Seq(T)
      PROVE  (<<x>> \o p) \o r = Push(x, p \o r)
  <2>1. p \in Seq(T \cup {x}) /\ r \in Seq(T \cup {x})
    BY SeqMonotonic
  <2>2. <<x>> \in Seq(T \cup {x})
    OBVIOUS
  <2> QED BY <2>1, <2>2, ConcatAssociative DEF Push
<1>4. ASSUME NEW x, NEW y PROVE <<x, y>> \o q = Push(x, Push(y, q))
  <2> DEFINE T == S \cup {x, y}
  <2>0. <<y>> \in Seq(T)
    OBVIOUS
  <2>1. <<y>> \in Seq(T) /\ <<x>> \o <<y>> = <<x, y>>
    BY <2>0, Literals
  <2>2. q \in Seq(T)
    BY SeqMonotonic
  <2>3. (<<x>> \o <<y>>) \o q = Push(x, <<y>> \o q)
    BY <1>3, <2>1, <2>2
  <2> QED BY <1>2, <2>1, <2>3
<1>5. ASSUME NEW x, NEW y, NEW z PROVE <<x, y, z>> \o q = Push(x, Push(y, Push(z, q)))
  <2> DEFINE T == S \cup {x, y, z}
  <2>0. <<y, z>> \in Seq(T)
    OBVIOUS
  <2>1. <<y, z>> \in Seq(T) /\ <<x>> \o <<y, z>> = <<x, y, z>>
    BY <2>0, Literals
  <2>2. q \in Seq(T)
    BY SeqMonotonic
  <2>3. (<<x>> \o <<y, z>>) \o q = Push(x, <<y, z>> \o q)
    BY <1>3, <2>1, <2>2
  <2> QED BY <1>4, <2>1, <2>3
<1>6. ASSUME NEW x, NEW y, NEW z, NEW u
      PROVE  <<x, y, z, u>> \o q = Push(x, Push(y, Push(z, Push(u, q))))
  <2> DEFINE T == S \cup {x, y, z, u}
  <2>0. <<y, z, u>> \in Seq(T)
    OBVIOUS
  <2>1. <<y, z, u>> \in Seq(T) /\ <<x>> \o <<y, z, u>> = <<x, y, z, u>>
    BY <2>0, Literals
  <2>2. q \in Seq(T)
    BY SeqMonotonic
  <2>3. (<<x>> \o <<y, z, u>>) \o q = Push(x, <<y, z, u>> \o q)
    BY <1>3, <2>1, <2>2
  <2> QED BY <1>5, <2>1, <2>3
<1> QED BY <1>1, <1>2, <1>4, <1>5, <1>6

\* What a thread goes on with when it is at step e and q follows.
Resumed1(s, q) ==
  /\ \A x : s = <<x>> \o q => Heads(s, x, q)
  /\ \A x, y : s = <<x, y>> \o q => Heads(s, x, Push(y, q))
  /\ \A x, y, z : s = <<x, y, z>> \o q => Heads(s, x, Push(y, Push(z, q)))
  /\ \A x, y, z, u : s = <<x, y, z, u>> \o q => Heads(s, x, Push(y, Push(z, Push(u, q))))

LEMMA Resuming ==
  ASSUME NEW S, NEW q \in Seq(S), NEW s
  PROVE  Resumed1(s, q)
<1>1. \A T, r, x : r \in Seq(T) => Heads(Push(x, r), x, r)
  BY PushHeads
<1>2. ASSUME NEW x, NEW T, NEW r \in Seq(T) PROVE Push(x, r) \in Seq(T \cup {x})
  <2>1. r \in Seq(T \cup {x})
    BY SeqMonotonic
  <2> QED BY <2>1, PushHeads
<1>3. \A y : Push(y, q) \in Seq(S \cup {y})
  BY <1>2
<1>4. \A y, z : Push(y, Push(z, q)) \in Seq((S \cup {z}) \cup {y})
  BY <1>2, <1>3
<1>5. \A y, z, u : Push(y, Push(z, Push(u, q))) \in Seq(((S \cup {u}) \cup {z}) \cup {y})
  BY <1>2, <1>4
<1>6. \A x : s = <<x>> \o q => Heads(s, x, q)
  BY <1>1 DEF Push
<1>7. \A x, y : s = <<x, y>> \o q => Heads(s, x, Push(y, q))
  <2> TAKE x, y
  <2>1. <<x, y>> \o q = Push(x, Push(y, q))
    BY Pushing
  <2>2. Heads(Push(x, Push(y, q)), x, Push(y, q))
    BY <1>1, <1>3
  <2> QED BY <2>1, <2>2
<1>8. \A x, y, z : s = <<x, y, z>> \o q => Heads(s, x, Push(y, Push(z, q)))
  <2> TAKE x, y, z
  <2>1. <<x, y, z>> \o q = Push(x, Push(y, Push(z, q)))
    BY Pushing
  <2>2. Heads(Push(x, Push(y, Push(z, q))), x, Push(y, Push(z, q)))
    BY <1>1, <1>4
  <2> QED BY <2>1, <2>2
<1>9. \A x, y, z, u : s = <<x, y, z, u>> \o q => Heads(s, x, Push(y, Push(z, Push(u, q))))
  <2> TAKE x, y, z, u
  <2>1. <<x, y, z, u>> \o q = Push(x, Push(y, Push(z, Push(u, q))))
    BY Pushing
  <2>2. Heads(Push(x, Push(y, Push(z, Push(u, q)))), x, Push(y, Push(z, Push(u, q))))
    BY <1>1, <1>5
  <2> QED BY <2>1, <2>2
<1> QED BY <1>6, <1>7, <1>8, <1>9 DEF Resumed1

\* The steps that a step leads to.
LEMMA Went ==
  ASSUME Stacks, NEW t \in Threads, NEW e, NEW q, Doing(t, e, q), NEW p, Do(t, p)
  PROVE  /\ q \in Seq(Entries) /\ Resumed1(stack'[t], q) /\ stack'[t] = p \o q
         /\ p = <<>> => stack'[t] = q
         /\ \A u \in Threads : u # t => stack'[u] = stack[u]
<1>1. stack[t] \in Seq(Entries) /\ stack[t] # <<>> /\ Tail(stack[t]) = q
  BY DEF Stacks, Doing, Heads
<1>2. q \in Seq(Entries)
  BY <1>1, HeadTailProperties
<1>3. stack'[t] = p \o q /\ \A u \in Threads : u # t => stack'[u] = stack[u]
  BY <1>1 DEF Do, Stacks
<1> QED BY <1>2, <1>3, Pushing, Resuming

\* The tails of the stacks, by what comes first.
LEMMA Tails ==
  /\ Heads(Loop, Step("get"), <<>>) /\ Loop # <<>>
  /\ Heads(ToLeave, Step("leave"), <<>>)
  /\ Heads(ToStop, Step("stop_processing"), Loop)
  /\ Heads(ToDeliver, <<"deliver", "END">>, ToStop)
  /\ Heads(ToTell, Step("session_end"), ToStop)
  /\ Heads(Push(Step("unlock"), Loop), Step("unlock"), Loop)
  /\ Heads(Push(Step("put_stop_head"), ToDeliver), Step("put_stop_head"), ToDeliver)
  /\ Heads(Push(Step("abort_sent"), ToLeave), Step("abort_sent"), ToLeave)
  /\ Heads(Push(Step("abort_sent"), Push(Step("put_stop_head"), ToDeliver)),
           Step("abort_sent"), Push(Step("put_stop_head"), ToDeliver))
  /\ Heads(ToRelease, Step("release"), <<>>)
  /\ Heads(ToFlush, Step("flush"), ToRelease)
  /\ Heads(Push(Step("deactivate"), ToFlush), Step("deactivate"), ToFlush)
<1> DEFINE X(x) == {<<x, "">>}
<1>1. ASSUME NEW S, NEW q \in Seq(S), NEW x
      PROVE  Heads(Push(x, q), x, q) /\ Push(x, q) \in Seq(S \cup {x})
  <2>1. q \in Seq(S \cup {x})
    BY SeqMonotonic
  <2> QED BY <2>1, PushHeads
<1>2. <<>> \in Seq({})
  OBVIOUS
<1>3. PICK S1 : Heads(Loop, Step("get"), <<>>) /\ Loop \in Seq(S1)
  BY <1>1, <1>2 DEF Loop
<1>4. PICK S2 : Heads(ToLeave, Step("leave"), <<>>) /\ ToLeave \in Seq(S2)
  BY <1>1, <1>2 DEF ToLeave
<1>5. PICK S3 : Heads(ToStop, Step("stop_processing"), Loop) /\ ToStop \in Seq(S3)
  BY <1>1, <1>3 DEF ToStop
<1>6. PICK S4 : Heads(ToDeliver, <<"deliver", "END">>, ToStop) /\ ToDeliver \in Seq(S4)
  BY <1>1, <1>5 DEF ToDeliver
<1>7. Heads(ToTell, Step("session_end"), ToStop)
  BY <1>1, <1>5 DEF ToTell
<1>8. Heads(Push(Step("unlock"), Loop), Step("unlock"), Loop)
  BY <1>1, <1>3
<1>9. PICK S5 : /\ Heads(Push(Step("put_stop_head"), ToDeliver), Step("put_stop_head"), ToDeliver)
                /\ Push(Step("put_stop_head"), ToDeliver) \in Seq(S5)
  BY <1>1, <1>6
<1>10. Heads(Push(Step("abort_sent"), ToLeave), Step("abort_sent"), ToLeave)
  BY <1>1, <1>4
<1>11. Heads(Push(Step("abort_sent"), Push(Step("put_stop_head"), ToDeliver)),
             Step("abort_sent"), Push(Step("put_stop_head"), ToDeliver))
  BY <1>1, <1>9
<1>12. PICK S6 : Heads(ToRelease, Step("release"), <<>>) /\ ToRelease \in Seq(S6)
  BY <1>1, <1>2 DEF ToRelease
<1>13. PICK S7 : Heads(ToFlush, Step("flush"), ToRelease) /\ ToFlush \in Seq(S7)
  BY <1>1, <1>12 DEF ToFlush
<1>14. Heads(Push(Step("deactivate"), ToFlush), Step("deactivate"), ToFlush)
  BY <1>1, <1>13
<1>15. Loop # <<>>
  BY <1>3 DEF Heads
<1> QED BY <1>3, <1>4, <1>5, <1>6, <1>7, <1>8, <1>9, <1>10, <1>11, <1>12, <1>13, <1>14, <1>15

-----------------------------------------------------------------------------
(* What is queued. *)

\* What is flushed first is not there any more.
FlushedTwice(q, R, S) == Without(Without(q, R), S) = Without(q, S)

LEMMA WithoutTwiceStep ==
  ASSUME NEW T, NEW R, NEW S, R \subseteq S, NEW q \in Seq(T), NEW x \in T
  PROVE  FlushedTwice(q, R, S) => FlushedTwice(Append(q, x), R, S)
<1> DEFINE u == Without(q, R)
           s == Append(q, x)
<1>1. u \in Seq(T) /\ s = Append(q, x) /\ u = Without(q, R)
  BY WithoutType
<1> HIDE DEF u, s
<1>2. /\ Without(s, R) = IF x \in R THEN u ELSE Append(u, x)
      /\ Without(s, S) = IF x \in S THEN Without(q, S) ELSE Append(Without(q, S), x)
      /\ Without(Append(u, x), S) = IF x \in S THEN Without(u, S) ELSE Append(Without(u, S), x)
  BY <1>1, WithoutAppend
<1>3. Without(u, S) = Without(q, S) => Without(Without(s, R), S) = Without(s, S)
  BY <1>2
<1> QED BY <1>1, <1>3 DEF FlushedTwice

LEMMA WithoutTwice ==
  ASSUME NEW T, NEW R, NEW S, R \subseteq S, NEW q \in Seq(T)
  PROVE  Without(Without(q, R), S) = Without(q, S)
<1> DEFINE P == {n \in Nat : \A s \in Seq(T) : Len(s) = n => FlushedTwice(s, R, S)}
<1>1. FlushedTwice(<<>>, R, S)
  BY WithoutEmpty DEF FlushedTwice
<1>2. 0 \in P
  BY <1>1, EmptySeq
<1>3. ASSUME NEW n \in 1..Len(q), n - 1 \in P PROVE n \in P
  <2>0. n \in Nat /\ n # 0
    BY LenProperties
  <2> SUFFICES ASSUME NEW s \in Seq(T), Len(s) = n PROVE FlushedTwice(s, R, S)
    BY <2>0
  <2>1. PICK t \in Seq(T), x \in T : s = Append(t, x)
    <3>1. s # <<>>
      BY <2>0, EmptySeq
    <3> QED BY <3>1, SequenceEmptyOrAppend
  <2>2. Len(t) = n - 1
    <3>1. Len(t) \in Nat /\ Len(s) = Len(t) + 1
      BY <2>1, LenProperties, AppendProperties
    <3> QED BY <2>0, <3>1
  <2>3. FlushedTwice(t, R, S)
    BY <1>3, <2>2
  <2> QED BY <2>1, <2>3, WithoutTwiceStep
<1>4. Len(q) \in P
  <2>1. Len(q) \in Nat
    BY LenProperties
  <2>2. 0..Len(q) \subseteq P
    <3> HIDE DEF P
    <3> QED BY <1>2, <1>3, <2>1, UpTo
  <2>3. Len(q) \in 0..Len(q)
    BY <2>1
  <2> HIDE DEF P
  <2> QED BY <2>2, <2>3
<1>5. FlushedTwice(q, R, S)
  BY <1>4
<1> QED BY <1>5 DEF FlushedTwice

LEMMA RestType ==
  ASSUME queue \in Seq(Kinds)
  PROVE  Rest \in Seq(Kinds)
BY WithoutType DEF Rest

LEMMA RestAppends ==
  ASSUME queue \in Seq(Kinds), NEW m \in Kinds, queue' = Append(queue, m)
  PROVE  /\ m \in Overlooked => Rest' = Rest
         /\ m \notin Overlooked /\ Rest = <<>> => Rest' = <<m>>
<1>1. Rest' = IF m \in Overlooked THEN Rest ELSE Append(Rest, m)
  BY WithoutAppend DEF Rest
<1>2. Append(<<>>, m) = <<m>>
  OBVIOUS
<1> QED BY <1>1, <1>2

LEMMA OneFirst ==
  ASSUME NEW T, NEW m \in T, NEW r \in Seq(T), NEW S
  PROVE  FlushedApart(<<m>>, r, S)
<1>1. \A q \in Seq(T) : Without(q \o r, S) = Without(q, S) \o Without(r, S)
  BY WithoutConcat
<1>2. <<m>> \in Seq(T)
  OBVIOUS
<1> QED BY <1>1, <1>2 DEF FlushedApart

LEMMA RestPrepends ==
  ASSUME queue \in Seq(Kinds), NEW m \in Kinds, queue' = <<m>> \o queue
  PROVE  /\ m \in Overlooked => Rest' = Rest
         /\ m \notin Overlooked /\ Rest = <<>> => Rest' = <<m>>
<1>1. <<m>> \in Seq(Kinds)
  OBVIOUS
<1>2. Without(<<m>> \o queue, Overlooked) = Without(<<m>>, Overlooked) \o Rest
  <2>1. FlushedApart(<<m>>, queue, Overlooked)
    BY OneFirst
  <2> QED BY <2>1 DEF FlushedApart, Rest
<1>5. Rest' = Without(<<m>>, Overlooked) \o Rest
  BY <1>2 DEF Rest
<1>3. Without(<<m>>, Overlooked) = IF m \in Overlooked THEN <<>> ELSE <<m>>
  BY WithoutOne
<1>4. <<>> \o Rest = Rest /\ <<m>> \o <<>> = <<m>>
  BY <1>1, RestType, ConcatEmptySeq
<1> QED BY <1>3, <1>4, <1>5

\* What the worker takes from the queue, by what is queued.
LEMMA RestTakes ==
  ASSUME queue \in Seq(Kinds), queue # <<>>, queue' = Tail(queue)
  PROVE  /\ Head(queue) \in Kinds
         /\ Head(queue) \in Overlooked => Rest' = Rest
         /\ Head(queue) \notin Overlooked => Rest # <<>>
         /\ \A m : Rest = <<m>> /\ Head(queue) \notin Overlooked =>
                     Head(queue) = m /\ Rest' = <<>>
<1>1. /\ Head(queue) \in Kinds /\ Tail(queue) \in Seq(Kinds)
      /\ queue = <<Head(queue)>> \o Tail(queue)
  BY HeadTailProperties, HeadAndTail
<1>2. PICK h, r : h = Head(queue) /\ r = Tail(queue)
  OBVIOUS
<1>3. <<h>> \in Seq(Kinds) /\ r \in Seq(Kinds) /\ h \in Kinds
  BY <1>1, <1>2
<1>4. Rest = Without(<<h>>, Overlooked) \o Without(r, Overlooked)
  <2>1. Without(<<h>> \o r, Overlooked) = Without(<<h>>, Overlooked) \o Without(r, Overlooked)
    <3>1. FlushedApart(<<h>>, r, Overlooked)
      BY <1>3, OneFirst
    <3> QED BY <3>1 DEF FlushedApart
  <2> QED BY <1>1, <1>2, <2>1 DEF Rest
<1>5. Without(<<h>>, Overlooked) = IF h \in Overlooked THEN <<>> ELSE <<h>>
  BY <1>3, WithoutOne
<1>6. Rest' = Without(r, Overlooked) /\ Rest' \in Seq(Kinds)
  BY <1>2, <1>3, WithoutType DEF Rest
<1>7. h \in Overlooked => Rest' = Rest
  BY <1>4, <1>5, <1>6, ConcatEmptySeq
<1>8. ASSUME h \notin Overlooked
      PROVE  Heads(Rest, h, Rest')
  <2>1. Rest = Push(h, Rest')
    BY <1>4, <1>5, <1>6, <1>8 DEF Push
  <2> QED BY <1>6, <2>1, PushHeads
<1>9. ASSUME h \notin Overlooked, NEW m, Rest = <<m>>
      PROVE  h = m /\ Rest' = <<>>
  <2>1. Rest[1] = h /\ Tail(Rest) = Rest'
    BY <1>8, <1>9 DEF Heads
  <2>2. <<m>>[1] = m /\ Tail(<<m>>) = <<>>
    OBVIOUS
  <2> QED BY <1>9, <2>1, <2>2
<1>10. h \notin Overlooked => Rest # <<>>
  BY <1>8 DEF Heads
<1> QED BY <1>2, <1>3, <1>7, <1>9, <1>10

LEMMA RestFlushed ==
  ASSUME queue \in Seq(Kinds), queue' = Without(queue, {"DATA"})
  PROVE  Rest' = Rest
BY WithoutTwice DEF Rest, Overlooked

LEMMA RestEmpty ==
  /\ queue = <<>> => Rest = <<>>
  /\ queue' = <<>> => Rest' = <<>>
  /\ queue' = queue => Rest' = Rest
BY WithoutEmpty DEF Rest

-----------------------------------------------------------------------------
(* What is logged. *)

Unlogged == log \in [Events -> 0..2] /\ log["ABORT"] = 0

LEMMA Counted1 ==
  ASSUME Unlogged
  PROVE  /\ Count("BEGIN") /\ SawNothing => SawBegin' /\ Unlogged'
         /\ Count("END") /\ SawBegin => SawEnd' /\ Unlogged'
         /\ Count("NOTIFIED") /\ SawEnd => SawAll' /\ Unlogged'
BY DEF Unlogged, Events, Count, SawNothing, SawBegin, SawEnd, SawAll

-----------------------------------------------------------------------------
(* What a step leaves of a session. *)

\* The session stays where it is: what is queued of it does not change, and nothing is
\* put on a queue that was closed.
Kept ==
  /\ app' = app /\ state' = state /\ queueActive' = queueActive /\ log' = log
  /\ sessionEndSent' = sessionEndSent /\ sessionEndProcessed' = sessionEndProcessed
  /\ sessionData' = sessionData /\ threadIds' = threadIds /\ thrCount' = thrCount
  /\ aborted' = aborted /\ failed' = failed /\ taskLock' = taskLock
  /\ Rest' = Rest
  /\ ~queueActive /\ queue = <<>> => queue' = <<>>
  /\ \/ abortSent' = abortSent
     \/ state \in Later

LEMMA PhasesKept ==
  ASSUME Kept
  PROVE  /\ Fresh => Fresh'
         /\ Taken => Taken'
         /\ Begun => Begun'
         /\ Going => Going'
         /\ Owed => Owed'
         /\ Queued => Queued'
         /\ Leaving => Leaving'
         /\ EndAtHand => EndAtHand'
         /\ EndQueued => EndQueued'
         /\ EndTaken => EndTaken'
         /\ EndPassed => EndPassed'
         /\ Ended => Ended'
         /\ Stopped => Stopped'
         /\ Finishing => Finishing'
         /\ Over => Over'
         /\ Settled => Settled'
<1>1. /\ Unsent' = Unsent /\ Sent' = Sent /\ Done' = Done
      /\ SawNothing' = SawNothing /\ SawBegin' = SawBegin /\ SawEnd' = SawEnd /\ SawAll' = SawAll
      /\ MayStop' = MayStop
  BY DEF Kept, Unsent, Sent, Done, SawNothing, SawBegin, SawEnd, SawAll, MayStop
<1>2. /\ state' = state /\ queueActive' = queueActive /\ Rest' = Rest
      /\ state \notin Later => abortSent' = abortSent
  BY DEF Kept
<1>3. "SESSION_STARTING" \notin Later /\ "RUNNING" \notin Later /\ "PAUSED" \notin Later
  BY DEF Later
<1>4. (Fresh => Fresh') /\ (Taken => Taken') /\ (Begun => Begun') /\ (Going => Going')
  BY <1>1, <1>2, <1>3 DEF Fresh, Taken, Begun, Going, Starts
<1>5. /\ (Owed => Owed') /\ (Queued => Queued') /\ (Leaving => Leaving')
      /\ (EndAtHand => EndAtHand') /\ (EndQueued => EndQueued') /\ (EndTaken => EndTaken')
      /\ (EndPassed => EndPassed')
  BY <1>1, <1>2 DEF Owed, Queued, Leaving, EndAtHand, EndQueued, EndTaken, EndPassed, AtEnd
<1>6. /\ (Ended => Ended') /\ (Stopped => Stopped') /\ (Finishing => Finishing')
      /\ (Over => Over') /\ (Settled => Settled')
  BY <1>1, <1>2 DEF Ended, Stopped, Finishing, Over, Settled
<1> QED BY <1>4, <1>5, <1>6

LEMMA ServiceKept ==
  ASSUME Kept, NEW e, NEW q, Service(e, q)
  PROVE  Service(e, q)'
<1>1. taskLock' = taskLock
  BY DEF Kept
<1> QED BY <1>1, PhasesKept DEF Service, Looping

LEMMA WorkerKept ==
  ASSUME Kept, \A v \in Workers : stack'[v] = stack[v]
  PROVE  /\ \A w \in Workers : (Served(w) => Served(w)') /\ (Closed(w) => Closed(w)')
                               /\ (Waited(w) => Waited(w)')
         /\ NoWorker' = NoWorker
         /\ Gone => Gone'
<1>1. NoWorker' = NoWorker /\ \A w \in Workers : Alone(w)' = Alone(w)
  BY DEF NoWorker, Alone, Kept
<1>2. /\ Done' = Done /\ SawAll' = SawAll
      /\ threadIds' = threadIds /\ thrCount' = thrCount /\ queueActive' = queueActive
      /\ ~queueActive /\ queue = <<>> => queue' = <<>>
      /\ state' = state /\ sessionData' = sessionData
  BY DEF Kept, Done, SawAll
<1>3. Gone => Gone'
  BY <1>1, <1>2 DEF Gone
<1>4. ASSUME NEW w \in Workers
      PROVE  (Served(w) => Served(w)') /\ (Closed(w) => Closed(w)') /\ (Waited(w) => Waited(w)')
  <2>1. /\ stack'[w] = stack[w] /\ Alone(w)' = Alone(w) /\ Counted(w)' = Counted(w)
        /\ \A e, q : Doing(w, e, q)' = Doing(w, e, q)
    BY <1>1, <1>2 DEF Counted, Doing
  <2>2. ASSUME Served(w) PROVE Served(w)'
    <3>1. PICK e, q : Doing(w, e, q) /\ Service(e, q) /\ Counted(w)
      BY <2>2 DEF Served
    <3>2. Doing(w, e, q)' /\ Service(e, q)' /\ Counted(w)'
      BY <2>1, <3>1, ServiceKept
    <3> QED BY <3>2 DEF Served
  <2>3. ASSUME Closed(w) PROVE Closed(w)'
    <3>1. PICK e, q : Doing(w, e, q) /\ Closing(e, q) /\ Alone(w) /\ thrCount = 0 /\ Over
      BY <2>3 DEF Closed
    <3>2. Doing(w, e, q)' /\ Alone(w)' /\ thrCount' = 0 /\ Over'
      BY <1>2, <2>1, <3>1, PhasesKept
    <3>3. Closing(e, q)'
      BY <1>2, <3>1 DEF Closing
    <3> QED BY <3>2, <3>3 DEF Closed
  <2>4. ASSUME Waited(w) PROVE Waited(w)'
    <3>1. PICK e, q : Doing(w, e, q) /\ OnLoop(e, q) /\ Counted(w) /\ Owed
      BY <2>4 DEF Waited
    <3>2. Doing(w, e, q)' /\ Counted(w)' /\ Owed'
      BY <2>1, <3>1, PhasesKept
    <3>3. OnLoop(e, q)'
      BY <3>1 DEF OnLoop
    <3> QED BY <3>2, <3>3 DEF Waited
  <2> QED BY <2>2, <2>3, <2>4
<1> QED BY <1>1, <1>3, <1>4

\* The steps of the thread that controls the stream bear a session that goes on by
\* itself: the state moves on, and no MB_STOP is queued anew.
Moves ==
  /\ \/ state' = state
     \/ state = "SESSION_STARTING" /\ state' = "RUNNING"
     \/ state = "SESSION_STOPPING" /\ state' = "STOPPED"
     \/ state = "STOPPED" /\ state' = "FINISHED"
  /\ Settled => Settled'
  /\ NoWorker => NoWorker'

LEMMA ControlMoves ==
  ASSUME Moves, NEW e, NEW q, Control(e, q)
  PROVE  Control(e, q)'
<1>1. /\ state \in Since => state' \in Since
      /\ state \in Later => state' \in Later
      /\ state = "FINISHED" => state' = "FINISHED"
      /\ state = "RUNNING" => state' = "RUNNING"
      /\ state = "PAUSED" => state' = "PAUSED"
      /\ state \in {"RUNNING", "PAUSED"} => state' \in {"RUNNING", "PAUSED"}
  BY DEF Moves, Since, Later
<1>2. /\ Settled => Settled'
      /\ NoWorker => NoWorker'
  BY DEF Moves
<1>3. \A k : (After(k) => After(k)') /\ (Waits(k) => Waits(k)') /\ (Then(k) => Then(k)')
  BY <1>1 DEF After, Waits, Then
<1>4. \A f, k, l : Aborting(f, k, l)' = Aborting(f, k, l)
  BY DEF Aborting
<1> QED BY <1>1, <1>2, <1>3, <1>4 DEF Control

-----------------------------------------------------------------------------
(* The steps of the worker, while there is a session. *)

LEMMA ServiceLines ==
  ASSUME NEW e, NEW q, Service(e, q)
  PROVE  /\ e[1] = "svc" => q = <<>> /\ Fresh
         /\ e[1] = "get" => q = <<>> /\ Looping
         /\ e[1] = "handle" =>
              \/ e[2] \in {"DATA", "CONTROL_ABORT"} /\ q = Loop /\ Looping
              \/ e[2] = "BEGIN" /\ q = Loop /\ Taken
              \/ e[2] = "END" /\ q = ToStop /\ EndAtHand
              \/ /\ e[2] = "CONTROL_ABORT" /\ q = Push(Step("abort_sent"), ToLeave)
                 /\ Leaving \/ Over
              \/ /\ e[2] = "CONTROL_ABORT" /\ EndTaken
                 /\ q = Push(Step("abort_sent"), Push(Step("put_stop_head"), ToDeliver))
         /\ e[1] = "deliver" =>
              \/ e[2] = "DATA" /\ q = Loop /\ Looping
              \/ e[2] = "BEGIN" /\ q = Loop /\ Taken
              \/ e[2] = "END" /\ q = ToStop /\ EndPassed
         /\ e[1] = "event" =>
              \/ e[2] = "BEGIN" /\ q = Loop /\ Begun
              \/ e[2] = "END" /\ q = ToStop /\ Ended
         /\ e[1] = "change" =>
              \/ e[2] = "RUNNING" /\ q = Loop /\ Begun
              \/ e[2] = "STOPPED" /\ q = ToTell /\ Ended
              \/ e[2] = "FINISHED" /\ q = ToTell /\ Stopped
         /\ e[1] = "enter" =>
              \/ e[2] = "RUNNING" /\ q = Loop /\ Begun
              \/ e[2] = "STOPPED" /\ q = ToTell /\ Ended
              \/ e[2] = "FINISHED" /\ q = ToTell /\ Stopped
         /\ e[1] = "set" =>
              \/ e[2] = "RUNNING" /\ q = Loop /\ Begun
              \/ e[2] = "FINISHED" /\ q = ToTell /\ Stopped
         /\ e[1] = "leave" => q = <<>> /\ (Leaving \/ Over)
         /\ e[1] \in {"abort", "abort_sent"} =>
              \/ q = ToLeave /\ (Leaving \/ Over)
              \/ q = Push(Step("put_stop_head"), ToDeliver) /\ EndTaken
         /\ e[1] \in {"finished", "send_end"} =>
              \/ q = Loop /\ Leaving
              \/ q = Push(Step("unlock"), Loop) /\ EndAtHand /\ taskLock # None
         /\ e[1] = "put" => e[2] = "END" /\ q = Loop /\ EndAtHand
         /\ e[1] = "process_end" => q = ToDeliver /\ EndAtHand
         /\ e[1] \in {"put_stop", "put_stop_head"} => q = ToDeliver /\ EndTaken
         /\ e[1] = "session_end" => q = ToStop /\ Finishing
         /\ e[1] = "stop_processing" => q = Loop /\ Over
         /\ e[1] = "exit" => q = <<>> /\ Over
         /\ e[1] \in {"svc", "get", "handle", "deliver", "event", "change", "enter", "set",
                      "leave", "abort", "abort_sent", "finished", "send_end", "put",
                      "process_end", "put_stop", "put_stop_head", "session_end",
                      "stop_processing", "exit"}
<1>1. e[1] = "svc" => q = <<>> /\ Fresh
  BY DEF Service, OnLoop, Aborting
<1>2. e[1] = "get" => q = <<>> /\ Looping
  BY DEF Service, OnLoop, Aborting
<1>3. e[1] = "handle" =>
        \/ e[2] \in {"DATA", "CONTROL_ABORT"} /\ q = Loop /\ Looping
        \/ e[2] = "BEGIN" /\ q = Loop /\ Taken
        \/ e[2] = "END" /\ q = ToStop /\ EndAtHand
        \/ /\ e[2] = "CONTROL_ABORT" /\ q = Push(Step("abort_sent"), ToLeave)
           /\ Leaving \/ Over
        \/ /\ e[2] = "CONTROL_ABORT" /\ EndTaken
           /\ q = Push(Step("abort_sent"), Push(Step("put_stop_head"), ToDeliver))
  BY DEF Service, OnLoop, Aborting
<1>4. e[1] = "deliver" =>
        \/ e[2] = "DATA" /\ q = Loop /\ Looping
        \/ e[2] = "BEGIN" /\ q = Loop /\ Taken
        \/ e[2] = "END" /\ q = ToStop /\ EndPassed
  BY DEF Service, OnLoop, Aborting
<1>5. e[1] = "event" =>
        \/ e[2] = "BEGIN" /\ q = Loop /\ Begun
        \/ e[2] = "END" /\ q = ToStop /\ Ended
  BY DEF Service, OnLoop, Aborting
<1>6. e[1] = "change" =>
        \/ e[2] = "RUNNING" /\ q = Loop /\ Begun
        \/ e[2] = "STOPPED" /\ q = ToTell /\ Ended
        \/ e[2] = "FINISHED" /\ q = ToTell /\ Stopped
  BY DEF Service, OnLoop, Aborting
<1>7. e[1] = "enter" =>
        \/ e[2] = "RUNNING" /\ q = Loop /\ Begun
        \/ e[2] = "STOPPED" /\ q = ToTell /\ Ended
        \/ e[2] = "FINISHED" /\ q = ToTell /\ Stopped
  BY DEF Service, OnLoop, Aborting
<1>8. e[1] = "set" =>
        \/ e[2] = "RUNNING" /\ q = Loop /\ Begun
        \/ e[2] = "FINISHED" /\ q = ToTell /\ Stopped
  BY DEF Service, OnLoop, Aborting
<1>9. e[1] = "leave" => q = <<>> /\ (Leaving \/ Over)
  BY DEF Service, OnLoop, Aborting
<1>10. e[1] \in {"abort", "abort_sent"} =>
        \/ q = ToLeave /\ (Leaving \/ Over)
        \/ q = Push(Step("put_stop_head"), ToDeliver) /\ EndTaken
  BY DEF Service, OnLoop, Aborting
<1>11. e[1] \in {"finished", "send_end"} =>
        \/ q = Loop /\ Leaving
        \/ q = Push(Step("unlock"), Loop) /\ EndAtHand /\ taskLock # None
  BY DEF Service, OnLoop, Aborting
<1>12. e[1] = "put" => e[2] = "END" /\ q = Loop /\ EndAtHand
  BY DEF Service, OnLoop, Aborting
<1>13. e[1] = "process_end" => q = ToDeliver /\ EndAtHand
  BY DEF Service, OnLoop, Aborting
<1>14. e[1] \in {"put_stop", "put_stop_head"} => q = ToDeliver /\ EndTaken
  BY DEF Service, OnLoop, Aborting
<1>15. e[1] = "session_end" => q = ToStop /\ Finishing
  BY DEF Service, OnLoop, Aborting
<1>16. e[1] = "stop_processing" => q = Loop /\ Over
  BY DEF Service, OnLoop, Aborting
<1>17. e[1] = "exit" => q = <<>> /\ Over
  BY DEF Service, OnLoop, Aborting
<1>18. e[1] \in {"svc", "get", "handle", "deliver", "event", "change", "enter", "set",
                "leave", "abort", "abort_sent", "finished", "send_end", "put",
                "process_end", "put_stop", "put_stop_head", "session_end",
                "stop_processing", "exit"}
  BY DEF Service, OnLoop, Aborting
<1> QED BY <1>1, <1>2, <1>3, <1>4, <1>5, <1>6, <1>7, <1>8, <1>9, <1>10, <1>11, <1>12, <1>13, <1>14, <1>15, <1>16, <1>17, <1>18

\* What a step of the worker spares.
Spares(w) ==
  /\ Moves
  /\ app' = app /\ failed' = failed /\ aborted' = aborted /\ log'["ABORT"] = log["ABORT"]
  /\ taskLock' \notin Users
  /\ \A u \in Threads : u # w => stack'[u] = stack[u]

LEMMA ServesOn ==
  ASSUME NEW c \in Users, NEW w \in Workers, Sound(c), stack[w] # <<>>, Counted(w), Kept,
         \A u \in Threads : u # w => stack'[u] = stack[u],
         NEW e, NEW q, Heads(stack'[w], e, q), Service(e, q)'
  PROVE  Served(w)' /\ Spares(w)
<1>1. Counted(w)'
  BY DEF Counted, Alone, Kept, Threads
<1>2. Served(w)'
  BY <1>1 DEF Served, Doing
<1>3. Moves
  <2>1. Settled => Settled'
    BY PhasesKept
  <2>2. ~NoWorker
    BY DEF NoWorker
  <2> QED BY <2>1, <2>2 DEF Moves, Kept
<1>4. app' = app /\ failed' = failed /\ aborted' = aborted /\ log' = log /\ taskLock' = taskLock
  BY DEF Kept
<1> QED BY <1>2, <1>3, <1>4 DEF Spares, Sound

\* The same for a step that does not leave the session where it is.
LEMMA ServesNext ==
  ASSUME NEW c \in Users, NEW w \in Workers, Sound(c), stack[w] # <<>>, Counted(w),
         threadIds' = threadIds, thrCount' = thrCount, sessionData' = sessionData,
         app' = app, failed' = failed, aborted' = aborted, log'["ABORT"] = log["ABORT"],
         taskLock' \in {taskLock, w},
         \/ state' = state
         \/ state = "SESSION_STARTING" /\ state' = "RUNNING"
         \/ state = "SESSION_STOPPING" /\ state' = "STOPPED"
         \/ state = "STOPPED" /\ state' = "FINISHED",
         Settled => ~(Unsent /\ Rest = <<"STOP">>)',
         \A u \in Threads : u # w => stack'[u] = stack[u],
         NEW e, NEW q, Heads(stack'[w], e, q), Service(e, q)'
  PROVE  Served(w)' /\ Spares(w)
<1>1. Counted(w)'
  BY DEF Counted, Alone, Threads
<1>2. Served(w)'
  BY <1>1 DEF Served, Doing
<1>3. Moves
  <2>1. Settled => Settled'
    <3>1. state \in Later => state' \in Later
      BY DEF Later
    <3> QED BY <3>1 DEF Settled
  <2>2. ~NoWorker
    BY DEF NoWorker
  <2> QED BY <2>1, <2>2 DEF Moves
<1>4. taskLock' \notin Users
  BY ThreadsAssumption DEF Sound
<1> QED BY <1>2, <1>3, <1>4 DEF Spares

LEMMA WorkerGoesOn ==
  ASSUME NEW c \in Users, NEW w \in Workers, Sound(c), Controls(c), Spares(w),
         Served(w)' \/ Closed(w)' \/ Gone'
  PROVE  SInv(c)'
<1>1. c # w /\ \A u \in Users : stack'[u] = stack[u]
  BY ThreadsAssumption DEF Spares, Threads
<1>2. Controls(c)'
  <2>1. CASE stack[c] = <<>> /\ state # "INITIALIZED"
    <3>1. state' # "INITIALIZED"
      BY <2>1 DEF Spares, Moves
    <3> QED BY <1>1, <2>1, <3>1 DEF Controls
  <2>2. CASE \E e, q : Doing(c, e, q) /\ Control(e, q)
    <3>1. PICK e, q : Doing(c, e, q) /\ Control(e, q)
      BY <2>2
    <3>2. Control(e, q)'
      BY <3>1, ControlMoves DEF Spares
    <3>3. Doing(c, e, q)'
      BY <1>1, <3>1 DEF Doing
    <3> QED BY <3>2, <3>3 DEF Controls
  <2> QED BY <2>1, <2>2 DEF Controls
<1>3. Sound(c)'
  <2>1. \A u \in Users \ {c} : Feeds(u)'
    BY <1>1 DEF Sound, Feeds, Doing
  <2>2. ControlledBy(c)'
    BY DEF Sound, ControlledBy, Spares
  <2> QED BY <2>1, <2>2 DEF Sound, Spares
<1> QED BY <1>2, <1>3 DEF SInv, InSession

-----------------------------------------------------------------------------
(* The steps of the worker, one by one. *)

Attends(c, w, e, q) ==
  /\ Sound(c) /\ Stacks /\ queue \in Seq(Kinds) /\ Unlogged
  /\ Doing(w, e, q) /\ Service(e, q) /\ Counted(w)

StillServed(w) == Served(w)' /\ Spares(w)

\* Nothing changes but the steps, and what the session does not depend on.
Steady ==
  /\ app' = app /\ state' = state /\ queueActive' = queueActive /\ log' = log
  /\ sessionEndSent' = sessionEndSent /\ sessionEndProcessed' = sessionEndProcessed
  /\ sessionData' = sessionData /\ threadIds' = threadIds /\ thrCount' = thrCount
  /\ aborted' = aborted /\ failed' = failed /\ taskLock' = taskLock
  /\ queue' = queue /\ abortSent' = abortSent

LEMMA SteadyKept == Steady => Kept
BY RestEmpty DEF Steady, Kept

LEMMA Attending ==
  ASSUME NEW c \in Users, NEW w \in Workers, NEW e, NEW q, Attends(c, w, e, q), NEW p, Do(w, p)
  PROVE  /\ stack[w] # <<>> /\ stack[w][1] = e /\ Arg(w) = e[2]
         /\ Resumed1(stack'[w], q) /\ stack'[w] = p \o q
         /\ p = <<>> => stack'[w] = q
         /\ \A u \in Threads : u # w => stack'[u] = stack[u]
<1>1. Doing(w, e, q) /\ Stacks /\ w \in Threads
  BY DEF Attends, Threads
<1>2. stack[w] # <<>> /\ stack[w][1] = e
  BY <1>1 DEF Doing, Heads
<1>3. Arg(w) = e[2]
  BY <1>2 DEF Arg
<1> QED BY <1>1, <1>2, <1>3, Went

LEMMA AttendsOn ==
  ASSUME NEW c \in Users, NEW w \in Workers, NEW e, NEW q, Attends(c, w, e, q), NEW p, Do(w, p),
         Kept, NEW f, NEW r, Heads(stack'[w], f, r), Service(f, r)'
  PROVE  StillServed(w)
<1>1. Sound(c) /\ Counted(w)
  BY DEF Attends
<1>2. stack[w] # <<>> /\ \A u \in Threads : u # w => stack'[u] = stack[u]
  BY Attending
<1> QED BY <1>1, <1>2, ServesOn DEF StillServed

\* What a step does that does not leave the session where it is.
Advances ==
  /\ threadIds' = threadIds /\ thrCount' = thrCount /\ sessionData' = sessionData
  /\ app' = app /\ failed' = failed /\ aborted' = aborted /\ log'["ABORT"] = log["ABORT"]
  /\ \/ state' = state
     \/ state = "SESSION_STARTING" /\ state' = "RUNNING"
     \/ state = "SESSION_STOPPING" /\ state' = "STOPPED"
     \/ state = "STOPPED" /\ state' = "FINISHED"
  /\ Settled => ~(Unsent /\ Rest = <<"STOP">>)'

LEMMA AttendsNext ==
  ASSUME NEW c \in Users, NEW w \in Workers, NEW e, NEW q, Attends(c, w, e, q), NEW p, Do(w, p),
         Advances, taskLock' \in {taskLock, w},
         NEW f, NEW r, Heads(stack'[w], f, r), Service(f, r)'
  PROVE  StillServed(w)
<1>1. Sound(c) /\ Counted(w)
  BY DEF Attends
<1>2. stack[w] # <<>> /\ \A u \in Threads : u # w => stack'[u] = stack[u]
  BY Attending
<1> QED BY <1>1, <1>2, ServesNext DEF StillServed, Advances

LEMMA SvcServes ==
  ASSUME NEW c \in Users, NEW w \in Workers, NEW e, NEW q, Attends(c, w, e, q), Svc(w)
  PROVE  StillServed(w)
<1>1. Do(w, <<Step("get")>>) /\ stack[w][1][1] = "svc"
  BY DEF Svc, At
<1>2. e[1] = "svc" /\ q = <<>> /\ Fresh /\ sessionData
  <2>1. e[1] = "svc" /\ Service(e, q) /\ Counted(w)
    BY <1>1, Attending DEF Attends
  <2> QED BY <2>1, ServiceLines DEF Counted, Alone
<1>3. Steady
  BY <1>2 DEF Svc, Steady, Check
<1>4. Heads(stack'[w], Step("get"), <<>>)
  BY <1>1, <1>2, Attending DEF Resumed1
<1>5. Service(Step("get"), <<>>)'
  BY <1>2, <1>3, SteadyKept, PhasesKept DEF Service, OnLoop, Looping, Step
<1> QED BY <1>1, <1>3, <1>4, <1>5, SteadyKept, AttendsOn

Cat(a, b) == a \o b

LEMMA JoinedEmpty ==
  ASSUME NEW x
  PROVE  Cat(<<>>, <<x>>) = <<x>> /\ Cat(<<x>>, <<>>) = <<x>>
<1>1. <<x>> \in Seq({x})
  OBVIOUS
<1> QED BY <1>1, ConcatEmptySeq DEF Cat

LEMMA JoinedPair ==
  ASSUME NEW x, NEW y
  PROVE  Cat(<<x>>, <<y>>) = <<x, y>>
BY Literals DEF Cat

LEMMA JoinedSparse ==
  ASSUME NEW x, NEW y
  PROVE  Cat(Cat(<<x>>, <<>>), <<y>>) = <<x, y>>
BY JoinedEmpty, JoinedPair

LEMMA JoinedThree ==
  ASSUME NEW x, NEW y, NEW z
  PROVE  Cat(Cat(<<x>>, <<y>>), <<z>>) = <<x, y, z>>
<1>1. <<x>> \in Seq({x, y, z}) /\ <<y>> \in Seq({x, y, z}) /\ <<z>> \in Seq({x, y, z})
  OBVIOUS
<1>2. Cat(Cat(<<x>>, <<y>>), <<z>>) = Cat(<<x>>, Cat(<<y>>, <<z>>))
  BY <1>1, ConcatAssociative DEF Cat
<1>3. Cat(<<x>>, <<y, z>>) = <<x, y, z>>
  BY Literals DEF Cat
<1> QED BY <1>2, <1>3, JoinedPair

\* A message is taken from the queue: of the session, by where that is.
LEMMA LoopTakes ==
  ASSUME queue \in Seq(Kinds), queue # <<>>, queueActive, queue' = Tail(queue),
         state' = state, log' = log, queueActive' = queueActive, abortSent' = abortSent,
         sessionEndSent' = sessionEndSent, sessionEndProcessed' = sessionEndProcessed,
         Looping, Head(queue) \notin Overlooked
  PROVE  \/ Head(queue) = "BEGIN" /\ Taken'
         \/ Head(queue) = "STOP" /\ (Leaving' \/ Over')
         \/ Head(queue) = "END" /\ EndAtHand'
<1>1. /\ Rest # <<>>
      /\ \A m : Rest = <<m>> => Head(queue) = m /\ Rest' = <<>>
  BY RestTakes
<1>2. /\ Unsent' = Unsent /\ Sent' = Sent /\ Done' = Done
      /\ SawNothing' = SawNothing /\ SawBegin' = SawBegin /\ SawEnd' = SawEnd /\ SawAll' = SawAll
  BY DEF Unsent, Sent, Done, SawNothing, SawBegin, SawEnd, SawAll
<1>3. CASE Fresh
  BY <1>1, <1>2, <1>3 DEF Fresh, Taken, Starts
<1>4. CASE Going
  BY <1>1, <1>4 DEF Going
<1>5. CASE Queued
  BY <1>1, <1>2, <1>5 DEF Queued, Leaving, AtEnd
<1>6. CASE EndQueued
  BY <1>1, <1>2, <1>6 DEF EndQueued, EndAtHand, AtEnd
<1>7. CASE Over
  BY <1>1, <1>2, <1>7 DEF Over, MayStop
<1> QED BY <1>3, <1>4, <1>5, <1>6, <1>7 DEF Looping

LEMMA GetQServes ==
  ASSUME NEW c \in Users, NEW w \in Workers, NEW e, NEW q, Attends(c, w, e, q), GetQ(w)
  PROVE  StillServed(w)
<1>1. PICK p : Do(w, p) /\ p = IF Head(queue) = "STOP"
           THEN Cat(IF isHighPriorityStop /\ ~abortSent THEN <<Step("abort")>> ELSE <<>>,
                    <<Step("leave")>>)
           ELSE Cat(Cat(<<<<"handle", Head(queue)>>>>,
                        IF Stops(Head(queue)) THEN <<Step("stop_processing")>> ELSE <<>>),
                    <<Step("get")>>)
  BY DEF GetQ, Cat
<1>2. /\ stack[w][1][1] = "get" /\ queueActive /\ queue # <<>> /\ queue' = Tail(queue)
      /\ state' = state /\ log' = log /\ queueActive' = queueActive /\ abortSent' = abortSent
      /\ sessionEndSent' = sessionEndSent /\ sessionEndProcessed' = sessionEndProcessed
      /\ threadIds' = threadIds /\ thrCount' = thrCount /\ sessionData' = sessionData
      /\ app' = app /\ failed' = failed /\ aborted' = aborted /\ taskLock' = taskLock
  BY DEF GetQ, At
<1>3. e[1] = "get" /\ q = <<>> /\ Looping /\ queue \in Seq(Kinds)
  <2>1. e[1] = "get" /\ Service(e, q) /\ queue \in Seq(Kinds)
    BY <1>1, <1>2, Attending DEF Attends
  <2> QED BY <2>1, ServiceLines
<1>4. Resumed1(stack'[w], <<>>) /\ stack'[w] = p \o <<>>
  <2>1. Do(w, p)
    BY <1>1
  <2>2. Resumed1(stack'[w], q) /\ stack'[w] = p \o q
    BY <2>1, Attending
  <2> QED BY <1>3, <2>2
<1>5. PICK h : h = Head(queue)
  OBVIOUS
<1>6. Heads(Loop, Step("get"), <<>>) /\ Loop = Push(Step("get"), <<>>)
      /\ ToStop = Push(Step("stop_processing"), Loop) /\ ToLeave = Push(Step("leave"), <<>>)
  BY Tails DEF Loop, ToStop, ToLeave
<1>7. CASE h \in Overlooked
  <2>1. p = <<<<"handle", h>>, Step("get")>>
    <3>1. h # "STOP" /\ ~Stops(h)
      BY <1>7 DEF Overlooked, Stops
    <3>2. p = Cat(Cat(<<<<"handle", h>>>>, <<>>), <<Step("get")>>)
      BY <1>1, <1>5, <3>1
    <3> QED BY <3>2, JoinedSparse
  <2>2. Heads(stack'[w], <<"handle", h>>, Loop)
    BY <1>4, <1>6, <2>1 DEF Resumed1
  <2>3. Rest' = Rest
    BY <1>2, <1>3, <1>5, <1>7, RestTakes
  <2>4. Kept
    BY <1>2, <2>3 DEF Kept
  <2>5. Service(<<"handle", h>>, Loop)'
    BY <1>3, <1>7, <2>4, PhasesKept DEF Service, OnLoop, Looping, Overlooked
  <2> QED BY <1>1, <2>2, <2>4, <2>5, AttendsOn
<1>8. CASE h \notin Overlooked
  <2>1. \/ h = "BEGIN" /\ Taken'
        \/ h = "STOP" /\ (Leaving' \/ Over')
        \/ h = "END" /\ EndAtHand'
    BY <1>2, <1>3, <1>5, <1>8, LoopTakes
  <2>2. Advances
    <3>1. <<>> # <<"STOP">>
      OBVIOUS
    <3>2. ~(Unsent' /\ Rest' = <<"STOP">>)
      BY <2>1, <3>1 DEF Taken, Leaving, Over, EndAtHand, Unsent, Sent, Done
    <3> QED BY <1>2, <3>2 DEF Advances
  <2>3. CASE h = "BEGIN"
    <3>1. p = <<<<"handle", h>>, Step("get")>>
      <4>1. h # "STOP" /\ ~Stops(h)
        BY <2>3 DEF Stops
      <4>2. p = Cat(Cat(<<<<"handle", h>>>>, <<>>), <<Step("get")>>)
        BY <1>1, <1>5, <4>1
      <4> QED BY <4>2, JoinedSparse
    <3>2. Heads(stack'[w], <<"handle", h>>, Loop)
      BY <1>4, <1>6, <3>1 DEF Resumed1
    <3>3. Service(<<"handle", h>>, Loop)'
      BY <2>1, <2>3 DEF Service
    <3> QED BY <1>1, <1>2, <2>2, <3>2, <3>3, AttendsNext
  <2>4. CASE h = "END"
    <3>1. p = <<<<"handle", h>>, Step("stop_processing"), Step("get")>>
      <4>1. h # "STOP" /\ Stops(h)
        BY <2>4 DEF Stops
      <4>2. p = Cat(Cat(<<<<"handle", h>>>>, <<Step("stop_processing")>>), <<Step("get")>>)
        BY <1>1, <1>5, <4>1
      <4> QED BY <4>2, JoinedThree
    <3>2. Heads(stack'[w], <<"handle", h>>, ToStop)
      BY <1>4, <1>6, <3>1 DEF Resumed1
    <3>3. Service(<<"handle", h>>, ToStop)'
      BY <2>1, <2>4 DEF Service
    <3> QED BY <1>1, <1>2, <2>2, <3>2, <3>3, AttendsNext
  <2>5. CASE h = "STOP"
    <3>1. p = <<Step("abort"), Step("leave")>> \/ p = <<Step("leave")>>
      <4>1. \/ p = Cat(<<Step("abort")>>, <<Step("leave")>>)
            \/ p = Cat(<<>>, <<Step("leave")>>)
        BY <1>1, <1>5, <2>5
      <4> QED BY <4>1, JoinedEmpty, JoinedPair
    <3>2. Heads(stack'[w], Step("abort"), ToLeave) \/ Heads(stack'[w], Step("leave"), <<>>)
      BY <1>4, <1>6, <3>1 DEF Resumed1
    <3>3. Service(Step("abort"), ToLeave)' /\ Service(Step("leave"), <<>>)'
      BY <2>1, <2>5 DEF Service, Aborting, Step
    <3> QED BY <1>1, <1>2, <2>2, <3>2, <3>3, AttendsNext
  <2> QED BY <2>1, <2>3, <2>4, <2>5
<1> QED BY <1>7, <1>8

LEMMA GetQShutdownServes ==
  ASSUME NEW c \in Users, NEW w \in Workers, NEW e, NEW q, Attends(c, w, e, q),
         taskLock \in Threads \cup {None}, GetQShutdown(w)
  PROVE  StillServed(w)
<1>1. PICK p : Do(w, p) /\ p = IF state = "FINISHED" THEN <<Step("exit")>>
                               ELSE <<Step("finished"), Step("unlock"), Step("get")>>
  BY DEF GetQShutdown
<1>2. /\ stack[w][1][1] = "get" /\ ~queueActive /\ taskLock = None
      /\ state' = state /\ log' = log /\ abortSent' = abortSent /\ queue' = queue
      /\ sessionEndSent' = sessionEndSent /\ sessionEndProcessed' = sessionEndProcessed
      /\ threadIds' = threadIds /\ thrCount' = thrCount /\ sessionData' = sessionData
      /\ app' = app /\ failed' = failed /\ aborted' = aborted
      /\ state = "FINISHED" => taskLock' = taskLock /\ queueActive' = queueActive
      /\ state # "FINISHED" => taskLock' = w /\ queueActive'
  BY DEF GetQShutdown, At
<1>3. e[1] = "get" /\ q = <<>> /\ Looping
  <2>1. Do(w, p)
    BY <1>1
  <2>2. e[1] = "get" /\ Service(e, q)
    BY <1>2, <2>1, Attending DEF Attends
  <2> QED BY <2>2, ServiceLines
<1>4. Resumed1(stack'[w], <<>>) /\ stack'[w] = p \o <<>>
  <2>1. Do(w, p)
    BY <1>1
  <2>2. Resumed1(stack'[w], q) /\ stack'[w] = p \o q
    BY <2>1, Attending
  <2> QED BY <1>3, <2>2
<1>5. Over \/ EndQueued
  BY <1>2, <1>3 DEF Looping, Fresh, Starts, Going, Queued
<1>6. CASE state = "FINISHED"
  <2>1. Over
    BY <1>5, <1>6 DEF EndQueued, AtEnd
  <2>2. Steady
    BY <1>2, <1>6 DEF Steady
  <2>3. Service(Step("exit"), <<>>)'
    BY <2>1, <2>2, SteadyKept, PhasesKept DEF Service, Step
  <2>4. Heads(stack'[w], Step("exit"), <<>>)
    BY <1>1, <1>4, <1>6 DEF Resumed1
  <2> QED BY <1>1, <2>2, <2>3, <2>4, SteadyKept, AttendsOn
<1>7. CASE state # "FINISHED"
  <2>1. EndQueued
    BY <1>5, <1>7 DEF Over
  <2>2. Rest' = Rest /\ Rest = <<>>
    BY <1>2, <2>1, RestEmpty DEF EndQueued
  <2>3. EndAtHand'
    BY <1>2, <2>1, <2>2 DEF EndQueued, EndAtHand, AtEnd, Sent, SawBegin
  <2>4. Advances
    <3>1. ~Unsent'
      BY <2>3 DEF EndAtHand, Sent, Unsent
    <3> QED BY <1>2, <3>1 DEF Advances
  <2>5. Heads(stack'[w], Step("finished"), Push(Step("unlock"), Loop))
    <3>1. stack'[w] = <<Step("finished"), Step("unlock"), Step("get")>> \o <<>>
      BY <1>1, <1>4, <1>7
    <3> QED BY <1>4, <3>1 DEF Resumed1, Loop
  <2>6. w # None
    BY ThreadsAssumption DEF Threads
  <2>7. Service(Step("finished"), Push(Step("unlock"), Loop))'
    BY <1>2, <1>7, <2>3, <2>6 DEF Service, Step
  <2>8. Do(w, p) /\ taskLock' \in {taskLock, w}
    BY <1>1, <1>2, <1>7
  <2> QED BY <2>4, <2>5, <2>7, <2>8, AttendsNext
<1> QED BY <1>6, <1>7

\* A request that change() accepts enters its state, and no other.
LEMMA Requested ==
  ASSUME NEW t \in Threads, Change(t), <<state, Arg(t)>> \in Allowed, state # "PAUSED"
  PROVE  Do(t, <<<<"enter", Arg(t)>>>>)
<1>1. Route(state, Arg(t)) = <<Arg(t)>>
  BY DEF Route
<1>2. PICK r : r = Route(state, Arg(t))
  OBVIOUS
<1>3. DOMAIN r = {1} /\ r[1] = Arg(t)
  BY <1>1, <1>2
<1>4. [i \in DOMAIN r |-> <<"enter", r[i]>>] = <<<<"enter", Arg(t)>>>>
  BY <1>3
<1>5. Do(t, [i \in DOMAIN r |-> <<"enter", r[i]>>])
  BY <1>2 DEF Change
<1> QED BY <1>4, <1>5

LEMMA ChangeServes ==
  ASSUME NEW c \in Users, NEW w \in Workers, NEW e, NEW q, Attends(c, w, e, q), Change(w)
  PROVE  StillServed(w)
<1>1. PICK p : Do(w, p)
  BY DEF Change
<1>2. /\ e[1] = "change" /\ Arg(w) = e[2] /\ Service(e, q) /\ Steady
  <2>1. stack[w][1][1] = "change" /\ Steady
    BY DEF Change, At, Steady
  <2> QED BY <1>1, <2>1, Attending DEF Attends
<1>3. \/ e[2] = "RUNNING" /\ q = Loop /\ Begun
      \/ e[2] = "STOPPED" /\ q = ToTell /\ Ended
      \/ e[2] = "FINISHED" /\ q = ToTell /\ Stopped
  BY <1>2, ServiceLines
<1>4. <<state, Arg(w)>> \in Allowed /\ state # "PAUSED"
  <2>1. \/ state = "SESSION_STARTING" /\ e[2] = "RUNNING"
        \/ state = "SESSION_STOPPING" /\ e[2] = "STOPPED"
        \/ state = "STOPPED" /\ e[2] = "FINISHED"
    BY <1>3 DEF Begun, Starts, Ended, Stopped
  <2> QED BY <1>2, <2>1 DEF Allowed
<1>5. Do(w, <<<<"enter", e[2]>>>>)
  <2>1. w \in Threads
    BY DEF Threads
  <2>2. Do(w, <<<<"enter", Arg(w)>>>>)
    BY <1>4, <2>1, Requested
  <2> QED BY <1>2, <2>2
<1>6. Heads(stack'[w], <<"enter", e[2]>>, q)
  <2>1. PICK f : f = <<"enter", e[2]>>
    OBVIOUS
  <2>2. Do(w, <<f>>)
    BY <1>5, <2>1
  <2>3. Heads(stack'[w], f, q)
    BY <2>2, Attending DEF Resumed1
  <2> QED BY <2>1, <2>3
<1>7. Service(<<"enter", e[2]>>, q)'
  BY <1>2, <1>3, SteadyKept, PhasesKept DEF Service
<1> QED BY <1>2, <1>5, <1>6, <1>7, SteadyKept, AttendsOn

LEMMA EnterServes ==
  ASSUME NEW c \in Users, NEW w \in Workers, NEW e, NEW q, Attends(c, w, e, q),
         EnterRunning(w) \/ EnterStopped(w) \/ EnterFinished(w)
  PROVE  StillServed(w)
<1>0. Mode = "ACTIVE"
  BY DEF Attends, Sound, ControlledBy, Mode
<1>1. CASE EnterRunning(w)
  <2>1. /\ Do(w, <<<<"set", "RUNNING">>>>) /\ Steady /\ stack[w][1][1] = "enter"
        /\ Arg(w) = "RUNNING"
    BY <1>1 DEF EnterRunning, At, Steady
  <2>2. e[1] = "enter" /\ e[2] = "RUNNING" /\ Service(e, q)
    BY <2>1, Attending DEF Attends
  <2>3. q = Loop /\ Begun
    BY <2>2, ServiceLines
  <2>4. Heads(stack'[w], <<"set", "RUNNING">>, Loop)
    <3>1. PICK f : f = <<"set", "RUNNING">>
      OBVIOUS
    <3>2. Do(w, <<f>>)
      BY <2>1, <3>1
    <3>3. Heads(stack'[w], f, q)
      BY <3>2, Attending DEF Resumed1
    <3> QED BY <2>3, <3>1, <3>3
  <2>5. Service(<<"set", "RUNNING">>, Loop)'
    BY <2>1, <2>3, SteadyKept, PhasesKept DEF Service
  <2> QED BY <2>1, <2>4, <2>5, SteadyKept, AttendsOn
<1>2. CASE EnterFinished(w)
  <2>1. /\ Do(w, <<<<"set", "FINISHED">>>>) /\ Steady /\ stack[w][1][1] = "enter"
        /\ Arg(w) = "FINISHED"
    BY <1>0, <1>2 DEF EnterFinished, At, Steady
  <2>2. e[1] = "enter" /\ e[2] = "FINISHED" /\ Service(e, q)
    BY <2>1, Attending DEF Attends
  <2>3. q = ToTell /\ Stopped
    BY <2>2, ServiceLines
  <2>4. Heads(stack'[w], <<"set", "FINISHED">>, ToTell)
    <3>1. PICK f : f = <<"set", "FINISHED">>
      OBVIOUS
    <3>2. Do(w, <<f>>)
      BY <2>1, <3>1
    <3>3. Heads(stack'[w], f, q)
      BY <3>2, Attending DEF Resumed1
    <3> QED BY <2>3, <3>1, <3>3
  <2>5. Service(<<"set", "FINISHED">>, ToTell)'
    BY <2>1, <2>3, SteadyKept, PhasesKept DEF Service
  <2> QED BY <2>1, <2>4, <2>5, SteadyKept, AttendsOn
<1>3. CASE EnterStopped(w)
  <2>1. /\ Do(w, <<<<"change", "FINISHED">>>>) /\ stack[w][1][1] = "enter"
        /\ Arg(w) = "STOPPED" /\ state' = "STOPPED"
        /\ log' = log /\ queue' = queue /\ taskLock' = taskLock
        /\ sessionEndSent' = sessionEndSent /\ sessionEndProcessed' = sessionEndProcessed
        /\ threadIds' = threadIds /\ thrCount' = thrCount /\ sessionData' = sessionData
        /\ app' = app /\ failed' = failed /\ aborted' = aborted
    BY <1>3 DEF EnterStopped, At
  <2>2. e[1] = "enter" /\ e[2] = "STOPPED" /\ Service(e, q)
    BY <2>1, Attending DEF Attends
  <2>3. q = ToTell /\ Ended
    BY <2>2, ServiceLines
  <2>4. Rest' = Rest
    BY <2>1, RestEmpty
  <2>5. Stopped'
    BY <2>1, <2>3, <2>4 DEF Ended, Stopped, Done, SawEnd, MayStop
  <2>6. Advances
    <3>1. ~Unsent' /\ state = "SESSION_STOPPING"
      BY <2>3, <2>5 DEF Ended, Stopped, Done, Unsent
    <3> QED BY <2>1, <3>1 DEF Advances
  <2>7. Heads(stack'[w], <<"change", "FINISHED">>, ToTell)
    <3>1. PICK f : f = <<"change", "FINISHED">>
      OBVIOUS
    <3>2. Do(w, <<f>>)
      BY <2>1, <3>1
    <3>3. Heads(stack'[w], f, q)
      BY <3>2, Attending DEF Resumed1
    <3> QED BY <2>3, <3>1, <3>3
  <2>8. Service(<<"change", "FINISHED">>, ToTell)'
    BY <2>5 DEF Service
  <2> QED BY <2>1, <2>6, <2>7, <2>8, AttendsNext
<1> QED BY <1>1, <1>2, <1>3

LEMMA SetStateServes ==
  ASSUME NEW c \in Users, NEW w \in Workers, NEW e, NEW q, Attends(c, w, e, q), SetState(w)
  PROVE  StillServed(w)
<1>1. /\ Do(w, <<>>) /\ stack[w][1][1] = "set" /\ state' = Arg(w)
      /\ log' = log /\ queue' = queue /\ taskLock' = taskLock /\ queueActive' = queueActive
      /\ sessionEndSent' = sessionEndSent /\ sessionEndProcessed' = sessionEndProcessed
      /\ threadIds' = threadIds /\ thrCount' = thrCount /\ sessionData' = sessionData
      /\ app' = app /\ failed' = failed /\ aborted' = aborted /\ abortSent' = abortSent
  BY DEF SetState, At
<1>2. e[1] = "set" /\ state' = e[2] /\ Service(e, q) /\ stack'[w] = q
  BY <1>1, Attending DEF Attends
<1>3. \/ e[2] = "RUNNING" /\ q = Loop /\ Begun
      \/ e[2] = "FINISHED" /\ q = ToTell /\ Stopped
  BY <1>2, ServiceLines
<1>4. Rest' = Rest
  BY <1>1, RestEmpty
<1>5. CASE e[2] = "RUNNING" /\ q = Loop /\ Begun
  <2>1. Going'
    BY <1>1, <1>2, <1>4, <1>5 DEF Begun, Starts, Going, Unsent, SawBegin
  <2>2. Advances
    <3>1. state = "SESSION_STARTING" /\ state' = "RUNNING" /\ ~Settled
      BY <1>2, <1>5 DEF Begun, Starts, Settled, Later
    <3> QED BY <1>1, <3>1 DEF Advances
  <2>3. Heads(stack'[w], Step("get"), <<>>)
    BY <1>2, <1>5, Tails
  <2>4. Service(Step("get"), <<>>)'
    BY <2>1 DEF Service, OnLoop, Looping, Step
  <2> QED BY <1>1, <2>2, <2>3, <2>4, AttendsNext
<1>6. CASE e[2] = "FINISHED" /\ q = ToTell /\ Stopped
  <2>1. Finishing'
    BY <1>1, <1>2, <1>4, <1>6 DEF Stopped, Finishing, Done, SawEnd, MayStop
  <2>2. Advances
    <3>1. state = "STOPPED" /\ state' = "FINISHED" /\ ~Unsent'
      BY <1>1, <1>2, <1>6, <2>1 DEF Stopped, Finishing, Done, Unsent
    <3> QED BY <1>1, <3>1 DEF Advances
  <2>3. Heads(stack'[w], Step("session_end"), ToStop)
    BY <1>2, <1>6, Tails
  <2>4. Service(Step("session_end"), ToStop)'
    BY <2>1 DEF Service, Step
  <2> QED BY <1>1, <2>2, <2>3, <2>4, AttendsNext
<1> QED BY <1>3, <1>5, <1>6

\* The worker goes on with one step, or with what it had to do before.
LEMMA AttendsOne ==
  ASSUME NEW c \in Users, NEW w \in Workers, NEW e, NEW q, Attends(c, w, e, q), NEW p, Do(w, p)
  PROVE  /\ p = <<>> => stack'[w] = q
         /\ \A f : p = <<f>> => Heads(stack'[w], f, q)
         /\ \A f, g : p = <<f, g>> => Heads(stack'[w], f, Push(g, q))
<1>1. Resumed1(stack'[w], q) /\ stack'[w] = p \o q /\ (p = <<>> => stack'[w] = q)
  BY Attending
<1>2. ASSUME NEW f, p = <<f>> PROVE Heads(stack'[w], f, q)
  BY <1>1, <1>2 DEF Resumed1
<1>3. ASSUME NEW f, NEW g, p = <<f, g>> PROVE Heads(stack'[w], f, Push(g, q))
  BY <1>1, <1>3 DEF Resumed1
<1> QED BY <1>1, <1>2, <1>3

LEMMA HandleServes ==
  ASSUME NEW c \in Users, NEW w \in Workers, NEW e, NEW q, Attends(c, w, e, q), Handle(w)
  PROVE  StillServed(w)
<1>1. PICK p : Do(w, p) /\ p = CASE Arg(w) = "CONTROL_ABORT" -> <<>>
                [] Arg(w) = "ABORT" -> <<<<"change", "SESSION_STOPPING">>, Step("process_end"),
                                    <<"deliver", "ABORT">>>>
                [] Arg(w) = "END"   -> <<Step("process_end"), <<"deliver", "END">>>>
                [] OTHER       -> <<<<"deliver", Arg(w)>>>>
  BY DEF Handle
<1>2. Do(w, p) /\ stack[w][1][1] = "handle"
  BY <1>1 DEF Handle, At
<1>3. /\ e[1] = "handle" /\ Arg(w) = e[2] /\ Service(e, q) /\ sessionData
      /\ queue \in Seq(Kinds)
  BY <1>2, Attending DEF Attends, Counted, Alone
<1>4. /\ app' = app /\ state' = state /\ queueActive' = queueActive /\ log' = log
      /\ sessionEndSent' = sessionEndSent /\ sessionEndProcessed' = sessionEndProcessed
      /\ sessionData' = sessionData /\ threadIds' = threadIds /\ thrCount' = thrCount
      /\ aborted' = aborted /\ failed' = failed /\ taskLock' = taskLock
      /\ abortSent' = abortSent
      /\ queue' = IF e[2] = "CONTROL_ABORT" THEN Without(queue, {"DATA"}) ELSE queue
  BY <1>3 DEF Handle, Check, FlushData
<1>5. /\ p = <<>> => stack'[w] = q
      /\ \A f : p = <<f>> => Heads(stack'[w], f, q)
      /\ \A f, g : p = <<f, g>> => Heads(stack'[w], f, Push(g, q))
  BY <1>2, AttendsOne
<1>6. \/ e[2] \in {"DATA", "CONTROL_ABORT"} /\ q = Loop /\ Looping
      \/ e[2] = "BEGIN" /\ q = Loop /\ Taken
      \/ e[2] = "END" /\ q = ToStop /\ EndAtHand
      \/ e[2] = "CONTROL_ABORT" /\ q = Push(Step("abort_sent"), ToLeave) /\ (Leaving \/ Over)
      \/ /\ e[2] = "CONTROL_ABORT" /\ EndTaken
         /\ q = Push(Step("abort_sent"), Push(Step("put_stop_head"), ToDeliver))
  BY <1>3, ServiceLines
<1>7. CASE e[2] = "CONTROL_ABORT"
  <2>1. stack'[w] = q
    BY <1>1, <1>3, <1>5, <1>7
  <2>2. Rest' = Rest /\ (queue = <<>> => queue' = <<>>)
    BY <1>3, <1>4, <1>7, RestFlushed, WithoutEmpty
  <2>3. Kept
    BY <1>4, <2>2 DEF Kept
  <2>4. CASE q = Loop /\ Looping
    <3>1. Heads(stack'[w], Step("get"), <<>>)
      BY <2>1, <2>4, Tails
    <3>2. Service(Step("get"), <<>>)'
      BY <2>3, <2>4, PhasesKept DEF Service, OnLoop, Looping, Step
    <3> QED BY <1>2, <2>3, <3>1, <3>2, AttendsOn
  <2>5. CASE q = Push(Step("abort_sent"), ToLeave) /\ (Leaving \/ Over)
    <3>1. Heads(stack'[w], Step("abort_sent"), ToLeave)
      BY <2>1, <2>5, Tails
    <3>2. Service(Step("abort_sent"), ToLeave)'
      BY <2>3, <2>5, PhasesKept DEF Service, Aborting, Step
    <3> QED BY <1>2, <2>3, <3>1, <3>2, AttendsOn
  <2>6. CASE q = Push(Step("abort_sent"), Push(Step("put_stop_head"), ToDeliver)) /\ EndTaken
    <3>1. Heads(stack'[w], Step("abort_sent"), Push(Step("put_stop_head"), ToDeliver))
      BY <2>1, <2>6, Tails
    <3>2. Service(Step("abort_sent"), Push(Step("put_stop_head"), ToDeliver))'
      BY <2>3, <2>6, PhasesKept DEF Service, Aborting, Step
    <3> QED BY <1>2, <2>3, <3>1, <3>2, AttendsOn
  <2> QED BY <1>6, <1>7, <2>4, <2>5, <2>6
<1>8. CASE e[2] # "CONTROL_ABORT"
  <2>1. Steady
    BY <1>4, <1>8 DEF Steady
  <2>2. CASE e[2] \in {"DATA", "BEGIN"}
    <3>1. PICK f : f = <<"deliver", e[2]>>
      OBVIOUS
    <3>2. p = <<f>>
      BY <1>1, <1>3, <2>2, <3>1
    <3>3. Heads(stack'[w], <<"deliver", e[2]>>, Loop)
      BY <1>5, <1>6, <2>2, <3>1, <3>2
    <3>4. Service(<<"deliver", e[2]>>, Loop)'
      <4>1. \/ e[2] = "DATA" /\ Looping
            \/ e[2] = "BEGIN" /\ Taken
        BY <1>6, <2>2
      <4> QED BY <2>1, <4>1, SteadyKept, PhasesKept DEF Service, OnLoop, Looping
    <3> QED BY <1>2, <2>1, <3>3, <3>4, SteadyKept, AttendsOn
  <2>3. CASE e[2] = "END"
    <3>1. PICK f : f = <<"deliver", "END">>
      OBVIOUS
    <3>2. p = <<Step("process_end"), f>>
      BY <1>1, <1>3, <2>3, <3>1
    <3>3. ToDeliver = Push(f, ToStop) /\ q = ToStop /\ EndAtHand
      BY <1>6, <2>3, <3>1 DEF ToDeliver
    <3>4. Heads(stack'[w], Step("process_end"), ToDeliver)
      BY <1>5, <3>2, <3>3
    <3>5. Service(Step("process_end"), ToDeliver)'
      BY <2>1, <3>3, SteadyKept, PhasesKept DEF Service, Step
    <3> QED BY <1>2, <2>1, <3>4, <3>5, SteadyKept, AttendsOn
  <2> QED BY <1>6, <1>8, <2>2, <2>3
<1> QED BY <1>7, <1>8

LEMMA DeliverServes ==
  ASSUME NEW c \in Users, NEW w \in Workers, NEW e, NEW q, Attends(c, w, e, q), Deliver(w)
  PROVE  StillServed(w)
<1>1. ~app.modulesAbort /\ ~app.downstreamFails
  BY DEF Attends, Sound, ControlledBy
<1>2. PICK p : Do(w, p) /\ p = IF Arg(w) = "DATA" THEN <<>> ELSE <<<<"event", Arg(w)>>>>
  BY <1>1 DEF Deliver
<1>3. Do(w, p) /\ stack[w][1][1] = "deliver"
  BY <1>2 DEF Deliver, At
<1>4. e[1] = "deliver" /\ Arg(w) = e[2] /\ Service(e, q) /\ Unlogged
  BY <1>3, Attending DEF Attends
<1>5. /\ app' = app /\ state' = state /\ queueActive' = queueActive
      /\ sessionEndSent' = sessionEndSent /\ sessionEndProcessed' = sessionEndProcessed
      /\ sessionData' = sessionData /\ threadIds' = threadIds /\ thrCount' = thrCount
      /\ aborted' = aborted /\ failed' = failed /\ taskLock' = taskLock
      /\ abortSent' = abortSent /\ queue' = queue
      /\ IF e[2] = "DATA" THEN log' = log ELSE Count(e[2])
  BY <1>4 DEF Deliver
<1>6. /\ p = <<>> => stack'[w] = q
      /\ \A f : p = <<f>> => Heads(stack'[w], f, q)
  BY <1>3, AttendsOne
<1>7. \/ e[2] = "DATA" /\ q = Loop /\ Looping
      \/ e[2] = "BEGIN" /\ q = Loop /\ Taken
      \/ e[2] = "END" /\ q = ToStop /\ EndPassed
  BY <1>4, ServiceLines
<1>8. Rest' = Rest
  BY <1>5, RestEmpty
<1>9. CASE e[2] = "DATA"
  <2>1. Steady
    BY <1>5, <1>9 DEF Steady
  <2>2. q = Loop /\ Looping
    BY <1>7, <1>9
  <2>3. Heads(stack'[w], Step("get"), <<>>)
    BY <1>2, <1>4, <1>6, <1>9, <2>2, Tails
  <2>4. Service(Step("get"), <<>>)'
    BY <2>1, <2>2, SteadyKept, PhasesKept DEF Service, OnLoop, Looping, Step
  <2> QED BY <1>3, <2>1, <2>3, <2>4, SteadyKept, AttendsOn
<1>10. CASE e[2] \in {"BEGIN", "END"}
  <2>1. PICK f : f = <<"event", e[2]>>
    OBVIOUS
  <2>2. p = <<f>>
    BY <1>2, <1>4, <1>10, <2>1
  <2>3. Heads(stack'[w], <<"event", e[2]>>, q)
    BY <1>6, <2>1, <2>2
  <2>4. \/ e[2] = "BEGIN" /\ q = Loop /\ Begun'
        \/ e[2] = "END" /\ q = ToStop /\ Ended'
    <3>1. CASE e[2] = "BEGIN"
      <4>1. Taken /\ q = Loop
        BY <1>7, <3>1
      <4>2. SawBegin'
        BY <1>4, <1>5, <3>1, <4>1, Counted1 DEF Taken
      <4> QED BY <1>5, <1>8, <3>1, <4>1, <4>2 DEF Taken, Begun, Starts, Unsent
    <3>2. CASE e[2] = "END"
      <4>1. EndPassed /\ q = ToStop
        BY <1>7, <3>2
      <4>2. SawEnd'
        BY <1>4, <1>5, <3>2, <4>1, Counted1 DEF EndPassed, AtEnd
      <4> QED BY <1>5, <1>8, <3>2, <4>1, <4>2 DEF EndPassed, AtEnd, Ended, Done, MayStop
    <3> QED BY <1>10, <3>1, <3>2
  <2>5. Service(<<"event", e[2]>>, q)'
    BY <2>4 DEF Service
  <2>6. log'["ABORT"] = log["ABORT"]
    BY <1>4, <1>5, <1>10 DEF Count, Unlogged, Events
  <2>7. Settled => ~(Unsent /\ Rest = <<"STOP">>)'
    BY <1>5, <1>8 DEF Settled, Unsent
  <2>8. Advances
    BY <1>5, <2>6, <2>7 DEF Advances
  <2> QED BY <1>3, <1>5, <2>3, <2>5, <2>8, AttendsNext
<1> QED BY <1>7, <1>9, <1>10

LEMMA OnEventServes ==
  ASSUME NEW c \in Users, NEW w \in Workers, NEW e, NEW q, Attends(c, w, e, q), OnEvent(w)
  PROVE  StillServed(w)
<1>1. PICK p : Do(w, p)
  BY DEF OnEvent
<1>2. stack[w][1][1] = "event" /\ Steady
  BY DEF OnEvent, At, Steady
<1>3. e[1] = "event" /\ Arg(w) = e[2] /\ Service(e, q)
  BY <1>1, <1>2, Attending DEF Attends
<1>4. \/ e[2] = "BEGIN" /\ q = Loop /\ Begun
      \/ e[2] = "END" /\ q = ToStop /\ Ended
  BY <1>3, ServiceLines
<1>5. CASE e[2] = "BEGIN"
  <2>1. PICK f : f = <<"change", "RUNNING">>
    OBVIOUS
  <2>2. Do(w, <<f>>)
    BY <1>3, <1>5, <2>1 DEF OnEvent
  <2>3. Heads(stack'[w], <<"change", "RUNNING">>, Loop)
    BY <1>4, <1>5, <2>1, <2>2, AttendsOne
  <2>4. Service(<<"change", "RUNNING">>, Loop)'
    BY <1>2, <1>4, <1>5, SteadyKept, PhasesKept DEF Service
  <2> QED BY <1>2, <2>2, <2>3, <2>4, SteadyKept, AttendsOn
<1>6. CASE e[2] = "END"
  <2>0. Rank[state] = Rank["SESSION_STOPPING"] /\ state = "SESSION_STOPPING"
    BY <1>4, <1>6 DEF Ended
  <2>1. ~(Rank[state] > Rank["SESSION_STOPPING"]) /\ state # "RUNNING"
    BY <2>0 DEF Rank
  <2>2. PICK f : f = <<"change", "STOPPED">>
    OBVIOUS
  <2>3. Do(w, <<f, Step("session_end")>>)
    BY <1>3, <1>6, <2>1, <2>2 DEF OnEvent
  <2>4. ToTell = Push(Step("session_end"), ToStop) /\ q = ToStop /\ Ended
    BY <1>4, <1>6 DEF ToTell
  <2>5. Heads(stack'[w], <<"change", "STOPPED">>, ToTell)
    BY <2>2, <2>3, <2>4, AttendsOne
  <2>6. Service(<<"change", "STOPPED">>, ToTell)'
    BY <1>2, <2>4, SteadyKept, PhasesKept DEF Service
  <2> QED BY <1>2, <2>3, <2>5, <2>6, SteadyKept, AttendsOn
<1> QED BY <1>4, <1>5, <1>6

LEMMA ProcessEndServes ==
  ASSUME NEW c \in Users, NEW w \in Workers, NEW e, NEW q, Attends(c, w, e, q), ProcessEnd(w)
  PROVE  StillServed(w)
<1>1. PICK p : Do(w, p) /\ p = IF sessionEndProcessed \/ Inline THEN <<>> ELSE <<Step("put_stop")>>
  BY DEF ProcessEnd
<1>2. /\ Do(w, p) /\ stack[w][1][1] = "process_end"
      /\ app' = app /\ state' = state /\ sessionEndProcessed' /\ log' = log
      /\ sessionData' = sessionData /\ threadIds' = threadIds /\ thrCount' = thrCount
      /\ aborted' = aborted /\ failed' = failed /\ taskLock' = taskLock
      /\ queue' = queue
  BY <1>1 DEF ProcessEnd, At
<1>3. e[1] = "process_end" /\ Service(e, q)
  BY <1>2, Attending DEF Attends
<1>4. q = ToDeliver /\ EndAtHand
  BY <1>3, ServiceLines
<1>5. p = <<Step("put_stop")>>
  <2>1. ~sessionEndProcessed
    BY <1>4 DEF EndAtHand, Sent
  <2>2. ~Inline
    BY DEF Attends, Sound, ControlledBy, Inline, Mode
  <2> QED BY <1>1, <2>1, <2>2
<1>6. Rest' = Rest
  BY <1>2, RestEmpty
<1>7. EndTaken'
  BY <1>2, <1>4, <1>6 DEF EndAtHand, EndTaken, AtEnd, Done, SawBegin
<1>8. Advances
  <2>1. ~Unsent'
    BY <1>2 DEF Unsent
  <2> QED BY <1>2, <2>1 DEF Advances
<1>9. Heads(stack'[w], Step("put_stop"), ToDeliver)
  BY <1>2, <1>4, <1>5, AttendsOne
<1>10. Service(Step("put_stop"), ToDeliver)'
  BY <1>7 DEF Service, Step
<1> QED BY <1>2, <1>8, <1>9, <1>10, AttendsNext

LEMMA SessionEndServes ==
  ASSUME NEW c \in Users, NEW w \in Workers, NEW e, NEW q, Attends(c, w, e, q), SessionEnd(w)
  PROVE  StillServed(w)
<1>1. /\ Do(w, <<>>) /\ stack[w][1][1] = "session_end" /\ Count("NOTIFIED")
      /\ app' = app /\ state' = state /\ sessionEndProcessed' = sessionEndProcessed
      /\ sessionData' = sessionData /\ threadIds' = threadIds /\ thrCount' = thrCount
      /\ aborted' = aborted /\ failed' = failed /\ taskLock' = taskLock
      /\ queue' = queue
  BY DEF SessionEnd, At
<1>2. e[1] = "session_end" /\ Service(e, q) /\ Unlogged /\ stack'[w] = q
  BY <1>1, Attending DEF Attends
<1>3. q = ToStop /\ Finishing
  BY <1>2, ServiceLines
<1>4. Rest' = Rest
  BY <1>1, RestEmpty
<1>5. SawAll' /\ log'["ABORT"] = log["ABORT"]
  <2>1. SawAll' /\ Unlogged'
    BY <1>1, <1>2, <1>3, Counted1 DEF Finishing
  <2> QED BY <1>2, <2>1 DEF Unlogged
<1>6. Over'
  BY <1>1, <1>3, <1>4, <1>5 DEF Finishing, Over, Done, MayStop
<1>7. Advances
  <2>1. ~Unsent'
    BY <1>6 DEF Over, Done, Unsent
  <2> QED BY <1>1, <1>5, <2>1 DEF Advances
<1>8. Heads(stack'[w], Step("stop_processing"), Loop)
  BY <1>2, <1>3, Tails
<1>9. Service(Step("stop_processing"), Loop)'
  BY <1>6 DEF Service, Step
<1> QED BY <1>1, <1>7, <1>8, <1>9, AttendsNext

LEMMA PutServes ==
  ASSUME NEW c \in Users, NEW w \in Workers, NEW e, NEW q, Attends(c, w, e, q), Put(w)
  PROVE  StillServed(w)
<1>0. ~Inline
  BY DEF Attends, Sound, ControlledBy, Inline, Mode
<1>1. Do(w, <<>>) /\ stack[w][1][1] = "put"
  BY <1>0 DEF Put, At
<1>2. /\ e[1] = "put" /\ Arg(w) = e[2] /\ Service(e, q) /\ stack'[w] = q
      /\ sessionData /\ queue \in Seq(Kinds)
  BY <1>1, Attending DEF Attends, Counted, Alone
<1>3. e[2] = "END" /\ q = Loop /\ EndAtHand
  BY <1>2, ServiceLines
<1>4. /\ queue' = IF queueActive THEN Append(queue, "END") ELSE queue
      /\ app' = app /\ state' = state /\ queueActive' = queueActive /\ log' = log
      /\ sessionEndSent' = sessionEndSent /\ sessionEndProcessed' = sessionEndProcessed
      /\ sessionData' = sessionData /\ threadIds' = threadIds /\ thrCount' = thrCount
      /\ aborted' = aborted /\ failed' = failed /\ taskLock' = taskLock
  BY <1>0, <1>2, <1>3 DEF Put, Enqueue
<1>5. Rest' = IF queueActive THEN <<"END">> ELSE <<>>
  <2>1. Rest = <<>> /\ "END" \in Kinds /\ "END" \notin Overlooked
    BY <1>3 DEF EndAtHand, Kinds, Overlooked
  <2>2. CASE queueActive
    BY <1>2, <1>4, <2>1, <2>2, RestAppends
  <2>3. CASE ~queueActive
    BY <1>4, <2>1, <2>3, RestEmpty
  <2> QED BY <2>2, <2>3
<1>6. EndQueued'
  BY <1>3, <1>4, <1>5 DEF EndAtHand, EndQueued, AtEnd, Sent, SawBegin
<1>7. Advances
  <2>1. ~Unsent'
    BY <1>3, <1>4 DEF EndAtHand, Sent, Unsent
  <2> QED BY <1>4, <2>1 DEF Advances
<1>8. Heads(stack'[w], Step("get"), <<>>)
  BY <1>2, <1>3, Tails
<1>9. Service(Step("get"), <<>>)'
  BY <1>6 DEF Service, OnLoop, Looping, Step
<1> QED BY <1>1, <1>4, <1>7, <1>8, <1>9, AttendsNext

LEMMA PutStopServes ==
  ASSUME NEW c \in Users, NEW w \in Workers, NEW e, NEW q, Attends(c, w, e, q),
         PutStop(w) \/ PutStopHead(w)
  PROVE  StillServed(w)
<1>1. PICK p : Do(w, p) /\ p = IF PutStop(w) /\ isHighPriorityStop
                               THEN <<Step("abort"), Step("put_stop_head")>> ELSE <<>>
  <2>1. CASE PutStop(w)
    BY <2>1 DEF PutStop
  <2>2. CASE ~PutStop(w)
    BY <2>2 DEF PutStopHead
  <2> QED BY <2>1, <2>2
<1>2. Do(w, p) /\ stack[w][1][1] \in {"put_stop", "put_stop_head"}
  BY <1>1 DEF PutStop, PutStopHead, At
<1>3. e[1] \in {"put_stop", "put_stop_head"} /\ Service(e, q) /\ queue \in Seq(Kinds)
      /\ threadIds # {}
  BY <1>2, Attending DEF Attends, Counted
<1>4. q = ToDeliver /\ EndTaken
  BY <1>3, ServiceLines
<1>5. /\ app' = app /\ state' = state /\ queueActive' = queueActive /\ log' = log
      /\ sessionEndSent' = sessionEndSent /\ sessionEndProcessed' = sessionEndProcessed
      /\ sessionData' = sessionData /\ threadIds' = threadIds /\ thrCount' = thrCount
      /\ aborted' = aborted /\ failed' = failed /\ taskLock' = taskLock
      /\ abortSent' = abortSent
  BY DEF PutStop, PutStopHead
<1>6. CASE PutStop(w) /\ isHighPriorityStop
  <2>1. Steady
    BY <1>5, <1>6 DEF PutStop, Steady
  <2>2. Heads(stack'[w], Step("abort"), Push(Step("put_stop_head"), ToDeliver))
    BY <1>1, <1>4, <1>6, AttendsOne
  <2>3. Service(Step("abort"), Push(Step("put_stop_head"), ToDeliver))'
    BY <1>4, <2>1, SteadyKept, PhasesKept DEF Service, Aborting, Step
  <2> QED BY <1>2, <2>1, <2>2, <2>3, SteadyKept, AttendsOn
<1>7. CASE ~(PutStop(w) /\ isHighPriorityStop)
  <2>1. \/ queue' = queue
        \/ queue' = Append(queue, "STOP")
        \/ queue' = <<"STOP">> \o queue
    <3>1. CASE PutStop(w)
      BY <1>7, <3>1 DEF PutStop, Enqueue
    <3>2. CASE PutStopHead(w)
      BY <1>3, <3>2 DEF PutStopHead, EnqueueHead
    <3> QED BY <3>1, <3>2
  <2>2. Rest' = <<"STOP">> \/ Rest' = <<>>
    <3>1. Rest = <<>> /\ "STOP" \in Kinds /\ "STOP" \notin Overlooked
      BY <1>4 DEF EndTaken, Kinds, Overlooked
    <3>2. CASE queue' = queue
      BY <3>1, <3>2, RestEmpty
    <3>3. CASE queue' = Append(queue, "STOP")
      BY <1>3, <3>1, <3>3, RestAppends
    <3>4. CASE queue' = <<"STOP">> \o queue
      BY <1>3, <3>1, <3>4, RestPrepends
    <3> QED BY <2>1, <3>2, <3>3, <3>4
  <2>3. EndPassed'
    BY <1>4, <1>5, <2>2 DEF EndTaken, EndPassed, AtEnd, Done, MayStop, SawBegin
  <2>4. Advances
    <3>1. ~Unsent'
      BY <2>3 DEF EndPassed, Done, Unsent
    <3> QED BY <1>5, <3>1 DEF Advances
  <2>5. Heads(stack'[w], <<"deliver", "END">>, ToStop)
    BY <1>1, <1>4, <1>7, AttendsOne, Tails
  <2>6. Service(<<"deliver", "END">>, ToStop)'
    BY <2>3 DEF Service
  <2> QED BY <1>2, <1>5, <2>4, <2>5, <2>6, AttendsNext
<1> QED BY <1>6, <1>7

LEMMA ControlAbortServes ==
  ASSUME NEW c \in Users, NEW w \in Workers, NEW e, NEW q, Attends(c, w, e, q), ControlAbort(w)
  PROVE  StillServed(w)
<1>1. PICK p : Do(w, p) /\ \/ p = <<Step("abort_sent")>>
                           \/ p = <<>>
                           \/ p = <<<<"handle", "CONTROL_ABORT">>, Step("abort_sent")>>
  BY DEF ControlAbort, ControlAbortIf
<1>2. /\ Do(w, p) /\ stack[w][1][1] = "abort"
      /\ app' = app /\ state' = state /\ queueActive' = queueActive /\ log' = log
      /\ sessionEndSent' = sessionEndSent /\ sessionEndProcessed' = sessionEndProcessed
      /\ sessionData' = sessionData /\ threadIds' = threadIds /\ thrCount' = thrCount
      /\ aborted' = aborted /\ failed' = failed /\ taskLock' = taskLock
      /\ abortSent' = abortSent
      /\ queue' = queue \/ (queue' = <<"CONTROL_ABORT">> \o queue /\ queueActive)
  BY <1>1 DEF ControlAbort, ControlAbortIf, EnqueueHead, At
<1>3. e[1] = "abort" /\ Service(e, q) /\ queue \in Seq(Kinds)
  BY <1>2, Attending DEF Attends
<1>4. \/ q = ToLeave /\ (Leaving \/ Over)
      \/ q = Push(Step("put_stop_head"), ToDeliver) /\ EndTaken
  BY <1>3, ServiceLines
<1>5. Rest' = Rest
  <2>1. "CONTROL_ABORT" \in Kinds /\ "CONTROL_ABORT" \in Overlooked
    BY DEF Kinds, Overlooked
  <2>2. CASE queue' = queue
    BY <2>2, RestEmpty
  <2>3. CASE queue' = <<"CONTROL_ABORT">> \o queue
    BY <1>3, <2>1, <2>3, RestPrepends
  <2> QED BY <1>2, <2>2, <2>3
<1>6. Kept
  BY <1>2, <1>5 DEF Kept
<1>7. Service(Step("abort_sent"), q)'
  BY <1>4, <1>6, PhasesKept DEF Service, Aborting, Step
<1>8. CASE p = <<Step("abort_sent")>>
  <2>1. Heads(stack'[w], Step("abort_sent"), q)
    BY <1>2, <1>8, AttendsOne
  <2> QED BY <1>2, <1>6, <1>7, <2>1, AttendsOn
<1>9. CASE p = <<>>
  <2>1. stack'[w] = q
    BY <1>2, <1>9, AttendsOne
  <2>2. CASE q = ToLeave /\ (Leaving \/ Over)
    <3>1. Heads(stack'[w], Step("leave"), <<>>)
      BY <2>1, <2>2, Tails
    <3>2. Service(Step("leave"), <<>>)'
      BY <1>6, <2>2, PhasesKept DEF Service, Step
    <3> QED BY <1>2, <1>6, <3>1, <3>2, AttendsOn
  <2>3. CASE q = Push(Step("put_stop_head"), ToDeliver) /\ EndTaken
    <3>1. Heads(stack'[w], Step("put_stop_head"), ToDeliver)
      BY <2>1, <2>3, Tails
    <3>2. Service(Step("put_stop_head"), ToDeliver)'
      BY <1>6, <2>3, PhasesKept DEF Service, Step
    <3> QED BY <1>2, <1>6, <3>1, <3>2, AttendsOn
  <2> QED BY <1>4, <2>2, <2>3
<1>10. CASE p = <<<<"handle", "CONTROL_ABORT">>, Step("abort_sent")>>
  <2>1. PICK f : f = <<"handle", "CONTROL_ABORT">>
    OBVIOUS
  <2>2. p = <<f, Step("abort_sent")>>
    BY <1>10, <2>1
  <2>3. Heads(stack'[w], <<"handle", "CONTROL_ABORT">>, Push(Step("abort_sent"), q))
    BY <1>2, <2>1, <2>2, AttendsOne
  <2>4. Service(<<"handle", "CONTROL_ABORT">>, Push(Step("abort_sent"), q))'
    BY <1>4, <1>6, PhasesKept DEF Service, Aborting
  <2> QED BY <1>2, <1>6, <2>3, <2>4, AttendsOn
<1> QED BY <1>1, <1>8, <1>9, <1>10

LEMMA AbortSentServes ==
  ASSUME NEW c \in Users, NEW w \in Workers, NEW e, NEW q, Attends(c, w, e, q), AbortSent(w)
  PROVE  StillServed(w)
<1>1. /\ Do(w, <<>>) /\ stack[w][1][1] = "abort_sent"
      /\ app' = app /\ state' = state /\ queueActive' = queueActive /\ log' = log
      /\ sessionEndSent' = sessionEndSent /\ sessionEndProcessed' = sessionEndProcessed
      /\ sessionData' = sessionData /\ threadIds' = threadIds /\ thrCount' = thrCount
      /\ aborted' = aborted /\ failed' = failed /\ taskLock' = taskLock
      /\ queue' = queue
  BY DEF AbortSent, At
<1>2. e[1] = "abort_sent" /\ Service(e, q) /\ stack'[w] = q
  BY <1>1, Attending DEF Attends
<1>3. \/ q = ToLeave /\ (Leaving \/ Over)
      \/ q = Push(Step("put_stop_head"), ToDeliver) /\ EndTaken
  BY <1>2, ServiceLines
<1>4. state \in Later
  BY <1>3 DEF Leaving, Over, EndTaken, AtEnd, Later
<1>5. Kept
  BY <1>1, <1>4, RestEmpty DEF Kept
<1>6. CASE q = ToLeave /\ (Leaving \/ Over)
  <2>1. Heads(stack'[w], Step("leave"), <<>>)
    BY <1>2, <1>6, Tails
  <2>2. Service(Step("leave"), <<>>)'
    BY <1>5, <1>6, PhasesKept DEF Service, Step
  <2> QED BY <1>1, <1>5, <2>1, <2>2, AttendsOn
<1>7. CASE q = Push(Step("put_stop_head"), ToDeliver) /\ EndTaken
  <2>1. Heads(stack'[w], Step("put_stop_head"), ToDeliver)
    BY <1>2, <1>7, Tails
  <2>2. Service(Step("put_stop_head"), ToDeliver)'
    BY <1>5, <1>7, PhasesKept DEF Service, Step
  <2> QED BY <1>1, <1>5, <2>1, <2>2, AttendsOn
<1> QED BY <1>3, <1>6, <1>7

LEMMA FinishedServes ==
  ASSUME NEW c \in Users, NEW w \in Workers, NEW e, NEW q, Attends(c, w, e, q), Finished(w)
  PROVE  StillServed(w)
<1>1. PICK p : Do(w, p) /\ p = IF state = "FINISHED" THEN <<>> ELSE <<Step("send_end")>>
  BY DEF Finished
<1>2. Do(w, p) /\ stack[w][1][1] = "finished"
  BY <1>1 DEF Finished, At
<1>3. e[1] = "finished" /\ Service(e, q)
  BY <1>2, Attending DEF Attends
<1>4. \/ q = Loop /\ Leaving
      \/ q = Push(Step("unlock"), Loop) /\ EndAtHand /\ taskLock # None
  BY <1>3, ServiceLines
<1>5. state = "SESSION_STOPPING"
  BY <1>4 DEF Leaving, EndAtHand, AtEnd
<1>6. Steady
  BY <1>5 DEF Finished, Check, Steady
<1>7. Heads(stack'[w], Step("send_end"), q)
  BY <1>1, <1>2, <1>5, AttendsOne
<1>8. Service(Step("send_end"), q)'
  <2>1. taskLock' = taskLock
    BY <1>6 DEF Steady
  <2> QED BY <1>4, <1>6, <2>1, SteadyKept, PhasesKept DEF Service, Step
<1> QED BY <1>2, <1>6, <1>7, <1>8, SteadyKept, AttendsOn

LEMMA SendEndServes ==
  ASSUME NEW c \in Users, NEW w \in Workers, NEW e, NEW q, Attends(c, w, e, q), SendEnd(w)
  PROVE  StillServed(w)
<1>1. PICK p : /\ Do(w, p)
               /\ p = IF ~sessionEndSent /\ sessionEndProcessed THEN <<>> ELSE <<<<"put", "END">>>>
  BY DEF SendEnd
<1>2. /\ Do(w, p) /\ stack[w][1][1] = "send_end" /\ taskLock = None /\ sessionEndSent'
      /\ app' = app /\ state' = state /\ log' = log /\ sessionEndProcessed' = sessionEndProcessed
      /\ sessionData' = sessionData /\ threadIds' = threadIds /\ thrCount' = thrCount
      /\ aborted' = aborted /\ failed' = failed /\ taskLock' = taskLock
      /\ queue' = queue
  BY <1>1 DEF SendEnd, At
<1>3. e[1] = "send_end" /\ Service(e, q)
  BY <1>2, Attending DEF Attends
<1>4. q = Loop /\ Leaving
  BY <1>2, <1>3, ServiceLines
<1>5. PICK f : f = <<"put", "END">>
  OBVIOUS
<1>6. p = <<f>>
  BY <1>1, <1>4, <1>5 DEF Leaving, Unsent
<1>7. Heads(stack'[w], <<"put", "END">>, Loop)
  BY <1>2, <1>4, <1>5, <1>6, AttendsOne
<1>8. EndAtHand'
  <2>1. Rest' = Rest
    BY <1>2, RestEmpty
  <2> QED BY <1>2, <1>4, <2>1 DEF Leaving, EndAtHand, AtEnd, Unsent, Sent, SawBegin
<1>9. Service(<<"put", "END">>, Loop)'
  BY <1>8 DEF Service
<1>10. Advances
  <2>1. ~Unsent'
    BY <1>2 DEF Unsent
  <2> QED BY <1>2, <2>1 DEF Advances
<1> QED BY <1>2, <1>7, <1>9, <1>10, AttendsNext

LEMMA LeaveServes ==
  ASSUME NEW c \in Users, NEW w \in Workers, NEW e, NEW q, Attends(c, w, e, q), Leave(w)
  PROVE  StillServed(w)
<1>1. PICK p : /\ Do(w, p)
               /\ p = IF SessionEndSeen THEN <<Step("exit")>> ELSE <<Step("finished"), Step("get")>>
  BY DEF Leave, LeaveIf
<1>2. Do(w, p) /\ stack[w][1][1] = "leave" /\ Steady
  BY <1>1 DEF Leave, LeaveIf, At, Steady
<1>3. e[1] = "leave" /\ Service(e, q)
  BY <1>2, Attending DEF Attends
<1>4. q = <<>> /\ (Leaving \/ Over)
  BY <1>3, ServiceLines
<1>5. CASE Leaving
  <2>1. p = <<Step("finished"), Step("get")>>
    BY <1>1, <1>5 DEF Leaving, Unsent, SessionEndSeen
  <2>2. Heads(stack'[w], Step("finished"), Loop)
    BY <1>2, <1>4, <2>1, AttendsOne DEF Loop
  <2>3. Service(Step("finished"), Loop)'
    BY <1>2, <1>5, SteadyKept, PhasesKept DEF Service, Step
  <2> QED BY <1>2, <2>2, <2>3, SteadyKept, AttendsOn
<1>6. CASE Over
  <2>1. p = <<Step("exit")>>
    BY <1>1, <1>6 DEF Over, Done, SessionEndSeen
  <2>2. Heads(stack'[w], Step("exit"), <<>>)
    BY <1>2, <1>4, <2>1, AttendsOne
  <2>3. Service(Step("exit"), <<>>)'
    BY <1>2, <1>6, SteadyKept, PhasesKept DEF Service, Step
  <2> QED BY <1>2, <2>2, <2>3, SteadyKept, AttendsOn
<1> QED BY <1>4, <1>5, <1>6

LEMMA StopProcessingServes ==
  ASSUME NEW c \in Users, NEW w \in Workers, NEW e, NEW q, Attends(c, w, e, q), StopProcessing(w)
  PROVE  StillServed(w)
<1>1. PICK p : Do(w, p) /\ p = IF SessionEndSeen THEN <<>> ELSE <<Step("finished")>>
  BY DEF StopProcessing
<1>2. Do(w, p) /\ stack[w][1][1] = "stop_processing" /\ Steady
  BY <1>1 DEF StopProcessing, At, Steady
<1>3. e[1] = "stop_processing" /\ Service(e, q)
  BY <1>2, Attending DEF Attends
<1>4. q = Loop /\ Over
  BY <1>3, ServiceLines
<1>5. p = <<>>
  BY <1>1, <1>4 DEF Over, Done, SessionEndSeen
<1>6. Heads(stack'[w], Step("get"), <<>>)
  BY <1>2, <1>4, <1>5, AttendsOne, Tails
<1>7. Service(Step("get"), <<>>)'
  BY <1>2, <1>4, SteadyKept, PhasesKept DEF Service, OnLoop, Looping, Step
<1> QED BY <1>2, <1>6, <1>7, SteadyKept, AttendsOn

-----------------------------------------------------------------------------
(* The worker leaves, and releases what it held. *)

LEMMA ExitCloses ==
  ASSUME NEW c \in Users, NEW w \in Workers, NEW e, NEW q, Attends(c, w, e, q), Exit(w)
  PROVE  Closed(w)' /\ Spares(w)
<1>1. PICK p : /\ Do(w, p)
               /\ p = <<Step("clear_ids"), Step("deactivate"), Step("flush"), Step("release")>>
  BY DEF Exit, ExitBy
<1>2. /\ Do(w, p) /\ stack[w][1][1] = "exit"
      /\ thrCount' = IF Mode = "ACTIVE" THEN thrCount - 1 ELSE thrCount
      /\ app' = app /\ state' = state /\ queueActive' = queueActive /\ log' = log
      /\ sessionEndSent' = sessionEndSent /\ sessionEndProcessed' = sessionEndProcessed
      /\ sessionData' = sessionData /\ threadIds' = threadIds
      /\ aborted' = aborted /\ failed' = failed /\ taskLock' = taskLock
      /\ queue' = queue /\ abortSent' = abortSent
  BY <1>1 DEF Exit, ExitBy, At
<1>3. /\ e[1] = "exit" /\ Service(e, q) /\ Counted(w) /\ Mode = "ACTIVE" /\ Sound(c)
      /\ stack[w] # <<>>
      /\ \A u \in Threads : u # w => stack'[u] = stack[u]
  BY <1>2, Attending DEF Attends, Sound, ControlledBy, Mode
<1>4. q = <<>> /\ Over
  BY <1>3, ServiceLines
<1>5. thrCount' = 0
  BY <1>2, <1>3 DEF Counted
<1>6. Rest' = Rest
  BY <1>2, RestEmpty
<1>7. Over' /\ Done'
  BY <1>2, <1>4, <1>6 DEF Over, Done, SawAll, MayStop
<1>8. Heads(stack'[w], Step("clear_ids"), Push(Step("deactivate"), ToFlush))
  <2>1. Resumed1(stack'[w], q) /\ stack'[w] = p \o q
    BY <1>2, Attending
  <2> QED BY <1>1, <1>4, <2>1 DEF Resumed1, ToFlush, ToRelease
<1>9. Closing(Step("clear_ids"), Push(Step("deactivate"), ToFlush))'
  BY DEF Closing, Step
<1>10. Alone(w)'
  BY <1>2, <1>3 DEF Counted, Alone, Threads
<1>11. Closed(w)'
  BY <1>5, <1>7, <1>8, <1>9, <1>10 DEF Closed, Doing
<1>12. Spares(w)
  <2>1. Settled => Settled'
    BY <1>2, <1>7 DEF Settled, Done, Unsent
  <2>2. Moves
    BY <1>2, <1>3, <2>1 DEF Moves, NoWorker
  <2> QED BY <1>2, <1>3, <2>2 DEF Spares, Sound
<1> QED BY <1>11, <1>12

\* The worker has left, and is at step e.
Retires(c, w, e, q) ==
  /\ Sound(c) /\ Stacks
  /\ Doing(w, e, q) /\ Closing(e, q) /\ Alone(w) /\ thrCount = 0 /\ Over

LEMMA ClosingLines ==
  ASSUME NEW e, NEW q, Closing(e, q)
  PROVE  /\ e[1] = "clear_ids" => q = Push(Step("deactivate"), ToFlush)
         /\ e[1] = "deactivate" => q = ToFlush /\ threadIds = {}
         /\ e[1] = "flush" => q = ToRelease /\ threadIds = {} /\ ~queueActive
         /\ e[1] = "release" => /\ q = <<>> /\ threadIds = {} /\ ~queueActive
                                /\ queue = <<>>
         /\ e[1] \in {"clear_ids", "deactivate", "flush", "release"}
BY DEF Closing

LEMMA Retiring ==
  ASSUME NEW c \in Users, NEW w \in Workers, NEW e, NEW q, Retires(c, w, e, q), Do(w, <<>>)
  PROVE  /\ stack[w] # <<>> /\ stack[w][1] = e /\ stack'[w] = q
         /\ \A u \in Threads : u # w => stack'[u] = stack[u]
<1>1. Doing(w, e, q) /\ Stacks /\ w \in Threads
  BY DEF Retires, Threads
<1>2. PICK p : p = <<>>
  OBVIOUS
<1>3. stack'[w] = q /\ \A u \in Threads : u # w => stack'[u] = stack[u]
  <2>1. Do(w, p)
    BY <1>2
  <2> QED BY <1>1, <1>2, <2>1, Went
<1> QED BY <1>1, <1>3 DEF Doing, Heads

\* What a step does of one that has left.
LeavesAsIs ==
  /\ app' = app /\ state' = state /\ log' = log /\ thrCount' = thrCount
  /\ sessionEndSent' = sessionEndSent /\ sessionEndProcessed' = sessionEndProcessed
  /\ aborted' = aborted /\ failed' = failed /\ taskLock' = taskLock

LEMMA RetiringSpares ==
  ASSUME NEW c \in Users, NEW w \in Workers, NEW e, NEW q, Retires(c, w, e, q), Do(w, <<>>),
         LeavesAsIs, Rest' = Rest \/ Rest' = <<>>
  PROVE  /\ Over' /\ Spares(w) /\ thrCount' = 0 /\ Done' /\ SawAll' /\ state' = "FINISHED"
         /\ sessionData' => Alone(w)'
<1>1. Over /\ Sound(c) /\ Alone(w) /\ thrCount = 0
  BY DEF Retires
<1>2. /\ stack[w] # <<>> /\ \A u \in Threads : u # w => stack'[u] = stack[u]
  BY Retiring
<1>3. Over' /\ Done' /\ SawAll' /\ state' = "FINISHED" /\ thrCount' = 0
  BY <1>1 DEF Over, Done, SawAll, MayStop, LeavesAsIs
<1>4. Spares(w)
  <2>1. Settled => Settled'
    BY <1>3 DEF Settled, Done, Unsent, LeavesAsIs
  <2>2. Moves
    BY <1>2, <2>1 DEF Moves, NoWorker, LeavesAsIs
  <2> QED BY <1>1, <1>2, <2>2 DEF Spares, Sound, LeavesAsIs
<1>5. sessionData' => Alone(w)'
  BY <1>1, <1>2 DEF Alone, Threads
<1> QED BY <1>3, <1>4, <1>5

LEMMA RetireStep ==
  ASSUME NEW c \in Users, NEW w \in Workers, NEW e, NEW q, Retires(c, w, e, q),
         ClearThreadIds(w) \/ Deactivate(w) \/ Flush(w) \/ Release(w)
  PROVE  (Closed(w)' \/ Gone') /\ Spares(w)
<1>0. Closing(e, q) /\ Alone(w) /\ Mode = "ACTIVE"
  BY DEF Retires, Sound, ControlledBy, Mode
<1>1. Do(w, <<>>)
  BY DEF ClearThreadIds, Deactivate, Flush, FlushTo, Release
<1>2. /\ stack[w] # <<>> /\ stack[w][1] = e /\ stack'[w] = q
      /\ \A u \in Threads : u # w => stack'[u] = stack[u]
  BY <1>1, Retiring
<1>a. CASE ClearThreadIds(w)
  <2>1. e[1] = "clear_ids" /\ LeavesAsIs /\ threadIds' = {} /\ sessionData' = sessionData
        /\ queue' = queue
    BY <1>2, <1>a DEF ClearThreadIds, At, LeavesAsIs
  <2>2. q = Push(Step("deactivate"), ToFlush)
    BY <1>0, <2>1, ClosingLines
  <2>3. Over' /\ Spares(w) /\ thrCount' = 0 /\ Alone(w)'
    BY <1>0, <1>1, <2>1, RestEmpty, RetiringSpares DEF Alone
  <2>4. Heads(stack'[w], Step("deactivate"), ToFlush)
    BY <1>2, <2>2, Tails
  <2>5. Closing(Step("deactivate"), ToFlush)'
    BY <2>1 DEF Closing, Step
  <2> QED BY <2>3, <2>4, <2>5 DEF Closed, Doing
<1>b. CASE Deactivate(w)
  <2>1. e[1] = "deactivate" /\ LeavesAsIs /\ threadIds' = threadIds /\ sessionData' = sessionData
        /\ queue' = queue /\ ~queueActive'
    BY <1>2, <1>b DEF Deactivate, At, LeavesAsIs
  <2>2. q = ToFlush /\ threadIds = {}
    BY <1>0, <2>1, ClosingLines
  <2>3. Over' /\ Spares(w) /\ thrCount' = 0 /\ Alone(w)'
    BY <1>0, <1>1, <2>1, RestEmpty, RetiringSpares DEF Alone
  <2>4. Heads(stack'[w], Step("flush"), ToRelease)
    BY <1>2, <2>2, Tails
  <2>5. Closing(Step("flush"), ToRelease)'
    BY <2>1, <2>2 DEF Closing, Step
  <2> QED BY <2>3, <2>4, <2>5 DEF Closed, Doing
<1>c. CASE Flush(w)
  <2>1. e[1] = "flush" /\ LeavesAsIs /\ threadIds' = threadIds /\ sessionData' = sessionData
        /\ queue' = <<>> /\ queueActive' = queueActive
    BY <1>2, <1>c DEF Flush, FlushTo, At, LeavesAsIs
  <2>2. q = ToRelease /\ threadIds = {} /\ ~queueActive
    BY <1>0, <2>1, ClosingLines
  <2>3. Over' /\ Spares(w) /\ thrCount' = 0 /\ Alone(w)'
    BY <1>0, <1>1, <2>1, RestEmpty, RetiringSpares DEF Alone
  <2>4. Heads(stack'[w], Step("release"), <<>>)
    BY <1>2, <2>2, Tails
  <2>5. Closing(Step("release"), <<>>)'
    BY <2>1, <2>2 DEF Closing, Step
  <2> QED BY <2>3, <2>4, <2>5 DEF Closed, Doing
<1>d. CASE Release(w)
  <2>1. e[1] = "release" /\ LeavesAsIs /\ threadIds' = threadIds /\ ~sessionData'
        /\ queue' = queue /\ queueActive' = queueActive
    <3>1. sessionData
      BY <1>0 DEF Alone
    <3> QED BY <1>0, <1>2, <1>d, <3>1 DEF Release, At, LeavesAsIs, Check
  <2>2. q = <<>> /\ threadIds = {} /\ ~queueActive /\ queue = <<>>
    BY <1>0, <2>1, ClosingLines
  <2>3. Spares(w) /\ thrCount' = 0 /\ Done' /\ SawAll' /\ state' = "FINISHED"
    BY <1>1, <2>1, RestEmpty, RetiringSpares
  <2>4. NoWorker'
    BY <1>0, <1>2, <2>2 DEF Alone, NoWorker, Threads
  <2> QED BY <2>1, <2>2, <2>3, <2>4 DEF Gone
<1> QED BY <1>a, <1>b, <1>c, <1>d

-----------------------------------------------------------------------------
(* The worker, whatever it does next. *)

\* What the worker is never at while it serves a session.
LEMMA NotServed ==
  ASSUME NEW w \in Workers, NEW e, NEW q, Service(e, q), stack[w][1] = e
  PROVE  /\ ~EnterInitialized(w) /\ ~EnterStarting(w) /\ ~Starting(w) /\ ~Spawn(w)
         /\ ~EnterPaused(w) /\ ~EnterStopping(w) /\ ~Stopping(w)
         /\ ~PutError(w) /\ ~Notify(w) /\ ~Unlock(w)
         /\ ~ClearThreadIds(w) /\ ~Deactivate(w) /\ ~Flush(w) /\ ~Release(w)
         /\ ~Interface(w)
<1>1. /\ e[1] = "enter" => e[2] \in {"RUNNING", "STOPPED", "FINISHED"}
      /\ e[1] \in {"svc", "get", "handle", "deliver", "event", "change", "enter", "set",
                   "leave", "abort", "abort_sent", "finished", "send_end", "put",
                   "process_end", "put_stop", "put_stop_head", "session_end",
                   "stop_processing", "exit"}
  BY ServiceLines
<1>2. \A l : At(w, l) => e[1] = l
  BY DEF At
<1>3. Arg(w) = e[2]
  BY DEF Arg
<1>4. /\ ~EnterInitialized(w) /\ ~EnterStarting(w) /\ ~EnterPaused(w) /\ ~EnterStopping(w)
  BY <1>1, <1>2, <1>3 DEF EnterInitialized, EnterStarting, EnterPaused, EnterStopping
<1>5. /\ ~Starting(w) /\ ~Spawn(w) /\ ~Stopping(w) /\ ~PutError(w) /\ ~Unlock(w)
  BY <1>1, <1>2 DEF Starting, StartingWith, Spawn, Stopping, StoppingWith, PutError, Unlock
<1>6. ~Notify(w)
  BY <1>1, <1>2 DEF Notify, NotifyAborted, NotifyEnd, NotifyControl, NotifyControlThen
<1>7. ~ClearThreadIds(w) /\ ~Deactivate(w) /\ ~Flush(w) /\ ~Release(w)
  BY <1>1, <1>2 DEF ClearThreadIds, Deactivate, Flush, FlushTo, Release
<1>8. ~Start(w) /\ ~Stop(w) /\ ~StopState(w) /\ ~WaitState(w) /\ ~Join(w) /\ ~LentJoined(w)
  BY <1>1, <1>2 DEF Start, Stop, StopState, WaitState, Join, LentJoined
<1>9. ~ModuleClosed(w) /\ ~CloseQueue(w) /\ ~WaitThreads(w) /\ ~Initialize(w)
  BY <1>1, <1>2 DEF ModuleClosed, CloseQueue, WaitThreads, Initialize
<1> QED BY <1>4, <1>5, <1>6, <1>7, <1>8, <1>9 DEF Interface

LEMMA ServedStep ==
  ASSUME NEW c \in Users, NEW w \in Workers, NEW e, NEW q, Attends(c, w, e, q),
         taskLock \in Threads \cup {None}, Run(w)
  PROVE  (Served(w)' \/ Closed(w)') /\ Spares(w)
<1>1. stack[w][1] = e /\ Service(e, q)
  BY DEF Attends, Doing, Heads
<1>2. /\ ~EnterInitialized(w) /\ ~EnterStarting(w) /\ ~Starting(w) /\ ~Spawn(w)
      /\ ~EnterPaused(w) /\ ~EnterStopping(w) /\ ~Stopping(w)
      /\ ~PutError(w) /\ ~Notify(w) /\ ~Unlock(w)
      /\ ~ClearThreadIds(w) /\ ~Deactivate(w) /\ ~Flush(w) /\ ~Release(w)
      /\ ~Interface(w)
  BY <1>1, NotServed
<1>3. Change(w) \/ SetState(w) => StillServed(w)
  BY ChangeServes, SetStateServes
<1>4. OnChange(w) => StillServed(w)
  BY <1>2, EnterServes DEF OnChange
<1>5. PutMessage(w) => StillServed(w)
  BY <1>2, PutServes, PutStopServes, ControlAbortServes, AbortSentServes DEF PutMessage
<1>6. Finished(w) \/ SendEnd(w) => StillServed(w)
  BY FinishedServes, SendEndServes
<1>7. Message(w) => StillServed(w)
  BY HandleServes, ProcessEndServes, DeliverServes, OnEventServes, SessionEndServes DEF Message
<1>8. Serve(w) => StillServed(w) \/ (Closed(w)' /\ Spares(w))
  BY <1>2, SvcServes, GetQServes, GetQShutdownServes, StopProcessingServes, LeaveServes,
     ExitCloses DEF Serve
<1> QED BY <1>2, <1>3, <1>4, <1>5, <1>6, <1>7, <1>8 DEF Run, StillServed

LEMMA ClosedStep ==
  ASSUME NEW c \in Users, NEW w \in Workers, NEW e, NEW q, Retires(c, w, e, q), Run(w)
  PROVE  (Closed(w)' \/ Gone') /\ Spares(w)
<1>1. stack[w][1] = e /\ e[1] \in {"clear_ids", "deactivate", "flush", "release"}
  BY ClosingLines DEF Retires, Doing, Heads
<1>2. \A l : At(w, l) => e[1] = l
  BY <1>1 DEF At
<1>3. ~Change(w) /\ ~SetState(w) /\ ~Finished(w) /\ ~SendEnd(w)
  BY <1>1, <1>2 DEF Change, SetState, Finished, SendEnd
<1>4. ~OnChange(w)
  BY <1>1, <1>2 DEF OnChange, EnterInitialized, EnterStarting, Starting, StartingWith, Spawn,
              EnterRunning, EnterPaused, EnterStopping, Stopping, StoppingWith,
              EnterStopped, EnterFinished
<1>5. ~PutMessage(w)
  BY <1>1, <1>2 DEF PutMessage, Put, PutError, PutStop, PutStopHead, ControlAbort, ControlAbortIf,
              AbortSent
<1>6. ~Notify(w) /\ ~Message(w)
  BY <1>1, <1>2 DEF Notify, NotifyAborted, NotifyEnd, NotifyControl, NotifyControlThen,
              Message, Handle, ProcessEnd, Deliver, OnEvent, SessionEnd
<1>7. ~Interface(w)
  BY <1>1, <1>2 DEF Interface, Start, Stop, StopState, WaitState, Join, LentJoined, ModuleClosed, CloseQueue,
              WaitThreads, Initialize
<1>8. Serve(w) => ClearThreadIds(w) \/ Deactivate(w) \/ Flush(w) \/ Release(w)
  BY <1>1, <1>2 DEF Serve, Svc, GetQ, GetQShutdown, Unlock, StopProcessing, Leave, LeaveIf,
              Exit, ExitBy
<1> QED BY <1>3, <1>4, <1>5, <1>6, <1>7, <1>8, RetireStep DEF Run

\* The worker waits for the MB_STOP of a stop(), and is at step e.
Awaits(c, w, e, q) ==
  /\ Sound(c) /\ Stacks /\ queue \in Seq(Kinds)
  /\ Doing(w, e, q) /\ OnLoop(e, q) /\ Counted(w) /\ Owed

LEMMA AwaitsStep ==
  ASSUME NEW c \in Users, NEW w \in Workers, NEW e, NEW q, Awaits(c, w, e, q), Run(w)
  PROVE  /\ Kept /\ abortSent' = abortSent /\ Waited(w)'
         /\ \A u \in Threads : u # w => stack'[u] = stack[u]
<1>1. /\ stack[w] # <<>> /\ stack[w][1] = e /\ Arg(w) = e[2] /\ Stacks /\ Doing(w, e, q)
      /\ queue \in Seq(Kinds) /\ Owed /\ Counted(w) /\ w \in Threads /\ queueActive
      /\ Rest = <<>> /\ ~app.modulesAbort /\ ~app.downstreamFails
  BY DEF Awaits, Doing, Heads, Arg, Threads, Owed, Sound, ControlledBy
<1>2. /\ e[1] = "get" => q = <<>>
      /\ e[1] = "handle" => e[2] \in {"DATA", "CONTROL_ABORT"} /\ q = Loop
      /\ e[1] = "deliver" => e[2] = "DATA" /\ q = Loop
      /\ e[1] \in {"get", "handle", "deliver"}
  BY DEF Awaits, OnLoop
<1>3. \A l : At(w, l) => e[1] = l
  BY <1>1 DEF At
<1>4. GetQ(w) \/ Handle(w) \/ Deliver(w)
  <2>1. ~Change(w) /\ ~SetState(w) /\ ~Finished(w) /\ ~SendEnd(w)
    BY <1>2, <1>3 DEF Change, SetState, Finished, SendEnd
  <2>2. ~OnChange(w)
    BY <1>2, <1>3 DEF OnChange, EnterInitialized, EnterStarting, Starting, StartingWith, Spawn,
                EnterRunning, EnterPaused, EnterStopping, Stopping, StoppingWith,
                EnterStopped, EnterFinished
  <2>3. ~PutMessage(w)
    BY <1>2, <1>3 DEF PutMessage, Put, PutError, PutStop, PutStopHead, ControlAbort, ControlAbortIf,
                AbortSent
  <2>4. ~Notify(w) /\ (Message(w) => Handle(w) \/ Deliver(w))
    BY <1>2, <1>3 DEF Notify, NotifyAborted, NotifyEnd, NotifyControl, NotifyControlThen,
                Message, ProcessEnd, OnEvent, SessionEnd
  <2>5. ~Interface(w)
    BY <1>2, <1>3 DEF Interface, Start, Stop, StopState, WaitState, Join, LentJoined, ModuleClosed, CloseQueue,
                WaitThreads, Initialize
  <2>6. Serve(w) => GetQ(w)
    BY <1>1, <1>2, <1>3 DEF Serve, Svc, GetQShutdown, Unlock, StopProcessing, Leave, LeaveIf,
                Exit, ExitBy, ClearThreadIds, Deactivate, Flush, FlushTo, Release
  <2> QED BY <2>1, <2>2, <2>3, <2>4, <2>5, <2>6 DEF Run
<1>5. \A p : Do(w, p) => /\ Resumed1(stack'[w], q) /\ stack'[w] = p \o q
                         /\ p = <<>> => stack'[w] = q
                         /\ \A u \in Threads : u # w => stack'[u] = stack[u]
  BY <1>1, Went
<1>6. ASSUME Kept, abortSent' = abortSent, NEW p, Do(w, p), NEW f, NEW r,
             Heads(stack'[w], f, r), OnLoop(f, r)
      PROVE  /\ Kept /\ abortSent' = abortSent /\ Waited(w)'
             /\ \A u \in Threads : u # w => stack'[u] = stack[u]
  <2>1. \A u \in Threads : u # w => stack'[u] = stack[u]
    BY <1>5, <1>6
  <2>2. Counted(w)' /\ Owed'
    BY <1>1, <1>6, <2>1, PhasesKept DEF Counted, Alone, Kept, Threads
  <2>3. OnLoop(f, r)'
    BY <1>6 DEF OnLoop
  <2>4. Waited(w)'
    BY <1>6, <2>2, <2>3 DEF Waited, Doing
  <2> QED BY <1>6, <2>1, <2>4
<1>a. CASE GetQ(w)
  <2>1. PICK p : Do(w, p) /\ p = IF Head(queue) = "STOP"
             THEN Cat(IF isHighPriorityStop /\ ~abortSent THEN <<Step("abort")>> ELSE <<>>,
                      <<Step("leave")>>)
             ELSE Cat(Cat(<<<<"handle", Head(queue)>>>>,
                          IF Stops(Head(queue)) THEN <<Step("stop_processing")>> ELSE <<>>),
                      <<Step("get")>>)
    BY <1>a DEF GetQ, Cat
  <2>2. /\ Do(w, p) /\ At(w, "get") /\ queue # <<>> /\ queue' = Tail(queue)
        /\ app' = app /\ state' = state /\ queueActive' = queueActive /\ log' = log
        /\ sessionEndSent' = sessionEndSent /\ sessionEndProcessed' = sessionEndProcessed
        /\ sessionData' = sessionData /\ threadIds' = threadIds /\ thrCount' = thrCount
        /\ aborted' = aborted /\ failed' = failed /\ taskLock' = taskLock
        /\ abortSent' = abortSent
    BY <1>a, <2>1 DEF GetQ
  <2>3. q = <<>>
    BY <1>2, <1>3, <2>2
  <2>4. Head(queue) \in Overlooked /\ Rest' = Rest
    BY <1>1, <2>2, RestTakes
  <2>5. PICK h : h = Head(queue)
    OBVIOUS
  <2>6. p = <<<<"handle", h>>, Step("get")>>
    <3>1. h # "STOP" /\ ~Stops(h)
      BY <2>4, <2>5 DEF Overlooked, Stops
    <3>2. p = Cat(Cat(<<<<"handle", h>>>>, <<>>), <<Step("get")>>)
      BY <2>1, <2>5, <3>1
    <3> QED BY <3>2, JoinedSparse
  <2>7. Heads(stack'[w], <<"handle", h>>, Loop)
    <3>1. Resumed1(stack'[w], <<>>) /\ stack'[w] = p \o <<>>
      BY <1>5, <2>2, <2>3
    <3> QED BY <2>6, <3>1 DEF Resumed1, Loop
  <2>8. Kept
    BY <1>1, <2>2, <2>4 DEF Kept
  <2>9. OnLoop(<<"handle", h>>, Loop)
    BY <2>4, <2>5 DEF OnLoop, Overlooked
  <2> QED BY <1>6, <2>2, <2>7, <2>8, <2>9
<1>b. CASE Handle(w)
  <2>1. e[1] = "handle" /\ e[2] \in {"DATA", "CONTROL_ABORT"} /\ q = Loop
    BY <1>2, <1>3, <1>b DEF Handle
  <2>2. /\ app' = app /\ state' = state /\ queueActive' = queueActive /\ log' = log
        /\ sessionEndSent' = sessionEndSent /\ sessionEndProcessed' = sessionEndProcessed
        /\ sessionData' = sessionData /\ threadIds' = threadIds /\ thrCount' = thrCount
        /\ aborted' = aborted /\ failed' = failed /\ taskLock' = taskLock
        /\ abortSent' = abortSent
        /\ queue' = IF e[2] = "CONTROL_ABORT" THEN Without(queue, {"DATA"}) ELSE queue
    BY <1>1, <1>b, <2>1 DEF Handle, Check, FlushData
  <2>3. Kept
    <3>1. Rest' = Rest
      BY <1>1, <2>2, RestEmpty, RestFlushed
    <3> QED BY <1>1, <2>2, <3>1 DEF Kept
  <2>4. CASE e[2] = "CONTROL_ABORT"
    <3>1. PICK p : Do(w, p) /\ p = <<>>
      BY <1>1, <1>b, <2>4 DEF Handle
    <3>2. Heads(stack'[w], Step("get"), <<>>)
      BY <1>5, <2>1, <3>1, Tails
    <3>3. OnLoop(Step("get"), <<>>)
      BY DEF OnLoop, Step
    <3> QED BY <1>6, <2>2, <2>3, <3>1, <3>2, <3>3
  <2>5. CASE e[2] = "DATA"
    <3>1. PICK f, p : Do(w, p) /\ p = <<f>> /\ f = <<"deliver", "DATA">>
      BY <1>1, <1>b, <2>5 DEF Handle
    <3>2. Heads(stack'[w], f, Loop)
      <4>1. Resumed1(stack'[w], q) /\ stack'[w] = p \o q
        BY <1>5, <3>1
      <4> QED BY <2>1, <3>1, <4>1 DEF Resumed1
    <3>3. OnLoop(f, Loop)
      BY <3>1 DEF OnLoop
    <3> QED BY <1>6, <2>2, <2>3, <3>1, <3>2, <3>3
  <2> QED BY <2>1, <2>4, <2>5
<1>c. CASE Deliver(w)
  <2>1. e[1] = "deliver" /\ e[2] = "DATA" /\ q = Loop
    BY <1>2, <1>3, <1>c DEF Deliver
  <2>2. PICK p : Do(w, p) /\ p = <<>>
    BY <1>1, <1>c, <2>1 DEF Deliver
  <2>3. Steady
    BY <1>1, <1>c, <2>1 DEF Deliver, Steady
  <2>4. Kept /\ abortSent' = abortSent
    BY <2>3, SteadyKept DEF Steady
  <2>5. Heads(stack'[w], Step("get"), <<>>)
    BY <1>5, <2>1, <2>2, Tails
  <2>6. OnLoop(Step("get"), <<>>)
    BY DEF OnLoop, Step
  <2> QED BY <1>6, <2>2, <2>4, <2>5, <2>6
<1> QED BY <1>4, <1>a, <1>b, <1>c

LEMMA RunsSteps ==
  ASSUME NEW t, Run(t)
  PROVE  stack[t] # <<>>
BY DEF Run, Change, SetState, OnChange, EnterInitialized, EnterStarting, Starting,
       StartingWith, Spawn, EnterRunning, EnterPaused, EnterStopping, Stopping,
       StoppingWith, EnterStopped, EnterFinished, PutMessage, Put, PutError, PutStop,
       PutStopHead, ControlAbort, ControlAbortIf, AbortSent, Finished, SendEnd, Notify,
       NotifyAborted, NotifyEnd, NotifyControl, NotifyControlThen, Message, Handle,
       ProcessEnd, Deliver, OnEvent, SessionEnd, Serve, Svc, GetQ, GetQShutdown, Unlock,
       StopProcessing, Leave, LeaveIf, Exit, ExitBy, ClearThreadIds, Deactivate, Flush,
       FlushTo, Release, Interface, Start, Stop, StopState, WaitState, Join, LentJoined, ModuleClosed,
       CloseQueue, WaitThreads, Initialize, At

LEMMA WorkerStep ==
  ASSUME NEW c \in Users, IInv, SInv(c), NEW w \in Workers, Run(w)
  PROVE  SInv(c)'
<1>1. /\ Sound(c) /\ InSession(c) /\ Stacks /\ queue \in Seq(Kinds) /\ Unlogged
      /\ taskLock \in Threads \cup {None}
  BY DEF IInv, SInv, Sound, Fields, Unlogged
<1>2. stack[w] # <<>>
  BY RunsSteps
<1>3. ~NoWorker /\ \A v \in Workers : Alone(v) => v = w
  BY <1>2 DEF NoWorker, Alone
<1>4. CASE \E v \in Workers : Controls(c) /\ (Served(v) \/ Closed(v))
  <2>1. Controls(c) /\ (Served(w) \/ Closed(w))
    BY <1>3, <1>4 DEF Served, Closed, Counted
  <2>2. CASE Served(w)
    <3>1. PICK e, q : Attends(c, w, e, q)
      BY <1>1, <2>2 DEF Served, Attends
    <3>2. (Served(w)' \/ Closed(w)') /\ Spares(w)
      BY <1>1, <3>1, ServedStep
    <3> QED BY <1>1, <2>1, <3>2, WorkerGoesOn
  <2>3. CASE Closed(w)
    <3>1. PICK e, q : Retires(c, w, e, q)
      BY <1>1, <2>3 DEF Closed, Retires
    <3>2. (Closed(w)' \/ Gone') /\ Spares(w)
      BY <3>1, ClosedStep
    <3> QED BY <1>1, <2>1, <3>2, WorkerGoesOn
  <2> QED BY <2>1, <2>2, <2>3
<1>5. CASE \E v \in Workers : Owes(c) /\ Waited(v)
  <2>1. Owes(c) /\ Waited(w)
    BY <1>3, <1>5 DEF Waited, Counted
  <2>2. PICK e, q : Awaits(c, w, e, q)
    BY <1>1, <2>1 DEF Waited, Awaits
  <2>3. /\ Kept /\ abortSent' = abortSent /\ Waited(w)'
        /\ \A u \in Threads : u # w => stack'[u] = stack[u]
    BY <2>2, AwaitsStep
  <2>4. \A u \in Users : stack'[u] = stack[u]
    BY <2>3, ThreadsAssumption DEF Threads
  <2>5. Owes(c)'
    <3>1. PICK f, r : Doing(c, f, r) /\ Owing(f, r)
      BY <2>1 DEF Owes
    <3>2. state' = state
      BY <2>3 DEF Kept
    <3>3. \A k : After(k)' = After(k)
      BY <3>2 DEF After
    <3>4. Owing(f, r)'
      BY <2>3, <3>1, <3>3 DEF Owing, Aborting
    <3>5. Doing(c, f, r)'
      BY <2>4, <3>1 DEF Doing
    <3> QED BY <3>4, <3>5 DEF Owes
  <2>6. Sound(c)'
    BY <1>1, <2>3, <2>4 DEF Sound, Feeds, Doing, ControlledBy, Kept
  <2> QED BY <2>3, <2>5, <2>6 DEF SInv, InSession
<1> QED BY <1>1, <1>3, <1>4, <1>5 DEF InSession, Bare, Gone

-----------------------------------------------------------------------------
(* What the thread that controls the stream goes on with. *)

IsSeq(q) == \E S : q \in Seq(S)

LEMMA PushedSeq ==
  ASSUME NEW q, IsSeq(q), NEW e
  PROVE  Heads(Push(e, q), e, q) /\ IsSeq(Push(e, q))
<1>1. PICK S : q \in Seq(S)
  BY DEF IsSeq
<1>2. q \in Seq(S \cup {e}) /\ e \in S \cup {e}
  BY <1>1, SeqMonotonic
<1>3. Push(e, q) \in Seq(S \cup {e})
  BY <1>2, PushHeads
<1> QED BY <1>1, <1>3, PushHeads DEF IsSeq

LEMMA ToWaitSeq ==
  ASSUME NEW k, IsSeq(k), NEW b
  PROVE  Heads(ToWait(b, k), <<"wait", b>>, k) /\ IsSeq(ToWait(b, k))
BY PushedSeq DEF ToWait

LEMMA ToAwaitSeq ==
  ASSUME NEW k, IsSeq(k)
  PROVE  /\ Heads(ToAwait(k), Step("wait_threads"), k) /\ IsSeq(ToAwait(k))
         /\ Heads(ToClose(k), Step("close_queue"), ToAwait(k)) /\ IsSeq(ToClose(k))
<1>1. Heads(ToAwait(k), Step("wait_threads"), k) /\ IsSeq(ToAwait(k))
  BY PushedSeq DEF ToAwait
<1>2. Heads(ToClose(k), Step("close_queue"), ToAwait(k)) /\ IsSeq(ToClose(k))
  BY <1>1, PushedSeq DEF ToClose
<1> QED BY <1>1, <1>2

LEMMA Ends ==
  /\ IsSeq(<<>>) /\ IsSeq(ToInit) /\ Heads(ToInit, Step("initialize"), <<>>)
  /\ IsSeq(ToClose(<<>>)) /\ IsSeq(ToClose(ToInit))
<1>1. IsSeq(<<>>)
  <2>1. <<>> \in Seq({})
    OBVIOUS
  <2> QED BY <2>1 DEF IsSeq
<1>2. IsSeq(ToInit) /\ Heads(ToInit, Step("initialize"), <<>>)
  BY <1>1, PushedSeq DEF ToInit
<1> QED BY <1>1, <1>2, ToAwaitSeq

LEMMA ThenSeq ==
  ASSUME NEW q, Then(q)
  PROVE  IsSeq(q)
BY Ends DEF Then

\* A wait() was asked for, or not.
LEMMA AfterHeads ==
  ASSUME NEW q, After(q)
  PROVE  /\ IsSeq(q)
         /\ \E f, k : /\ Heads(q, f, k) /\ f[1] = "wait"
                      /\ \/ f[2] = FALSE /\ k = <<>>
                         \/ f[2] = TRUE /\ Waits(k)
<1>1. CASE q = ToWait(FALSE, <<>>)
  <2>1. PICK f : f = <<"wait", FALSE>>
    OBVIOUS
  <2>2. Heads(q, f, <<>>) /\ IsSeq(q)
    BY <1>1, <2>1, Ends, ToWaitSeq
  <2>3. f[1] = "wait" /\ f[2] = FALSE
    BY <2>1
  <2> QED BY <2>2, <2>3
<1>2. ASSUME NEW k, IsSeq(k), Waits(k), q = ToWait(TRUE, k)
      PROVE  /\ IsSeq(q)
             /\ \E f, r : /\ Heads(q, f, r) /\ f[1] = "wait"
                          /\ \/ f[2] = FALSE /\ r = <<>>
                             \/ f[2] = TRUE /\ Waits(r)
  <2>1. PICK f : f = <<"wait", TRUE>>
    OBVIOUS
  <2>2. Heads(q, f, k) /\ IsSeq(q)
    BY <1>2, <2>1, ToWaitSeq
  <2>3. f[1] = "wait" /\ f[2] = TRUE
    BY <2>1
  <2> QED BY <1>2, <2>2, <2>3
<1>3. CASE q # ToWait(FALSE, <<>>)
  <2>1. PICK k : IsSeq(k) /\ Waits(k) /\ q = ToWait(TRUE, k)
    BY <1>3, Ends DEF After, Waits
  <2> QED BY <1>2, <2>1
<1> QED BY <1>1, <1>3

LEMMA WaitsHeads ==
  ASSUME NEW q, Waits(q), q # <<>>
  PROVE  \E k : Heads(q, Step("close_queue"), ToAwait(k)) /\ Then(k)
<1>1. PICK k : q = ToClose(k) /\ Then(k)
  BY DEF Waits, Then
<1>2. Heads(q, Step("close_queue"), ToAwait(k))
  BY <1>1, ThenSeq, ToAwaitSeq
<1> QED BY <1>1, <1>2

\* What a call has still to do does not depend on the state before it has finished.
LEMMA EndsKept ==
  ASSUME state = "FINISHED" => state' = "FINISHED", NEW q
  PROVE  /\ Then(q) => Then(q)'
         /\ Waits(q) => Waits(q)'
         /\ After(q) => After(q)'
BY DEF Then, Waits, After

-----------------------------------------------------------------------------
(* The session, while that thread takes a step. *)

\* There is a worker that serves a session or leaves, or there is nothing left of it.
Attended == Gone \/ \E w \in Workers : Served(w) \/ Closed(w)

OthersStay(c) == \A u \in Threads : u # c => stack'[u] = stack[u]

LEMMA SoundKept ==
  ASSUME NEW c \in Users, Sound(c), OthersStay(c),
         app' = app, failed' = failed, ~aborted', log'["ABORT"] = 0, taskLock' = taskLock
  PROVE  Sound(c)'
<1>1. \A u \in Users \ {c} : Feeds(u)'
  BY DEF Sound, Feeds, Doing, OthersStay, Threads
<1>2. ControlledBy(c)'
  BY DEF Sound, ControlledBy
<1> QED BY <1>1, <1>2 DEF Sound

LEMMA OthersAreWorkers ==
  ASSUME NEW c \in Users, OthersStay(c)
  PROVE  \A v \in Workers : stack'[v] = stack[v]
BY ThreadsAssumption DEF OthersStay, Threads

LEMMA ControlsOn ==
  ASSUME NEW c \in Users, Sound(c), Attended, Kept, OthersStay(c), Controls(c)'
  PROVE  SInv(c)'
<1>1. \A v \in Workers : stack'[v] = stack[v]
  BY OthersAreWorkers
<1>2. Gone' \/ \E w \in Workers : Served(w)' \/ Closed(w)'
  BY <1>1, WorkerKept DEF Attended
<1>3. Sound(c)'
  <2>1. /\ app' = app /\ failed' = failed /\ ~aborted' /\ log'["ABORT"] = 0
        /\ taskLock' = taskLock
    BY DEF Kept, Sound
  <2> QED BY <2>1, SoundKept
<1> QED BY <1>2, <1>3 DEF SInv, InSession

LEMMA OwesOn ==
  ASSUME NEW c \in Users, Sound(c), NEW w \in Workers, Waited(w), Kept, OthersStay(c), Owes(c)'
  PROVE  SInv(c)'
<1>1. \A v \in Workers : stack'[v] = stack[v]
  BY OthersAreWorkers
<1>2. Waited(w)'
  BY <1>1, WorkerKept
<1>3. Sound(c)'
  <2>1. /\ app' = app /\ failed' = failed /\ ~aborted' /\ log'["ABORT"] = 0
        /\ taskLock' = taskLock
    BY DEF Kept, Sound
  <2> QED BY <2>1, SoundKept
<1> QED BY <1>2, <1>3 DEF SInv, InSession

LEMMA ControlsAt ==
  ASSUME NEW c, NEW f, NEW r, Heads(stack'[c], f, r), Control(f, r)'
  PROVE  Controls(c)'
BY DEF Controls, Doing

LEMMA OwesAt ==
  ASSUME NEW c, NEW f, NEW r, Heads(stack'[c], f, r), Owing(f, r)'
  PROVE  Owes(c)'
BY DEF Owes, Doing

\* What the states say of an attended session.
LEMMA AttendedStates ==
  ASSUME Attended
  PROVE  /\ state \in {"SESSION_STARTING"} \cup Since
         /\ state \in {"RUNNING", "PAUSED"} =>
              Going /\ \E w \in Workers : /\ Counted(w)
                                          /\ \E e, q : Doing(w, e, q) /\ OnLoop(e, q)
         /\ threadIds = {} => Done /\ state = "FINISHED"
         /\ NoWorker => Gone
<1>1. ASSUME NEW e, NEW q, Service(e, q)
      PROVE  /\ state \in {"SESSION_STARTING"} \cup Since
             /\ state \in {"RUNNING", "PAUSED"} => Going /\ OnLoop(e, q)
  <2>1. /\ Fresh \/ Taken \/ Begun => state = "SESSION_STARTING"
        /\ Going => state \in {"RUNNING", "PAUSED"}
        /\ Queued \/ Leaving \/ EndAtHand \/ EndQueued \/ EndTaken \/ EndPassed \/ Ended =>
             state = "SESSION_STOPPING"
        /\ Stopped => state = "STOPPED"
        /\ Finishing \/ Over => state = "FINISHED"
    BY DEF Fresh, Taken, Begun, Starts, Going, Queued, Leaving, EndAtHand, EndQueued,
           EndTaken, EndPassed, AtEnd, Ended, Stopped, Finishing, Over
  <2>2. \/ Fresh \/ Taken \/ Begun
        \/ Going /\ OnLoop(e, q)
        \/ Queued \/ Leaving \/ EndAtHand \/ EndQueued \/ EndTaken \/ EndPassed \/ Ended
        \/ Stopped \/ Finishing \/ Over
    BY <1>1 DEF Service, Looping
  <2> QED BY <2>1, <2>2 DEF Since, Later
<1>2. CASE Gone
  BY <1>2 DEF Gone, Since, Later
<1>3. ASSUME NEW w \in Workers, Served(w)
      PROVE  /\ state \in {"SESSION_STARTING"} \cup Since
             /\ state \in {"RUNNING", "PAUSED"} =>
                  Going /\ Counted(w) /\ \E e, q : Doing(w, e, q) /\ OnLoop(e, q)
             /\ threadIds # {} /\ ~NoWorker
  <2>1. PICK e, q : Doing(w, e, q) /\ Service(e, q) /\ Counted(w)
    BY <1>3 DEF Served
  <2>2. threadIds # {} /\ ~NoWorker
    BY <2>1 DEF Counted, NoWorker, Doing, Heads
  <2> QED BY <1>1, <2>1, <2>2
<1>4. ASSUME NEW w \in Workers, Closed(w)
      PROVE  state = "FINISHED" /\ Done /\ ~NoWorker
  BY <1>4 DEF Closed, Over, NoWorker, Doing, Heads
<1> QED BY <1>2, <1>3, <1>4 DEF Attended, Since, Later

-----------------------------------------------------------------------------
(* The steps of that thread, while a session is attended. *)

LEMMA ControlLines ==
  ASSUME NEW e, NEW q, Control(e, q)
  PROVE  /\ e[1] \in {"stop", "stop_state"} => After(q) /\ state \in Since
         /\ e[1] = "change" =>
              \/ e[2] = "PAUSED" /\ q = <<>> /\ state \in Since
              \/ e[2] = "SESSION_STOPPING" /\ After(q) /\ state \in {"RUNNING", "PAUSED"}
         /\ e[1] = "enter" =>
              \/ e[2] = "PAUSED" /\ q = <<>> /\ state = "RUNNING"
              \/ /\ e[2] = "RUNNING" /\ state = "PAUSED"
                 /\ \/ q = <<>>
                    \/ \E k : After(k) /\ q = Push(<<"enter", "SESSION_STOPPING">>, k)
              \/ e[2] = "SESSION_STOPPING" /\ After(q) /\ state = "RUNNING"
         /\ e[1] = "set" =>
              \/ e[2] = "PAUSED" /\ q = <<>> /\ state = "RUNNING"
              \/ /\ e[2] = "RUNNING" /\ state = "PAUSED"
                 /\ \/ q = <<>>
                    \/ \E k : After(k) /\ q = Push(<<"enter", "SESSION_STOPPING">>, k)
         /\ e[1] \in {"abort", "abort_sent"} =>
              \E k : After(k) /\ q = Push(Step("unlock"), k) /\ state \in Later
         /\ e[1] = "handle" =>
              /\ e[2] = "CONTROL_ABORT" /\ state \in Later
              /\ \E k : After(k) /\ q = Push(Step("abort_sent"), Push(Step("unlock"), k))
         /\ e[1] = "unlock" => After(q) /\ state \in Later
         /\ e[1] = "wait" =>
              \/ e[2] = FALSE /\ q = <<>> /\ state \in Since
              \/ e[2] = TRUE /\ Waits(q) /\ state \in Since
         /\ e[1] = "join" => Waits(q) /\ state \in Since
         /\ e[1] = "module_closed" => Then(q) /\ state \in Since
         /\ e[1] = "close_queue" => (\E k : Then(k) /\ q = ToAwait(k)) /\ Settled
         /\ e[1] = "wait_threads" => Then(q) /\ Settled
         /\ e[1] = "initialize" => q = <<>> /\ NoWorker
         /\ e[1] \in {"stop", "stop_state", "change", "enter", "set", "abort", "abort_sent",
                      "handle", "unlock", "wait", "join", "module_closed", "close_queue",
                      "wait_threads", "initialize"}
<1>1. e[1] \in {"stop", "stop_state"} => After(q) /\ state \in Since
  BY DEF Control, Aborting
<1>2. e[1] = "change" =>
        \/ e[2] = "PAUSED" /\ q = <<>> /\ state \in Since
        \/ e[2] = "SESSION_STOPPING" /\ After(q) /\ state \in {"RUNNING", "PAUSED"}
  BY DEF Control, Aborting
<1>3. e[1] = "enter" =>
        \/ e[2] = "PAUSED" /\ q = <<>> /\ state = "RUNNING"
        \/ /\ e[2] = "RUNNING" /\ state = "PAUSED"
           /\ \/ q = <<>>
              \/ \E k : After(k) /\ q = Push(<<"enter", "SESSION_STOPPING">>, k)
        \/ e[2] = "SESSION_STOPPING" /\ After(q) /\ state = "RUNNING"
  BY DEF Control, Aborting
<1>4. e[1] = "set" =>
        \/ e[2] = "PAUSED" /\ q = <<>> /\ state = "RUNNING"
        \/ /\ e[2] = "RUNNING" /\ state = "PAUSED"
           /\ \/ q = <<>>
              \/ \E k : After(k) /\ q = Push(<<"enter", "SESSION_STOPPING">>, k)
  BY DEF Control, Aborting
<1>5. e[1] \in {"abort", "abort_sent"} =>
        \E k : After(k) /\ q = Push(Step("unlock"), k) /\ state \in Later
  BY DEF Control, Aborting
<1>6. e[1] = "handle" =>
        /\ e[2] = "CONTROL_ABORT" /\ state \in Later
        /\ \E k : After(k) /\ q = Push(Step("abort_sent"), Push(Step("unlock"), k))
  BY DEF Control, Aborting
<1>7. e[1] = "unlock" => After(q) /\ state \in Later
  BY DEF Control, Aborting
<1>8. e[1] = "wait" =>
        \/ e[2] = FALSE /\ q = <<>> /\ state \in Since
        \/ e[2] = TRUE /\ Waits(q) /\ state \in Since
  BY DEF Control, Aborting
<1>9. e[1] \in {"join"} => Waits(q) /\ state \in Since
  BY DEF Control, Aborting
<1>10. e[1] = "module_closed" => Then(q) /\ state \in Since
  BY DEF Control, Aborting
<1>11. e[1] = "close_queue" => (\E k : Then(k) /\ q = ToAwait(k)) /\ Settled
  BY DEF Control, Aborting
<1>12. e[1] = "wait_threads" => Then(q) /\ Settled
  BY DEF Control, Aborting
<1>13. e[1] = "initialize" => q = <<>> /\ NoWorker
  BY DEF Control, Aborting
<1>14. e[1] \in {"stop", "stop_state", "change", "enter", "set", "abort", "abort_sent",
                 "handle", "unlock", "wait", "join", "module_closed", "close_queue",
                 "wait_threads", "initialize"}
  BY DEF Control, Aborting
<1> QED BY <1>1, <1>2, <1>3, <1>4, <1>5, <1>6, <1>7, <1>8, <1>9, <1>10, <1>11, <1>12, <1>13, <1>14

\* That thread is at step e of a call, while a session is attended.
Commands(c, e, q) ==
  /\ Sound(c) /\ Stacks /\ queue \in Seq(Kinds) /\ Attended
  /\ Doing(c, e, q) /\ Control(e, q)

LEMMA Stepping ==
  ASSUME NEW c \in Users, Stacks, NEW e, NEW q, Doing(c, e, q), NEW p, Do(c, p)
  PROVE  /\ stack[c] # <<>> /\ stack[c][1] = e /\ Arg(c) = e[2]
         /\ Resumed1(stack'[c], q) /\ stack'[c] = p \o q
         /\ p = <<>> => stack'[c] = q
         /\ \A f : p = <<f>> => Heads(stack'[c], f, q)
         /\ \A f, g : p = <<f, g>> => Heads(stack'[c], f, Push(g, q))
         /\ OthersStay(c)
<1>1. c \in Threads
  BY DEF Threads
<1>2. stack[c] # <<>> /\ stack[c][1] = e
  BY DEF Doing, Heads
<1>3. Arg(c) = e[2]
  BY <1>2 DEF Arg
<1>4. /\ Resumed1(stack'[c], q) /\ stack'[c] = p \o q
      /\ p = <<>> => stack'[c] = q
      /\ \A u \in Threads : u # c => stack'[u] = stack[u]
  BY <1>1, Went
<1>5. ASSUME NEW f, p = <<f>> PROVE Heads(stack'[c], f, q)
  BY <1>4, <1>5 DEF Resumed1
<1>6. ASSUME NEW f, NEW g, p = <<f, g>> PROVE Heads(stack'[c], f, Push(g, q))
  BY <1>4, <1>6 DEF Resumed1
<1>7. OthersStay(c)
  BY <1>4 DEF OthersStay
<1> QED BY <1>2, <1>3, <1>4, <1>5, <1>6, <1>7

LEMMA CommandsOn ==
  ASSUME NEW c \in Users, NEW e, NEW q, Commands(c, e, q), NEW p, Do(c, p), Kept,
         NEW f, NEW r, Heads(stack'[c], f, r), Control(f, r)'
  PROVE  SInv(c)'
<1>1. Sound(c) /\ Attended /\ Stacks /\ Doing(c, e, q)
  BY DEF Commands
<1>2. OthersStay(c)
  BY <1>1, Stepping
<1>3. Controls(c)'
  BY ControlsAt
<1> QED BY <1>1, <1>2, <1>3, ControlsOn

\* The call returns.
LEMMA CommandsNoMore ==
  ASSUME NEW c \in Users, NEW e, NEW q, Commands(c, e, q), NEW p, Do(c, p), Kept,
         stack'[c] = <<>>, state' # "INITIALIZED"
  PROVE  SInv(c)'
<1>1. Sound(c) /\ Attended /\ Stacks /\ Doing(c, e, q)
  BY DEF Commands
<1>2. OthersStay(c)
  BY <1>1, Stepping
<1>3. Controls(c)'
  BY DEF Controls
<1> QED BY <1>1, <1>2, <1>3, ControlsOn

\* A wait() follows, if it was asked for.
LEMMA CommandsAfter ==
  ASSUME NEW c \in Users, NEW e, NEW q, Commands(c, e, q), NEW p, Do(c, p), Kept,
         After(stack'[c]), state \in Since
  PROVE  SInv(c)'
<1>1. PICK f, k : /\ Heads(stack'[c], f, k) /\ f[1] = "wait"
                  /\ \/ f[2] = FALSE /\ k = <<>>
                     \/ f[2] = TRUE /\ Waits(k)
  BY AfterHeads
<1>2. state' = state
  BY DEF Kept
<1>3. Waits(k) => Waits(k)'
  BY <1>2, EndsKept
<1>4. Control(f, k)'
  BY <1>1, <1>2, <1>3 DEF Control
<1> QED BY <1>1, <1>4, CommandsOn

LEMMA StopCommands ==
  ASSUME NEW c \in Users, NEW e, NEW q, Commands(c, e, q), Stop(c)
  PROVE  SInv(c)'
<1>0. Stacks /\ Doing(c, e, q) /\ Control(e, q)
  BY DEF Commands
<1>1. PICK p : Do(c, p) /\ p = <<Step("stop_state")>>
  BY DEF Stop
<1>2. stack[c][1][1] = "stop" /\ Steady
  BY DEF Stop, At, Steady
<1>3. e[1] = "stop" /\ Heads(stack'[c], Step("stop_state"), q)
  BY <1>0, <1>1, <1>2, Stepping
<1>4. After(q) /\ state \in Since
  BY <1>0, <1>3, ControlLines
<1>5. state' = state /\ After(q)'
  BY <1>2, <1>4, EndsKept DEF Steady
<1>6. Control(Step("stop_state"), q)'
  BY <1>4, <1>5 DEF Control, Step
<1> QED BY <1>1, <1>2, <1>3, <1>6, SteadyKept, CommandsOn

LEMMA StopStateCommands ==
  ASSUME NEW c \in Users, NEW e, NEW q, Commands(c, e, q), StopState(c)
  PROVE  SInv(c)'
<1>0. Stacks /\ Doing(c, e, q) /\ Control(e, q)
  BY DEF Commands
<1>1. stack[c][1][1] = "stop_state" /\ Steady
  BY DEF StopState, At, Steady
<1>2. After(q) /\ state \in Since
  BY <1>0, <1>1, ControlLines DEF Doing, Heads
<1>3. state' = state /\ After(q)'
  BY <1>1, <1>2, EndsKept DEF Steady
<1>4. CASE state \in {"RUNNING", "PAUSED"}
  <2>1. PICK p, f : Do(c, p) /\ p = <<f>> /\ f = <<"change", "SESSION_STOPPING">>
    BY <1>4 DEF StopState
  <2>2. Heads(stack'[c], f, q)
    BY <1>0, <2>1, Stepping
  <2>3. Control(f, q)'
    BY <1>3, <1>4, <2>1 DEF Control
  <2> QED BY <1>1, <2>1, <2>2, <2>3, SteadyKept, CommandsOn
<1>5. CASE state \in Later /\ isHighPriorityStop /\ ~abortSent
  <2>1. PICK p : Do(c, p) /\ p = <<Step("abort"), Step("unlock")>>
    BY <1>5 DEF StopState, Later
  <2>2. Heads(stack'[c], Step("abort"), Push(Step("unlock"), q))
    BY <1>0, <2>1, Stepping
  <2>3. Control(Step("abort"), Push(Step("unlock"), q))'
    BY <1>3, <1>5 DEF Control, Aborting, Step
  <2> QED BY <1>1, <2>1, <2>2, <2>3, SteadyKept, CommandsOn
<1>6. CASE state \in Later /\ ~(isHighPriorityStop /\ ~abortSent)
  <2>1. PICK p : Do(c, p) /\ p = <<>>
    BY <1>6 DEF StopState, Later
  <2>2. stack'[c] = q
    BY <1>0, <2>1, Stepping
  <2> QED BY <1>1, <1>2, <2>1, <2>2, SteadyKept, CommandsAfter
<1> QED BY <1>2, <1>4, <1>5, <1>6 DEF Since

LEMMA ChangeCommands ==
  ASSUME NEW c \in Users, NEW e, NEW q, Commands(c, e, q), Change(c)
  PROVE  SInv(c)'
<1>0. Stacks /\ Doing(c, e, q) /\ Control(e, q) /\ c \in Threads
  BY DEF Commands, Threads
<1>1. /\ stack[c][1][1] = "change" /\ Steady
      /\ <<state, Arg(c)>> \notin Allowed => Do(c, <<>>)
  BY DEF Change, At, Steady
<1>2. PICK p : Do(c, p)
  BY DEF Change
<1>3. e[1] = "change" /\ Arg(c) = e[2]
  BY <1>0, <1>1, <1>2, Stepping
<1>4. state' = state
  BY <1>1 DEF Steady
<1>5. CASE e[2] = "PAUSED" /\ q = <<>> /\ state \in Since
  <2>1. CASE state = "RUNNING"
    <3>1. <<state, Arg(c)>> \in Allowed /\ state # "PAUSED"
      BY <1>3, <1>5, <2>1 DEF Allowed
    <3>2. PICK f : f = <<"enter", "PAUSED">>
      OBVIOUS
    <3>3. PICK r : Do(c, r) /\ r = <<f>>
      BY <1>0, <1>3, <1>5, <3>1, <3>2, Requested
    <3>4. Heads(stack'[c], f, <<>>)
      BY <1>0, <1>5, <3>3, Stepping
    <3>5. Control(f, <<>>)'
      BY <1>4, <2>1, <3>2 DEF Control
    <3> QED BY <1>1, <3>3, <3>4, <3>5, SteadyKept, CommandsOn
  <2>2. CASE state = "PAUSED"
    <3>1. <<state, Arg(c)>> \in Allowed /\ Route(state, Arg(c)) = <<"RUNNING">>
      BY <1>3, <1>5, <2>2 DEF Allowed, Route
    <3>2. PICK f : f = <<"enter", "RUNNING">>
      OBVIOUS
    <3>3. PICK r : Do(c, r) /\ r = <<f>>
      <4>1. PICK s : s = Route(state, Arg(c))
        OBVIOUS
      <4>2. DOMAIN s = {1} /\ s[1] = "RUNNING"
        BY <3>1, <4>1
      <4>3. [i \in DOMAIN s |-> <<"enter", s[i]>>] = <<f>>
        BY <3>2, <4>2
      <4>4. Do(c, [i \in DOMAIN s |-> <<"enter", s[i]>>])
        BY <3>1, <4>1 DEF Change
      <4> QED BY <4>3, <4>4
    <3>4. Heads(stack'[c], f, <<>>)
      BY <1>0, <1>5, <3>3, Stepping
    <3>5. Control(f, <<>>)'
      BY <1>4, <2>2, <3>2 DEF Control
    <3> QED BY <1>1, <3>3, <3>4, <3>5, SteadyKept, CommandsOn
  <2>3. CASE state \in Later
    <3>1. <<state, Arg(c)>> \notin Allowed
      BY <1>3, <1>5, <2>3 DEF Allowed, Later
    <3>2. PICK r : Do(c, r) /\ r = <<>>
      BY <1>1, <3>1
    <3>3. stack'[c] = <<>>
      BY <1>0, <1>5, <3>2, Stepping
    <3>4. state' # "INITIALIZED"
      BY <1>4, <2>3 DEF Later
    <3> QED BY <1>1, <3>2, <3>3, <3>4, SteadyKept, CommandsNoMore
  <2> QED BY <1>5, <2>1, <2>2, <2>3 DEF Since
<1>6. CASE e[2] = "SESSION_STOPPING" /\ After(q) /\ state \in {"RUNNING", "PAUSED"}
  <2>0. After(q)'
    BY <1>4, <1>6, EndsKept
  <2>1. CASE state = "RUNNING"
    <3>1. <<state, Arg(c)>> \in Allowed /\ state # "PAUSED"
      BY <1>3, <1>6, <2>1 DEF Allowed
    <3>2. PICK f : f = <<"enter", "SESSION_STOPPING">>
      OBVIOUS
    <3>3. PICK r : Do(c, r) /\ r = <<f>>
      BY <1>0, <1>3, <1>6, <3>1, <3>2, Requested
    <3>4. Heads(stack'[c], f, q)
      BY <1>0, <3>3, Stepping
    <3>5. Control(f, q)'
      BY <1>4, <2>0, <2>1, <3>2 DEF Control
    <3> QED BY <1>1, <3>3, <3>4, <3>5, SteadyKept, CommandsOn
  <2>2. CASE state = "PAUSED"
    <3>1. /\ <<state, Arg(c)>> \in Allowed
          /\ Route(state, Arg(c)) = <<"RUNNING", "SESSION_STOPPING">>
      BY <1>3, <1>6, <2>2 DEF Allowed, Route
    <3>2. PICK f, g : f = <<"enter", "RUNNING">> /\ g = <<"enter", "SESSION_STOPPING">>
      OBVIOUS
    <3>3. PICK r : Do(c, r) /\ r = <<f, g>>
      <4>1. PICK s : s = Route(state, Arg(c))
        OBVIOUS
      <4>2. DOMAIN s = {1, 2} /\ s[1] = "RUNNING" /\ s[2] = "SESSION_STOPPING"
        BY <3>1, <4>1
      <4>3. [i \in DOMAIN s |-> <<"enter", s[i]>>] = <<f, g>>
        BY <3>2, <4>2
      <4>4. Do(c, [i \in DOMAIN s |-> <<"enter", s[i]>>])
        BY <3>1, <4>1 DEF Change
      <4> QED BY <4>3, <4>4
    <3>4. Heads(stack'[c], f, Push(g, q))
      BY <1>0, <3>3, Stepping
    <3>5. Control(f, Push(g, q))'
      BY <1>4, <2>0, <2>2, <3>2 DEF Control
    <3> QED BY <1>1, <3>3, <3>4, <3>5, SteadyKept, CommandsOn
  <2> QED BY <1>6, <2>1, <2>2
<1>7. \/ e[2] = "PAUSED" /\ q = <<>> /\ state \in Since
      \/ e[2] = "SESSION_STOPPING" /\ After(q) /\ state \in {"RUNNING", "PAUSED"}
  BY <1>0, <1>3, ControlLines
<1> QED BY <1>5, <1>6, <1>7

LEMMA EnterCommands ==
  ASSUME NEW c \in Users, NEW e, NEW q, Commands(c, e, q), EnterPaused(c) \/ EnterRunning(c)
  PROVE  SInv(c)'
<1>0. Stacks /\ Doing(c, e, q) /\ Control(e, q)
  BY DEF Commands
<1>1. /\ stack[c][1][1] = "enter" /\ Steady
      /\ \/ EnterPaused(c) /\ Arg(c) = "PAUSED"
         \/ EnterRunning(c) /\ Arg(c) = "RUNNING"
  BY DEF EnterPaused, EnterRunning, At, Steady
<1>2. PICK p, f : Do(c, p) /\ p = <<f>> /\ f = <<"set", Arg(c)>>
  BY <1>1 DEF EnterPaused, EnterRunning
<1>3. e[1] = "enter" /\ Arg(c) = e[2] /\ Heads(stack'[c], f, q)
  BY <1>0, <1>1, <1>2, Stepping
<1>4. state' = state
  BY <1>1 DEF Steady
<1>5. \A k : After(k) => After(k)'
  BY <1>4, EndsKept
<1>6. \/ e[2] = "PAUSED" /\ q = <<>> /\ state = "RUNNING"
      \/ /\ e[2] = "RUNNING" /\ state = "PAUSED"
         /\ \/ q = <<>>
            \/ \E k : After(k) /\ q = Push(<<"enter", "SESSION_STOPPING">>, k)
  BY <1>0, <1>1, <1>3, ControlLines
<1>7. Control(f, q)'
  BY <1>2, <1>3, <1>4, <1>5, <1>6 DEF Control
<1> QED BY <1>1, <1>2, <1>3, <1>7, SteadyKept, CommandsOn

\* A control(ABORT) leaves the session where it is.
LEMMA AbortKeeps ==
  ASSUME NEW t \in Threads, queue \in Seq(Kinds), ControlAbort(t)
  PROVE  /\ Kept /\ abortSent' = abortSent /\ stack[t][1][1] = "abort"
         /\ \E f, g, p : /\ Do(t, p)
                         /\ f = <<"handle", "CONTROL_ABORT">> /\ g = Step("abort_sent")
                         /\ p = <<g>> \/ p = <<>> \/ p = <<f, g>>
<1>1. PICK f, g, p : /\ f = <<"handle", "CONTROL_ABORT">> /\ g = Step("abort_sent")
                     /\ Do(t, p)
                     /\ p = <<g>> \/ p = <<>> \/ p = <<f, g>>
  BY DEF ControlAbort, ControlAbortIf
<1>2. /\ stack[t][1][1] = "abort"
      /\ app' = app /\ state' = state /\ queueActive' = queueActive /\ log' = log
      /\ sessionEndSent' = sessionEndSent /\ sessionEndProcessed' = sessionEndProcessed
      /\ sessionData' = sessionData /\ threadIds' = threadIds /\ thrCount' = thrCount
      /\ aborted' = aborted /\ failed' = failed /\ taskLock' = taskLock
      /\ abortSent' = abortSent
      /\ queue' = queue \/ (queue' = <<"CONTROL_ABORT">> \o queue /\ queueActive)
  BY DEF ControlAbort, ControlAbortIf, EnqueueHead, At
<1>3. Rest' = Rest
  <2>1. "CONTROL_ABORT" \in Kinds /\ "CONTROL_ABORT" \in Overlooked
    BY DEF Kinds, Overlooked
  <2>2. CASE queue' = queue
    BY <2>2, RestEmpty
  <2>3. CASE queue' = <<"CONTROL_ABORT">> \o queue
    BY <2>1, <2>3, RestPrepends
  <2> QED BY <1>2, <2>2, <2>3
<1>4. Kept
  BY <1>2, <1>3 DEF Kept
<1> QED BY <1>1, <1>2, <1>4

\* The queue is flushed of its data.
LEMMA HandleKeeps ==
  ASSUME NEW t \in Threads, queue \in Seq(Kinds), Handle(t), Arg(t) = "CONTROL_ABORT"
  PROVE  /\ Kept /\ abortSent' = abortSent /\ stack[t][1][1] = "handle"
         /\ \E p : Do(t, p) /\ p = <<>>
<1>1. PICK p : Do(t, p) /\ p = <<>>
  BY DEF Handle
<1>2. /\ stack[t][1][1] = "handle"
      /\ app' = app /\ state' = state /\ queueActive' = queueActive /\ log' = log
      /\ sessionEndSent' = sessionEndSent /\ sessionEndProcessed' = sessionEndProcessed
      /\ sessionData' = sessionData /\ threadIds' = threadIds /\ thrCount' = thrCount
      /\ aborted' = aborted /\ failed' = failed /\ taskLock' = taskLock
      /\ abortSent' = abortSent /\ queue' = Without(queue, {"DATA"})
  BY DEF Handle, Check, FlushData, At
<1>3. Rest' = Rest
  BY <1>2, RestFlushed
<1>4. queue = <<>> => queue' = <<>>
  BY <1>2, WithoutEmpty
<1>5. Kept
  BY <1>2, <1>3, <1>4 DEF Kept
<1> QED BY <1>1, <1>2, <1>5

LEMMA AbortSentKeeps ==
  ASSUME NEW t \in Threads, AbortSent(t), state \in Later
  PROVE  /\ Kept /\ stack[t][1][1] = "abort_sent" /\ \E p : Do(t, p) /\ p = <<>>
<1>1. PICK p : Do(t, p) /\ p = <<>>
  BY DEF AbortSent
<1>2. /\ stack[t][1][1] = "abort_sent"
      /\ app' = app /\ state' = state /\ queueActive' = queueActive /\ log' = log
      /\ sessionEndSent' = sessionEndSent /\ sessionEndProcessed' = sessionEndProcessed
      /\ sessionData' = sessionData /\ threadIds' = threadIds /\ thrCount' = thrCount
      /\ aborted' = aborted /\ failed' = failed /\ taskLock' = taskLock
      /\ queue' = queue
  BY DEF AbortSent, At
<1>3. Kept
  BY <1>2, RestEmpty DEF Kept
<1> QED BY <1>1, <1>2, <1>3

LEMMA AbortCommands ==
  ASSUME NEW c \in Users, NEW e, NEW q, Commands(c, e, q), ControlAbort(c)
  PROVE  SInv(c)'
<1>0. /\ Stacks /\ Doing(c, e, q) /\ Control(e, q) /\ c \in Threads /\ queue \in Seq(Kinds)
  BY DEF Commands, Threads
<1>1. PICK f, g, p : /\ Do(c, p)
                     /\ f = <<"handle", "CONTROL_ABORT">> /\ g = Step("abort_sent")
                     /\ p = <<g>> \/ p = <<>> \/ p = <<f, g>>
  BY <1>0, AbortKeeps
<1>2. Kept /\ e[1] = "abort"
  BY <1>0, <1>1, AbortKeeps, Stepping
<1>3. PICK k : After(k) /\ q = Push(Step("unlock"), k) /\ state \in Later
  BY <1>0, <1>2, ControlLines
<1>4. After(k)' /\ state' \in Later
  BY <1>2, <1>3, EndsKept DEF Kept
<1>5. CASE p = <<g>>
  <2>1. Heads(stack'[c], g, q)
    BY <1>0, <1>1, <1>5, Stepping
  <2>2. Control(g, q)'
    BY <1>1, <1>3, <1>4 DEF Control, Aborting, Step
  <2> QED BY <1>1, <1>2, <2>1, <2>2, CommandsOn
<1>6. CASE p = <<>>
  <2>1. stack'[c] = q
    BY <1>0, <1>1, <1>6, Stepping
  <2>2. Heads(stack'[c], Step("unlock"), k)
    BY <1>3, <2>1, AfterHeads, PushedSeq
  <2>3. Control(Step("unlock"), k)'
    BY <1>4 DEF Control, Step
  <2> QED BY <1>1, <1>2, <2>2, <2>3, CommandsOn
<1>7. CASE p = <<f, g>>
  <2>1. Heads(stack'[c], f, Push(g, q))
    BY <1>0, <1>1, <1>7, Stepping
  <2>2. Control(f, Push(g, q))'
    BY <1>1, <1>3, <1>4 DEF Control, Aborting
  <2> QED BY <1>1, <1>2, <2>1, <2>2, CommandsOn
<1> QED BY <1>1, <1>5, <1>6, <1>7

LEMMA HandleCommands ==
  ASSUME NEW c \in Users, NEW e, NEW q, Commands(c, e, q), Handle(c) \/ AbortSent(c)
  PROVE  SInv(c)'
<1>0. /\ Stacks /\ Doing(c, e, q) /\ Control(e, q) /\ c \in Threads /\ queue \in Seq(Kinds)
      /\ stack[c][1] = e /\ Arg(c) = e[2]
  BY DEF Commands, Threads, Doing, Heads, Arg
<1>1. CASE Handle(c)
  <2>1. e[1] = "handle"
    BY <1>0, <1>1 DEF Handle, At
  <2>2. e[2] = "CONTROL_ABORT" /\ state \in Later
    BY <1>0, <2>1, ControlLines
  <2>3. PICK k : After(k) /\ q = Push(Step("abort_sent"), Push(Step("unlock"), k))
    BY <1>0, <2>1, ControlLines
  <2>4. Kept
    BY <1>0, <1>1, <2>2, HandleKeeps
  <2>5. PICK p : Do(c, p) /\ p = <<>>
    BY <1>0, <1>1, <2>2, HandleKeeps
  <2>6. stack'[c] = q
    BY <1>0, <2>5, Stepping
  <2>7. Heads(stack'[c], Step("abort_sent"), Push(Step("unlock"), k))
    BY <2>3, <2>6, AfterHeads, PushedSeq
  <2>8. After(k)' /\ state' \in Later
    BY <2>2, <2>3, <2>4, EndsKept DEF Kept
  <2>9. Control(Step("abort_sent"), Push(Step("unlock"), k))'
    BY <2>8 DEF Control, Aborting, Step
  <2> QED BY <2>4, <2>5, <2>7, <2>9, CommandsOn
<1>2. CASE AbortSent(c)
  <2>1. e[1] = "abort_sent"
    BY <1>0, <1>2 DEF AbortSent, At
  <2>2. PICK k : After(k) /\ q = Push(Step("unlock"), k) /\ state \in Later
    BY <1>0, <2>1, ControlLines
  <2>4. Kept
    BY <1>0, <1>2, <2>2, AbortSentKeeps
  <2>5. PICK p : Do(c, p) /\ p = <<>>
    BY <1>0, <1>2, <2>2, AbortSentKeeps
  <2>6. stack'[c] = q
    BY <1>0, <2>5, Stepping
  <2>7. Heads(stack'[c], Step("unlock"), k)
    BY <2>2, <2>6, AfterHeads, PushedSeq
  <2>8. After(k)' /\ state' \in Later
    BY <2>2, <2>4, EndsKept DEF Kept
  <2>9. Control(Step("unlock"), k)'
    BY <2>8 DEF Control, Step
  <2> QED BY <2>4, <2>5, <2>7, <2>9, CommandsOn
<1> QED BY <1>1, <1>2

LEMMA UnlockCommands ==
  ASSUME NEW c \in Users, NEW e, NEW q, Commands(c, e, q), Unlock(c)
  PROVE  SInv(c)'
<1>0. /\ Stacks /\ Doing(c, e, q) /\ Control(e, q) /\ taskLock \notin Users
  BY DEF Commands, Sound
<1>1. PICK p : Do(c, p) /\ p = <<>>
  BY DEF Unlock
<1>2. stack[c][1][1] = "unlock" /\ Steady
  BY <1>0 DEF Unlock, At, Steady
<1>3. e[1] = "unlock" /\ stack'[c] = q
  BY <1>0, <1>1, <1>2, Stepping
<1>4. After(q) /\ state \in Later
  BY <1>0, <1>3, ControlLines
<1>5. state \in Since
  BY <1>4 DEF Since
<1> QED BY <1>1, <1>2, <1>3, <1>4, <1>5, SteadyKept, CommandsAfter

LEMMA WaitCommands ==
  ASSUME NEW c \in Users, NEW e, NEW q, Commands(c, e, q), WaitState(c)
  PROVE  SInv(c)'
<1>0. /\ Stacks /\ Doing(c, e, q) /\ Control(e, q) /\ stack[c][1] = e /\ Arg(c) = e[2]
  BY DEF Commands, Doing, Heads, Arg
<1>1. e[1] = "wait" /\ Steady
  BY <1>0 DEF WaitState, At, Steady
<1>2. state' = state
  BY <1>1 DEF Steady
<1>3. CASE e[2] = FALSE /\ q = <<>> /\ state \in Since
  <2>1. PICK p : Do(c, p) /\ p = <<>>
    BY <1>0, <1>3 DEF WaitState
  <2>2. stack'[c] = <<>>
    BY <1>0, <1>3, <2>1, Stepping
  <2>3. state' # "INITIALIZED"
    BY <1>2, <1>3 DEF Since, Later
  <2> QED BY <1>1, <2>1, <2>2, <2>3, SteadyKept, CommandsNoMore
<1>4. CASE e[2] = TRUE /\ Waits(q) /\ state \in Since
  <2>1. PICK p : Do(c, p) /\ p = <<Step("join")>>
    BY <1>0, <1>4 DEF WaitState
  <2>2. Heads(stack'[c], Step("join"), q)
    BY <1>0, <2>1, Stepping
  <2>3. Waits(q)'
    BY <1>2, <1>4, EndsKept
  <2>4. Control(Step("join"), q)'
    BY <1>2, <1>4, <2>3 DEF Control, Step
  <2> QED BY <1>1, <2>1, <2>2, <2>4, SteadyKept, CommandsOn
<1>5. \/ e[2] = FALSE /\ q = <<>> /\ state \in Since
      \/ e[2] = TRUE /\ Waits(q) /\ state \in Since
  BY <1>0, <1>1, ControlLines
<1> QED BY <1>3, <1>4, <1>5

LEMMA SettledThen ==
  ASSUME Attended, \A w \in Workers : ~Served(w)
  PROVE  Settled /\ state = "FINISHED"
BY DEF Attended, Gone, Closed, Over, Settled, Later, Done, Unsent

LEMMA JoinCommands ==
  ASSUME NEW c \in Users, NEW e, NEW q, Commands(c, e, q), Join(c)
  PROVE  SInv(c)'
<1>0. /\ Stacks /\ Doing(c, e, q) /\ Control(e, q) /\ Attended /\ stack[c][1] = e
      /\ ~Inline /\ Mode = "ACTIVE" /\ c \notin Workers
  BY ThreadsAssumption DEF Commands, Doing, Heads, Sound, ControlledBy, Inline, Mode
<1>1. e[1] = "join" /\ Steady
  BY <1>0 DEF Join, At, Steady
<1>2. PICK p : Do(c, p) /\ p = <<>>
  BY <1>0 DEF Join
<1>3. stack'[c] = q
  BY <1>0, <1>2, Stepping
<1>4. Waits(q) /\ state \in Since
  BY <1>0, <1>1, ControlLines
<1>5. state' = state
  BY <1>1 DEF Steady
<1>6. CASE q = <<>>
  <2>1. state' # "INITIALIZED"
    BY <1>4, <1>5 DEF Since, Later
  <2> QED BY <1>1, <1>2, <1>3, <1>6, <2>1, SteadyKept, CommandsNoMore
<1>7. CASE q # <<>>
  <2>1. PICK k : Heads(q, Step("close_queue"), ToAwait(k)) /\ Then(k)
    BY <1>4, <1>7, WaitsHeads
  <2>2. Settled
    <3>1. ASSUME NEW w \in Workers, Served(w) PROVE FALSE
      <4>1. threadIds = {w} /\ stack[w] # <<>>
        BY <3>1 DEF Served, Counted, Doing, Heads
      <4> QED BY <1>0, <4>1 DEF Join
    <3> QED BY <1>0, <3>1, SettledThen
  <2>3. Settled' /\ Then(k)'
    BY <1>1, <1>5, <2>1, <2>2, SteadyKept, PhasesKept, EndsKept
  <2>4. Control(Step("close_queue"), ToAwait(k))'
    <3>1. (\E l : Then(l) /\ ToAwait(k) = ToAwait(l))'
      BY <2>3
    <3> QED BY <2>3, <3>1 DEF Control, Step
  <2>5. Heads(stack'[c], Step("close_queue"), ToAwait(k))
    BY <1>3, <2>1
  <2> QED BY <1>1, <1>2, <2>4, <2>5, SteadyKept, CommandsOn
<1> QED BY <1>6, <1>7

LEMMA ModuleClosedCommands ==
  ASSUME NEW c \in Users, NEW e, NEW q, Commands(c, e, q), ModuleClosed(c)
  PROVE  SInv(c)'
<1>0. /\ Stacks /\ Doing(c, e, q) /\ Control(e, q) /\ Attended /\ stack[c][1] = e
  BY DEF Commands, Doing, Heads
<1>1. e[1] = "module_closed" /\ Steady
  BY <1>0 DEF ModuleClosed, At, Steady
<1>2. Then(q) /\ state \in Since
  BY <1>0, <1>1, ControlLines
<1>3. state' = state
  BY <1>1 DEF Steady
<1>4. PICK f, g, i, j, p :
        /\ f = <<"stop", TRUE>> /\ g = <<"wait", TRUE>>
        /\ i = Step("close_queue") /\ j = Step("wait_threads")
        /\ Do(c, p) /\ p = Cat(IF IsRunning THEN <<f, g>> ELSE <<>>, <<i, j>>)
  BY DEF ModuleClosed, Cat
<1>5. CASE IsRunning
  <2>1. p = <<f, g, i, j>>
    <3>1. Cat(<<f>>, Cat(<<g>>, <<i, j>>)) = <<f, g, i, j>>
      <4>1. Cat(<<g>>, <<i, j>>) = <<g, i, j>>
        BY Literals DEF Cat
      <4>2. Cat(<<f>>, <<g, i, j>>) = <<f, g, i, j>>
        BY Literals DEF Cat
      <4> QED BY <4>1, <4>2
    <3>2. <<f>> \in Seq({f, g, i, j}) /\ <<g>> \in Seq({f, g, i, j}) /\ <<i, j>> \in Seq({f, g, i, j})
      OBVIOUS
    <3>3. Cat(Cat(<<f>>, <<g>>), <<i, j>>) = Cat(<<f>>, Cat(<<g>>, <<i, j>>))
      BY <3>2, ConcatAssociative DEF Cat
    <3>4. Cat(<<f>>, <<g>>) = <<f, g>>
      BY JoinedPair
    <3> QED BY <1>4, <1>5, <3>1, <3>3, <3>4
  <2>2. Heads(stack'[c], f, Push(g, Push(i, Push(j, q))))
    <3>0. Do(c, p)
      BY <1>4
    <3>1. Resumed1(stack'[c], q) /\ stack'[c] = p \o q
      BY <1>0, <3>0, Stepping
    <3> QED BY <2>1, <3>1 DEF Resumed1
  <2>3. Push(g, Push(i, Push(j, q))) = ToWait(TRUE, ToClose(q))
    BY <1>4 DEF ToWait, ToClose, ToAwait
  <2>4. After(ToWait(TRUE, ToClose(q)))
    BY <1>2 DEF Then, After
  <2>5. After(ToWait(TRUE, ToClose(q)))'
    BY <1>3, <2>4, EndsKept
  <2>6. Control(f, ToWait(TRUE, ToClose(q)))'
    BY <1>2, <1>3, <1>4, <2>5 DEF Control
  <2> QED BY <1>1, <1>4, <2>2, <2>3, <2>6, SteadyKept, CommandsOn
<1>6. CASE ~IsRunning
  <2>1. p = <<i, j>>
    <3>1. <<i, j>> \in Seq({i, j})
      OBVIOUS
    <3> QED BY <1>4, <1>6, <3>1, ConcatEmptySeq DEF Cat
  <2>2. Heads(stack'[c], i, Push(j, q))
    BY <1>0, <1>4, <2>1, Stepping
  <2>3. Push(j, q) = ToAwait(q)
    BY <1>4 DEF ToAwait
  <2>4. Settled
    <3>1. state \in Later /\ (threadIds = {} \/ queue = <<>>)
      BY <1>2, <1>6 DEF IsRunning, Since, Later
    <3>2. CASE threadIds = {}
      BY <1>0, <3>1, <3>2, AttendedStates DEF Settled, Done, Unsent
    <3>3. CASE queue = <<>>
      <4>1. Rest = <<>> /\ <<>> # <<"STOP">>
        BY <3>3, RestEmpty
      <4> QED BY <3>1, <4>1 DEF Settled
    <3> QED BY <3>1, <3>2, <3>3
  <2>5. Settled' /\ Then(q)'
    BY <1>1, <1>2, <1>3, <2>4, SteadyKept, PhasesKept, EndsKept
  <2>6. Control(i, ToAwait(q))'
    <3>1. (\E l : Then(l) /\ ToAwait(q) = ToAwait(l))'
      BY <2>5
    <3> QED BY <1>4, <2>5, <3>1 DEF Control, Step
  <2> QED BY <1>1, <1>4, <2>2, <2>3, <2>6, SteadyKept, CommandsOn
<1> QED BY <1>5, <1>6

LEMMA WaitThreadsCommands ==
  ASSUME NEW c \in Users, NEW e, NEW q, Commands(c, e, q), WaitThreads(c)
  PROVE  SInv(c)'
<1>0. /\ Stacks /\ Doing(c, e, q) /\ Control(e, q) /\ Attended /\ stack[c][1] = e
  BY DEF Commands, Doing, Heads
<1>1. e[1] = "wait_threads" /\ Steady /\ NoWorker
  BY <1>0 DEF WaitThreads, At, Steady, NoWorker
<1>2. Then(q) /\ Settled
  BY <1>0, <1>1, ControlLines
<1>3. PICK p : Do(c, p) /\ p = <<>>
  BY DEF WaitThreads
<1>4. stack'[c] = q /\ OthersStay(c)
  BY <1>0, <1>3, Stepping
<1>5. state' # "INITIALIZED"
  BY <1>1, <1>2 DEF Steady, Settled, Later
<1>6. CASE q = <<>>
  BY <1>1, <1>3, <1>4, <1>5, <1>6, SteadyKept, CommandsNoMore
<1>7. CASE q = ToInit
  <2>1. Heads(stack'[c], Step("initialize"), <<>>)
    BY <1>4, <1>7, Ends
  <2>2. NoWorker'
    BY <1>1, <1>4, OthersAreWorkers DEF NoWorker
  <2>3. Control(Step("initialize"), <<>>)'
    BY <2>2 DEF Control, Step
  <2> QED BY <1>1, <1>3, <2>1, <2>3, SteadyKept, CommandsOn
<1> QED BY <1>2, <1>6, <1>7 DEF Then

\* What the state says is all that changes.
Paces ==
  /\ app' = app /\ queueActive' = queueActive /\ log' = log
  /\ sessionEndSent' = sessionEndSent /\ sessionEndProcessed' = sessionEndProcessed
  /\ sessionData' = sessionData /\ threadIds' = threadIds /\ thrCount' = thrCount
  /\ aborted' = aborted /\ failed' = failed /\ taskLock' = taskLock
  /\ queue' = queue /\ abortSent' = abortSent

LEMMA SetStateCommands ==
  ASSUME NEW c \in Users, NEW e, NEW q, Commands(c, e, q), SetState(c)
  PROVE  SInv(c)'
<1>0. /\ Stacks /\ Doing(c, e, q) /\ Control(e, q) /\ Attended /\ stack[c][1] = e
      /\ Arg(c) = e[2] /\ Sound(c)
  BY DEF Commands, Doing, Heads, Arg
<1>1. e[1] = "set" /\ Paces /\ state' = e[2]
  BY <1>0 DEF SetState, At, Paces
<1>2. PICK p : Do(c, p) /\ p = <<>>
  BY DEF SetState
<1>3. stack'[c] = q /\ OthersStay(c)
  BY <1>0, <1>2, Stepping
<1>4. \/ e[2] = "PAUSED" /\ q = <<>> /\ state = "RUNNING"
      \/ /\ e[2] = "RUNNING" /\ state = "PAUSED"
         /\ \/ q = <<>>
            \/ \E k : After(k) /\ q = Push(<<"enter", "SESSION_STOPPING">>, k)
  BY <1>0, <1>1, ControlLines
<1>5. PICK w, f, r : /\ w \in Workers /\ Going /\ Counted(w)
                      /\ Doing(w, f, r) /\ OnLoop(f, r)
  <2>1. state \in {"RUNNING", "PAUSED"}
    BY <1>4
  <2> QED BY <1>0, <2>1, AttendedStates
<1>6. Going'
  <2>1. Rest' = Rest
    BY <1>1, RestEmpty DEF Paces
  <2>2. state' \in {"RUNNING", "PAUSED"}
    BY <1>1, <1>4
  <2> QED BY <1>1, <1>5, <2>1, <2>2 DEF Paces, Going, Unsent, SawBegin
<1>7. Served(w)'
  <2>1. \A v \in Workers : stack'[v] = stack[v]
    BY <1>3, OthersAreWorkers
  <2>2. Counted(w)' /\ Doing(w, f, r)'
    BY <1>1, <1>5, <2>1 DEF Counted, Alone, Doing, Paces
  <2>3. OnLoop(f, r)'
    BY <1>5 DEF OnLoop
  <2>4. Service(f, r)'
    BY <1>6, <2>3 DEF Service, Looping
  <2> QED BY <2>2, <2>4 DEF Served
<1>8. Sound(c)'
  BY <1>0, <1>1, <1>3, SoundKept DEF Paces, Sound
<1>9. Controls(c)'
  <2>1. state' # "INITIALIZED"
    BY <1>1, <1>4
  <2>2. CASE q = <<>>
    BY <1>3, <2>1, <2>2 DEF Controls
  <2>3. CASE \E k : /\ After(k) /\ q = Push(<<"enter", "SESSION_STOPPING">>, k)
                    /\ e[2] = "RUNNING" /\ state = "PAUSED"
    <3>1. PICK k : After(k) /\ q = Push(<<"enter", "SESSION_STOPPING">>, k)
      BY <2>3
    <3>2. PICK g : g = <<"enter", "SESSION_STOPPING">>
      OBVIOUS
    <3>3. Heads(stack'[c], g, k)
      BY <1>3, <3>1, <3>2, AfterHeads, PushedSeq
    <3>4. After(k)' /\ state' = "RUNNING"
      BY <1>1, <2>3, <3>1, EndsKept
    <3>5. Control(g, k)'
      BY <3>2, <3>4 DEF Control
    <3> QED BY <3>3, <3>5, ControlsAt
  <2> QED BY <1>4, <2>2, <2>3
<1>10. w \in Workers
  BY <1>5
<1> QED BY <1>7, <1>8, <1>9, <1>10 DEF SInv, InSession

LEMMA EnterStoppingCommands ==
  ASSUME NEW c \in Users, NEW e, NEW q, Commands(c, e, q), EnterStopping(c)
  PROVE  SInv(c)'
<1>0. /\ Stacks /\ Doing(c, e, q) /\ Control(e, q) /\ Attended /\ stack[c][1] = e
      /\ Arg(c) = e[2] /\ Sound(c)
  BY DEF Commands, Doing, Heads, Arg
<1>1. e[1] = "enter" /\ e[2] = "SESSION_STOPPING" /\ Paces /\ state' = "SESSION_STOPPING"
  BY <1>0 DEF EnterStopping, At, Paces
<1>2. PICK p : Do(c, p) /\ p = <<Step("stopping")>>
  BY DEF EnterStopping
<1>3. Heads(stack'[c], Step("stopping"), q) /\ OthersStay(c)
  BY <1>0, <1>2, Stepping
<1>4. After(q) /\ state = "RUNNING"
  BY <1>0, <1>1, ControlLines
<1>5. PICK w, f, r : /\ w \in Workers /\ Going /\ Counted(w)
                      /\ Doing(w, f, r) /\ OnLoop(f, r)
  BY <1>0, <1>4, AttendedStates
<1>6. Owed' /\ ~abortSent'
  <2>1. Rest' = Rest
    BY <1>1, RestEmpty DEF Paces
  <2> QED BY <1>1, <1>5, <2>1 DEF Paces, Going, Owed, AtEnd, Unsent, SawBegin
<1>7. Waited(w)'
  <2>1. \A v \in Workers : stack'[v] = stack[v]
    BY <1>3, OthersAreWorkers
  <2>2. Counted(w)' /\ Doing(w, f, r)'
    BY <1>1, <1>5, <2>1 DEF Counted, Alone, Doing, Paces
  <2>3. OnLoop(f, r)'
    BY <1>5 DEF OnLoop
  <2> QED BY <1>6, <2>2, <2>3 DEF Waited
<1>8. Sound(c)'
  BY <1>0, <1>1, <1>3, SoundKept DEF Paces, Sound
<1>9. Owes(c)'
  <2>1. After(q)'
    BY <1>1, <1>4, EndsKept
  <2>2. Owing(Step("stopping"), q)'
    BY <1>6, <2>1 DEF Owing, Step
  <2> QED BY <1>3, <2>2, OwesAt
<1>10. w \in Workers
  BY <1>5
<1> QED BY <1>7, <1>8, <1>9, <1>10 DEF SInv, InSession

\* What is left of a session when the queue is closed.
LEMMA QueueCloses ==
  ASSUME Settled, state' = state, app' = app, log' = log,
         sessionEndSent' = sessionEndSent, sessionEndProcessed' = sessionEndProcessed,
         taskLock' = taskLock, queue' = <<>>, ~queueActive', NEW e, NEW q, Service(e, q)
  PROVE  Service(e, q)' /\ Settled'
<1>1. Rest' = <<>>
  BY RestEmpty
<1>2. /\ Unsent' = Unsent /\ Sent' = Sent /\ Done' = Done
      /\ SawBegin' = SawBegin /\ SawEnd' = SawEnd /\ SawAll' = SawAll /\ MayStop'
  BY <1>1 DEF Unsent, Sent, Done, SawBegin, SawEnd, SawAll, MayStop
<1>3. ~Fresh /\ ~Taken /\ ~Begun /\ ~Going /\ ~Queued
  BY DEF Settled, Later, Fresh, Taken, Begun, Starts, Going, Queued
<1>4. /\ (Leaving => Leaving') /\ (EndAtHand => EndAtHand') /\ (EndQueued => EndQueued')
      /\ (EndTaken => EndTaken') /\ (EndPassed => EndPassed')
  BY <1>1, <1>2 DEF Leaving, EndAtHand, EndQueued, EndTaken, EndPassed, AtEnd
<1>5. (Ended => Ended') /\ (Stopped => Stopped') /\ (Finishing => Finishing') /\ (Over => Over')
  BY <1>2 DEF Ended, Stopped, Finishing, Over
<1>6. Looping => Looping'
  BY <1>3, <1>4, <1>5 DEF Looping
<1>7. Service(e, q)'
  BY <1>3, <1>4, <1>5, <1>6 DEF Service, OnLoop, Aborting
<1>8. Settled'
  <2>1. <<>> # <<"STOP">>
    OBVIOUS
  <2> QED BY <1>1, <2>1 DEF Settled
<1> QED BY <1>7, <1>8

LEMMA CloseQueueCommands ==
  ASSUME NEW c \in Users, NEW e, NEW q, Commands(c, e, q), CloseQueue(c)
  PROVE  SInv(c)'
<1>0. /\ Stacks /\ Doing(c, e, q) /\ Control(e, q) /\ Attended /\ stack[c][1] = e /\ Sound(c)
  BY DEF Commands, Doing, Heads
<1>1. /\ e[1] = "close_queue" /\ queue' = <<>> /\ ~queueActive'
      /\ app' = app /\ log' = log /\ state' = state
      /\ sessionEndSent' = sessionEndSent /\ sessionEndProcessed' = sessionEndProcessed
      /\ sessionData' = sessionData /\ threadIds' = threadIds /\ thrCount' = thrCount
      /\ aborted' = aborted /\ failed' = failed /\ taskLock' = taskLock
  BY <1>0 DEF CloseQueue, At
<1>2. PICK p : Do(c, p) /\ p = <<>>
  BY DEF CloseQueue
<1>3. stack'[c] = q /\ OthersStay(c)
  BY <1>0, <1>2, Stepping
<1>4. Settled /\ \E k : Then(k) /\ q = ToAwait(k)
  BY <1>0, <1>1, ControlLines
<1>5. PICK k : Then(k) /\ q = ToAwait(k)
  BY <1>4
<1>6. Sound(c)'
  BY <1>0, <1>1, <1>3, SoundKept DEF Sound
<1>7. Controls(c)'
  <2>1. Heads(stack'[c], Step("wait_threads"), k)
    BY <1>3, <1>5, ThenSeq, ToAwaitSeq
  <2>2. Then(k)'
    BY <1>1, <1>5, EndsKept
  <2>3. Settled'
    <3>1. Rest' = <<>> /\ <<>> # <<"STOP">>
      BY <1>1, RestEmpty
    <3> QED BY <1>1, <1>4, <3>1 DEF Settled
  <2>4. Control(Step("wait_threads"), k)'
    BY <2>2, <2>3 DEF Control, Step
  <2> QED BY <2>1, <2>4, ControlsAt
<1>8. \A v \in Workers : stack'[v] = stack[v]
  BY <1>3, OthersAreWorkers
<1>9. NoWorker' = NoWorker /\ \A w \in Workers : Alone(w)' = Alone(w) /\ Counted(w)' = Counted(w)
  BY <1>1, <1>8 DEF NoWorker, Alone, Counted
<1>10. CASE Gone
  <2>1. Gone'
    BY <1>1, <1>9, <1>10 DEF Gone, SawAll, Done
  <2> QED BY <1>6, <1>7, <2>1 DEF SInv, InSession
<1>11. ASSUME NEW w \in Workers, Served(w) PROVE Served(w)'
  <2>1. PICK f, r : Doing(w, f, r) /\ Service(f, r) /\ Counted(w)
    BY <1>11 DEF Served
  <2>2. Service(f, r)'
    BY <1>1, <1>4, <2>1, QueueCloses
  <2>3. Doing(w, f, r)' /\ Counted(w)'
    BY <1>8, <1>9, <2>1 DEF Doing
  <2> QED BY <2>2, <2>3 DEF Served
<1>12. ASSUME NEW w \in Workers, Closed(w) PROVE Closed(w)'
  <2>1. PICK f, r : Doing(w, f, r) /\ Closing(f, r) /\ Alone(w) /\ thrCount = 0 /\ Over
    BY <1>12 DEF Closed
  <2>2. Over'
    <3>1. Rest' = <<>>
      BY <1>1, RestEmpty
    <3> QED BY <1>1, <2>1, <3>1 DEF Over, SawAll, Done, MayStop
  <2>3. Closing(f, r)'
    BY <1>1, <2>1 DEF Closing
  <2>4. Doing(w, f, r)' /\ Alone(w)' /\ thrCount' = 0
    BY <1>1, <1>8, <1>9, <2>1 DEF Doing
  <2> QED BY <2>2, <2>3, <2>4 DEF Closed
<1> QED BY <1>0, <1>6, <1>7, <1>10, <1>11, <1>12 DEF SInv, InSession, Attended

LEMMA InitializeCommands ==
  ASSUME NEW c \in Users, NEW e, NEW q, Commands(c, e, q), Initialize(c)
  PROVE  SInv(c)'
<1>0. /\ Stacks /\ Doing(c, e, q) /\ Control(e, q) /\ Attended /\ stack[c][1] = e /\ Sound(c)
  BY DEF Commands, Doing, Heads
<1>1. /\ e[1] = "initialize" /\ queue' = queue /\ queueActive' /\ ~abortSent'
      /\ app' = app /\ log' = log /\ state' = state
      /\ sessionEndSent' = sessionEndSent /\ sessionEndProcessed' = sessionEndProcessed
      /\ sessionData' = sessionData /\ threadIds' = threadIds /\ thrCount' = thrCount
      /\ aborted' = aborted /\ failed' = failed /\ taskLock' = taskLock
  BY <1>0 DEF Initialize, At
<1>2. PICK f, p : Do(c, p) /\ p = <<f>> /\ f = <<"change", "INITIALIZED">>
  BY DEF Initialize
<1>3. q = <<>> /\ NoWorker
  BY <1>0, <1>1, ControlLines
<1>4. Heads(stack'[c], f, <<>>) /\ OthersStay(c)
  BY <1>0, <1>2, <1>3, Stepping
<1>5. Gone
  BY <1>0, <1>3, AttendedStates
<1>6. Sound(c)'
  BY <1>0, <1>1, <1>4, SoundKept DEF Sound
<1>7. Bare'
  <2>1. NoWorker'
    BY <1>3, <1>4, OthersAreWorkers DEF NoWorker
  <2> QED BY <1>1, <1>5, <2>1 DEF Bare, Gone
<1>8. Preparing(c)'
  <2>1. Rest' = <<>>
    BY <1>1, <1>5, RestEmpty DEF Gone
  <2>2. Past'
    BY <1>1, <1>5, <2>1 DEF Past, Gone, SawAll
  <2>3. Prepares(f, <<>>)'
    BY <1>2, <2>2 DEF Prepares
  <2> QED BY <1>4, <2>3 DEF Preparing, Doing
<1> QED BY <1>6, <1>7, <1>8 DEF SInv, InSession

\* What that thread is never at while a session is attended.
LEMMA NotCommanded ==
  ASSUME NEW c, NEW e, NEW q, Control(e, q), stack[c][1] = e
  PROVE  /\ ~EnterInitialized(c) /\ ~EnterStarting(c) /\ ~Starting(c) /\ ~Spawn(c)
         /\ ~Stopping(c) /\ ~EnterStopped(c) /\ ~EnterFinished(c)
         /\ ~Put(c) /\ ~PutError(c) /\ ~PutStop(c) /\ ~PutStopHead(c)
         /\ ~Finished(c) /\ ~SendEnd(c) /\ ~Notify(c)
         /\ ~ProcessEnd(c) /\ ~Deliver(c) /\ ~OnEvent(c) /\ ~SessionEnd(c)
         /\ ~Start(c) /\ ~LentJoined(c)
         /\ Serve(c) => Unlock(c)
<1>1. /\ e[1] = "enter" => e[2] \in {"RUNNING", "PAUSED", "SESSION_STOPPING"}
      /\ e[1] \in {"stop", "stop_state", "change", "enter", "set", "abort", "abort_sent",
                   "handle", "unlock", "wait", "join", "module_closed", "close_queue",
                   "wait_threads", "initialize"}
  <2>1. e[1] = "enter" => e[2] \in {"RUNNING", "PAUSED", "SESSION_STOPPING"}
    BY ControlLines
  <2> QED BY <2>1, ControlLines
<1>2. \A l : At(c, l) => e[1] = l
  BY DEF At
<1>3. Arg(c) = e[2]
  BY DEF Arg
<1>4. ~EnterInitialized(c) /\ ~EnterStarting(c) /\ ~EnterStopped(c) /\ ~EnterFinished(c)
  BY <1>1, <1>2, <1>3 DEF EnterInitialized, EnterStarting, EnterStopped, EnterFinished
<1>5. ~Starting(c) /\ ~Spawn(c) /\ ~Stopping(c)
  BY <1>1, <1>2 DEF Starting, StartingWith, Spawn, Stopping, StoppingWith
<1>6. ~Put(c) /\ ~PutError(c) /\ ~PutStop(c) /\ ~PutStopHead(c)
  BY <1>1, <1>2 DEF Put, PutError, PutStop, PutStopHead
<1>7. ~Finished(c) /\ ~SendEnd(c) /\ ~Notify(c)
  BY <1>1, <1>2 DEF Finished, SendEnd, Notify, NotifyAborted, NotifyEnd, NotifyControl,
              NotifyControlThen
<1>8. ~ProcessEnd(c) /\ ~Deliver(c) /\ ~OnEvent(c) /\ ~SessionEnd(c)
      /\ ~Start(c) /\ ~LentJoined(c)
  BY <1>1, <1>2 DEF ProcessEnd, Deliver, OnEvent, SessionEnd, Start, LentJoined
<1>9. Serve(c) => Unlock(c)
  BY <1>1, <1>2 DEF Serve, Svc, GetQ, GetQShutdown, StopProcessing, Leave, LeaveIf,
              Exit, ExitBy, ClearThreadIds, Deactivate, Flush, FlushTo, Release
<1> QED BY <1>4, <1>5, <1>6, <1>7, <1>8, <1>9

LEMMA CommandedStep ==
  ASSUME NEW c \in Users, NEW e, NEW q, Commands(c, e, q), Run(c)
  PROVE  SInv(c)'
<1>1. Control(e, q) /\ stack[c][1] = e
  BY DEF Commands, Doing, Heads
<1>2. /\ ~EnterInitialized(c) /\ ~EnterStarting(c) /\ ~Starting(c) /\ ~Spawn(c)
      /\ ~Stopping(c) /\ ~EnterStopped(c) /\ ~EnterFinished(c)
      /\ ~Put(c) /\ ~PutError(c) /\ ~PutStop(c) /\ ~PutStopHead(c)
      /\ ~Finished(c) /\ ~SendEnd(c) /\ ~Notify(c)
      /\ ~ProcessEnd(c) /\ ~Deliver(c) /\ ~OnEvent(c) /\ ~SessionEnd(c)
      /\ ~Start(c) /\ ~LentJoined(c)
      /\ Serve(c) => Unlock(c)
  BY <1>1, NotCommanded
<1>3. Change(c) \/ SetState(c) => SInv(c)'
  BY ChangeCommands, SetStateCommands
<1>4. OnChange(c) => SInv(c)'
  BY <1>2, EnterCommands, EnterStoppingCommands DEF OnChange
<1>5. PutMessage(c) => SInv(c)'
  BY <1>2, AbortCommands, HandleCommands DEF PutMessage
<1>6. Message(c) => SInv(c)'
  BY <1>2, HandleCommands DEF Message
<1>7. Serve(c) => SInv(c)'
  BY <1>2, UnlockCommands
<1>8. Interface(c) => SInv(c)'
  BY <1>2, StopCommands, StopStateCommands, WaitCommands, JoinCommands, ModuleClosedCommands,
     CloseQueueCommands, WaitThreadsCommands, InitializeCommands DEF Interface
<1> QED BY <1>2, <1>3, <1>4, <1>5, <1>6, <1>7, <1>8 DEF Run

-----------------------------------------------------------------------------
(* The steps of that thread, while the worker waits for MB_STOP. *)

\* That thread has MB_STOP to queue for worker w, and is at step e.
Halts(c, w, e, q) ==
  /\ Sound(c) /\ Stacks /\ queue \in Seq(Kinds) /\ Waited(w)
  /\ Doing(c, e, q) /\ Owing(e, q)

LEMMA OwingLines ==
  ASSUME NEW e, NEW q, Owing(e, q)
  PROVE  /\ e[1] = "stopping" => After(q) /\ ~abortSent
         /\ e[1] \in {"put_stop", "put_stop_head"} => After(q)
         /\ e[1] \in {"abort", "abort_sent"} =>
              \E k : After(k) /\ q = Push(Step("put_stop_head"), k)
         /\ e[1] = "handle" =>
              /\ e[2] = "CONTROL_ABORT"
              /\ \E k : After(k) /\ q = Push(Step("abort_sent"), Push(Step("put_stop_head"), k))
         /\ e[1] \in {"stopping", "put_stop", "put_stop_head", "abort", "abort_sent", "handle"}
<1>1. e[1] = "stopping" => After(q) /\ ~abortSent
  BY DEF Owing, Aborting
<1>2. e[1] \in {"put_stop", "put_stop_head"} => After(q)
  BY DEF Owing, Aborting
<1>3. e[1] \in {"abort", "abort_sent"} => \E k : After(k) /\ q = Push(Step("put_stop_head"), k)
  BY DEF Owing, Aborting
<1>4. e[1] = "handle" =>
        /\ e[2] = "CONTROL_ABORT"
        /\ \E k : After(k) /\ q = Push(Step("abort_sent"), Push(Step("put_stop_head"), k))
  BY DEF Owing, Aborting
<1>5. e[1] \in {"stopping", "put_stop", "put_stop_head", "abort", "abort_sent", "handle"}
  BY DEF Owing, Aborting
<1> QED BY <1>1, <1>2, <1>3, <1>4, <1>5

LEMMA HaltsOn ==
  ASSUME NEW c \in Users, NEW w \in Workers, NEW e, NEW q, Halts(c, w, e, q), NEW p, Do(c, p),
         Kept, NEW f, NEW r, Heads(stack'[c], f, r), Owing(f, r)'
  PROVE  SInv(c)'
<1>1. Sound(c) /\ Waited(w) /\ Stacks /\ Doing(c, e, q)
  BY DEF Halts
<1>2. OthersStay(c)
  BY <1>1, Stepping
<1>3. Owes(c)'
  BY OwesAt
<1> QED BY <1>1, <1>2, <1>3, OwesOn

LEMMA HaltsFacts ==
  ASSUME NEW c \in Users, NEW w \in Workers, NEW e, NEW q, Halts(c, w, e, q)
  PROVE  /\ Sound(c) /\ Stacks /\ queue \in Seq(Kinds) /\ Waited(w) /\ Doing(c, e, q)
         /\ Owing(e, q) /\ c \in Threads /\ stack[c][1] = e /\ Arg(c) = e[2]
         /\ Counted(w) /\ Owed /\ state = "SESSION_STOPPING" /\ state \in Later
BY DEF Halts, Doing, Heads, Arg, Threads, Waited, Owed, AtEnd, Later

LEMMA StoppingHalts ==
  ASSUME NEW c \in Users, NEW w \in Workers, NEW e, NEW q, Halts(c, w, e, q), Stopping(c)
  PROVE  SInv(c)'
<1>0. /\ Stacks /\ Doing(c, e, q) /\ Owing(e, q) /\ stack[c][1] = e
      /\ sessionData /\ ~aborted /\ ~Inline
  BY HaltsFacts DEF Counted, Alone, Sound, ControlledBy, Inline, Mode
<1>1. e[1] = "stopping"
  BY <1>0 DEF Stopping, StoppingWith, At
<1>2. After(q) /\ ~abortSent
  BY <1>0, <1>1, OwingLines
<1>3. Steady
  BY <1>0 DEF Stopping, StoppingWith, Check, Steady
<1>4. PICK p : Do(c, p) /\ p = Cat(<<Step("put_stop")>>, <<>>)
  BY <1>0, <1>2 DEF Stopping, StoppingWith, Cat
<1>5. p = <<Step("put_stop")>>
  BY <1>4, JoinedEmpty
<1>6. Heads(stack'[c], Step("put_stop"), q)
  BY <1>0, <1>4, <1>5, Stepping
<1>7. After(q)'
  BY <1>2, <1>3, EndsKept DEF Steady
<1>8. Owing(Step("put_stop"), q)'
  BY <1>7 DEF Owing, Step
<1> QED BY <1>3, <1>4, <1>6, <1>8, SteadyKept, HaltsOn

\* MB_STOP is queued; a wait() follows, if it was asked for.
LEMMA StopQueued ==
  ASSUME NEW c \in Users, NEW w \in Workers, NEW e, NEW q, Halts(c, w, e, q), NEW p, Do(c, p),
         p = <<>>, After(q),
         app' = app, state' = state, queueActive' = queueActive, log' = log,
         sessionEndSent' = sessionEndSent, sessionEndProcessed' = sessionEndProcessed,
         sessionData' = sessionData, threadIds' = threadIds, thrCount' = thrCount,
         aborted' = aborted, failed' = failed, taskLock' = taskLock,
         Rest' = <<"STOP">>
  PROVE  SInv(c)'
<1>0. /\ Stacks /\ Doing(c, e, q) /\ Sound(c) /\ Waited(w) /\ Owed /\ Counted(w)
      /\ state = "SESSION_STOPPING"
  BY HaltsFacts
<1>1. stack'[c] = q /\ OthersStay(c)
  BY <1>0, Stepping
<1>2. Queued'
  BY <1>0 DEF Owed, Queued, AtEnd, Unsent, SawBegin
<1>3. Served(w)'
  <2>1. \A v \in Workers : stack'[v] = stack[v]
    BY <1>1, OthersAreWorkers
  <2>2. PICK f, r : Doing(w, f, r) /\ OnLoop(f, r)
    BY <1>0 DEF Waited
  <2>3. Counted(w)' /\ Doing(w, f, r)'
    BY <1>0, <2>1, <2>2 DEF Counted, Alone, Doing
  <2>4. OnLoop(f, r)'
    BY <2>2 DEF OnLoop
  <2>5. Service(f, r)'
    BY <1>2, <2>4 DEF Service, Looping
  <2> QED BY <2>3, <2>5 DEF Served
<1>4. Sound(c)'
  BY <1>0, <1>1, SoundKept DEF Sound
<1>5. Controls(c)'
  <2>1. PICK f, k : /\ Heads(stack'[c], f, k) /\ f[1] = "wait"
                    /\ \/ f[2] = FALSE /\ k = <<>>
                       \/ f[2] = TRUE /\ Waits(k)
    BY <1>1, AfterHeads
  <2>2. Waits(k) => Waits(k)'
    BY EndsKept
  <2>3. state' \in Since
    BY <1>0 DEF Since, Later
  <2>4. Control(f, k)'
    BY <2>1, <2>2, <2>3 DEF Control
  <2> QED BY <2>1, <2>4, ControlsAt
<1> QED BY <1>3, <1>4, <1>5 DEF SInv, InSession

LEMMA PutStopHalts ==
  ASSUME NEW c \in Users, NEW w \in Workers, NEW e, NEW q, Halts(c, w, e, q),
         PutStop(c) \/ PutStopHead(c)
  PROVE  SInv(c)'
<1>0. /\ Stacks /\ Doing(c, e, q) /\ Owing(e, q) /\ stack[c][1] = e /\ queue \in Seq(Kinds)
      /\ threadIds # {} /\ queueActive /\ Rest = <<>>
  BY HaltsFacts DEF Counted, Owed
<1>1. /\ e[1] \in {"put_stop", "put_stop_head"}
      /\ app' = app /\ state' = state /\ queueActive' = queueActive /\ log' = log
      /\ sessionEndSent' = sessionEndSent /\ sessionEndProcessed' = sessionEndProcessed
      /\ sessionData' = sessionData /\ threadIds' = threadIds /\ thrCount' = thrCount
      /\ aborted' = aborted /\ failed' = failed /\ taskLock' = taskLock
      /\ abortSent' = abortSent
  BY <1>0 DEF PutStop, PutStopHead, At
<1>2. After(q)
  BY <1>0, <1>1, OwingLines
<1>3. CASE PutStop(c) /\ isHighPriorityStop
  <2>1. PICK p : Do(c, p) /\ p = <<Step("abort"), Step("put_stop_head")>> /\ queue' = queue
    BY <1>3 DEF PutStop
  <2>2. Steady
    BY <1>1, <2>1 DEF Steady
  <2>3. Heads(stack'[c], Step("abort"), Push(Step("put_stop_head"), q))
    BY <1>0, <2>1, Stepping
  <2>4. After(q)'
    BY <1>1, <1>2, EndsKept
  <2>5. Owing(Step("abort"), Push(Step("put_stop_head"), q))'
    BY <2>4 DEF Owing, Aborting, Step
  <2> QED BY <2>1, <2>2, <2>3, <2>5, SteadyKept, HaltsOn
<1>4. CASE ~(PutStop(c) /\ isHighPriorityStop)
  <2>1. PICK p : Do(c, p) /\ p = <<>>
    BY <1>4 DEF PutStop, PutStopHead
  <2>2. queue' = Append(queue, "STOP") \/ queue' = <<"STOP">> \o queue
    <3>1. CASE PutStop(c)
      BY <1>0, <1>4, <3>1 DEF PutStop, Enqueue
    <3>2. CASE PutStopHead(c)
      BY <1>0, <3>2 DEF PutStopHead, EnqueueHead
    <3> QED BY <3>1, <3>2
  <2>3. Rest' = <<"STOP">>
    <3>1. "STOP" \in Kinds /\ "STOP" \notin Overlooked
      BY DEF Kinds, Overlooked
    <3>2. CASE queue' = Append(queue, "STOP")
      BY <1>0, <3>1, <3>2, RestAppends
    <3>3. CASE queue' = <<"STOP">> \o queue
      BY <1>0, <3>1, <3>3, RestPrepends
    <3> QED BY <2>2, <3>2, <3>3
  <2> QED BY <1>1, <1>2, <2>1, <2>3, StopQueued
<1> QED BY <1>3, <1>4

LEMMA AbortHalts ==
  ASSUME NEW c \in Users, NEW w \in Workers, NEW e, NEW q, Halts(c, w, e, q), ControlAbort(c)
  PROVE  SInv(c)'
<1>0. /\ Stacks /\ Doing(c, e, q) /\ Owing(e, q) /\ c \in Threads /\ queue \in Seq(Kinds)
  BY HaltsFacts
<1>1. PICK f, g, p : /\ Do(c, p)
                     /\ f = <<"handle", "CONTROL_ABORT">> /\ g = Step("abort_sent")
                     /\ p = <<g>> \/ p = <<>> \/ p = <<f, g>>
  BY <1>0, AbortKeeps
<1>2. Kept /\ e[1] = "abort"
  BY <1>0, <1>1, AbortKeeps, Stepping
<1>3. PICK k : After(k) /\ q = Push(Step("put_stop_head"), k)
  BY <1>0, <1>2, OwingLines
<1>4. After(k)'
  BY <1>2, <1>3, EndsKept DEF Kept
<1>5. CASE p = <<g>>
  <2>1. Heads(stack'[c], g, q)
    BY <1>0, <1>1, <1>5, Stepping
  <2>2. Owing(g, q)'
    BY <1>1, <1>3, <1>4 DEF Owing, Aborting, Step
  <2> QED BY <1>1, <1>2, <2>1, <2>2, HaltsOn
<1>6. CASE p = <<>>
  <2>1. stack'[c] = q
    BY <1>0, <1>1, <1>6, Stepping
  <2>2. Heads(stack'[c], Step("put_stop_head"), k)
    BY <1>3, <2>1, AfterHeads, PushedSeq
  <2>3. Owing(Step("put_stop_head"), k)'
    BY <1>4 DEF Owing, Step
  <2> QED BY <1>1, <1>2, <2>2, <2>3, HaltsOn
<1>7. CASE p = <<f, g>>
  <2>1. Heads(stack'[c], f, Push(g, q))
    BY <1>0, <1>1, <1>7, Stepping
  <2>2. Owing(f, Push(g, q))'
    BY <1>1, <1>3, <1>4 DEF Owing, Aborting
  <2> QED BY <1>1, <1>2, <2>1, <2>2, HaltsOn
<1> QED BY <1>1, <1>5, <1>6, <1>7

LEMMA HandleHalts ==
  ASSUME NEW c \in Users, NEW w \in Workers, NEW e, NEW q, Halts(c, w, e, q),
         Handle(c) \/ AbortSent(c)
  PROVE  SInv(c)'
<1>0. /\ Stacks /\ Doing(c, e, q) /\ Owing(e, q) /\ c \in Threads /\ queue \in Seq(Kinds)
      /\ stack[c][1] = e /\ Arg(c) = e[2] /\ state \in Later
  BY HaltsFacts
<1>1. CASE Handle(c)
  <2>1. e[1] = "handle"
    BY <1>0, <1>1 DEF Handle, At
  <2>2. e[2] = "CONTROL_ABORT"
    BY <1>0, <2>1, OwingLines
  <2>3. PICK k : After(k) /\ q = Push(Step("abort_sent"), Push(Step("put_stop_head"), k))
    BY <1>0, <2>1, OwingLines
  <2>4. Kept
    BY <1>0, <1>1, <2>2, HandleKeeps
  <2>5. PICK p : Do(c, p) /\ p = <<>>
    BY <1>0, <1>1, <2>2, HandleKeeps
  <2>6. stack'[c] = q
    BY <1>0, <2>5, Stepping
  <2>7. Heads(stack'[c], Step("abort_sent"), Push(Step("put_stop_head"), k))
    BY <2>3, <2>6, AfterHeads, PushedSeq
  <2>8. After(k)'
    BY <2>3, <2>4, EndsKept DEF Kept
  <2>9. Owing(Step("abort_sent"), Push(Step("put_stop_head"), k))'
    BY <2>8 DEF Owing, Aborting, Step
  <2> QED BY <2>4, <2>5, <2>7, <2>9, HaltsOn
<1>2. CASE AbortSent(c)
  <2>1. e[1] = "abort_sent"
    BY <1>0, <1>2 DEF AbortSent, At
  <2>2. PICK k : After(k) /\ q = Push(Step("put_stop_head"), k)
    BY <1>0, <2>1, OwingLines
  <2>4. Kept
    BY <1>0, <1>2, AbortSentKeeps
  <2>5. PICK p : Do(c, p) /\ p = <<>>
    BY <1>0, <1>2, AbortSentKeeps
  <2>6. stack'[c] = q
    BY <1>0, <2>5, Stepping
  <2>7. Heads(stack'[c], Step("put_stop_head"), k)
    BY <2>2, <2>6, AfterHeads, PushedSeq
  <2>8. After(k)'
    BY <2>2, <2>4, EndsKept DEF Kept
  <2>9. Owing(Step("put_stop_head"), k)'
    BY <2>8 DEF Owing, Step
  <2> QED BY <2>4, <2>5, <2>7, <2>9, HaltsOn
<1> QED BY <1>1, <1>2

LEMMA HaltingStep ==
  ASSUME NEW c \in Users, NEW w \in Workers, NEW e, NEW q, Halts(c, w, e, q), Run(c)
  PROVE  SInv(c)'
<1>0. stack[c][1] = e /\ Owing(e, q)
  BY HaltsFacts
<1>1. e[1] \in {"stopping", "put_stop", "put_stop_head", "abort", "abort_sent", "handle"}
  BY <1>0, OwingLines
<1>2. \A l : At(c, l) => e[1] = l
  BY <1>0 DEF At
<1>3. ~Change(c) /\ ~SetState(c) /\ ~Finished(c) /\ ~SendEnd(c)
  BY <1>1, <1>2 DEF Change, SetState, Finished, SendEnd
<1>4. OnChange(c) => Stopping(c)
  BY <1>1, <1>2 DEF OnChange, EnterInitialized, EnterStarting, Starting, StartingWith, Spawn,
              EnterRunning, EnterPaused, EnterStopping, EnterStopped, EnterFinished
<1>5. PutMessage(c) => PutStop(c) \/ PutStopHead(c) \/ ControlAbort(c) \/ AbortSent(c)
  BY <1>1, <1>2 DEF PutMessage, Put, PutError
<1>6. ~Notify(c) /\ (Message(c) => Handle(c))
  BY <1>1, <1>2 DEF Notify, NotifyAborted, NotifyEnd, NotifyControl, NotifyControlThen,
              Message, ProcessEnd, Deliver, OnEvent, SessionEnd
<1>7. ~Interface(c)
  BY <1>1, <1>2 DEF Interface, Start, Stop, StopState, WaitState, Join, LentJoined, ModuleClosed, CloseQueue,
              WaitThreads, Initialize
<1>8. ~Serve(c)
  BY <1>1, <1>2 DEF Serve, Svc, GetQ, GetQShutdown, Unlock, StopProcessing, Leave, LeaveIf,
              Exit, ExitBy, ClearThreadIds, Deactivate, Flush, FlushTo, Release
<1> QED BY <1>3, <1>4, <1>5, <1>6, <1>7, <1>8, StoppingHalts, PutStopHalts, AbortHalts,
           HandleHalts DEF Run

-----------------------------------------------------------------------------
(* The steps of that thread between the sessions. *)

\* That thread prepares a session, or starts one, and is at step e.
Founds(c, e, q) ==
  /\ Sound(c) /\ Stacks /\ queue \in Seq(Kinds) /\ Bare
  /\ Doing(c, e, q) /\ Prepares(e, q)

LEMMA FoundsFacts ==
  ASSUME NEW c \in Users, NEW e, NEW q, Founds(c, e, q)
  PROVE  /\ Sound(c) /\ Stacks /\ queue \in Seq(Kinds) /\ Bare /\ Doing(c, e, q)
         /\ Prepares(e, q) /\ c \in Threads /\ stack[c][1] = e /\ Arg(c) = e[2]
BY DEF Founds, Doing, Heads, Arg, Threads

LEMMA PreparesLines ==
  ASSUME NEW e, NEW q, Prepares(e, q)
  PROVE  /\ e[1] = "start" => q = <<>> /\ Prepared
         /\ e[1] \in {"change", "enter"} =>
              \/ e[2] = "SESSION_STARTING" /\ q = <<>> /\ Prepared
              \/ e[2] = "INITIALIZED" /\ q = <<>> /\ Past
         /\ e[1] = "starting" => q = <<>> /\ Opened
         /\ e[1] = "put" => e[2] = "BEGIN" /\ q = Push(Step("spawn"), <<>>) /\ Taken /\ sessionData
         /\ e[1] = "spawn" => q = <<>> /\ Fresh /\ sessionData
         /\ e[1] = "set" => e[2] = "INITIALIZED" /\ q = <<>> /\ Past /\ Unsent
         /\ e[1] \in {"start", "change", "enter", "starting", "put", "spawn", "set"}
<1>1. e[1] = "start" => q = <<>> /\ Prepared
  BY DEF Prepares
<1>2. e[1] \in {"change", "enter"} =>
        \/ e[2] = "SESSION_STARTING" /\ q = <<>> /\ Prepared
        \/ e[2] = "INITIALIZED" /\ q = <<>> /\ Past
  BY DEF Prepares
<1>3. e[1] = "starting" => q = <<>> /\ Opened
  BY DEF Prepares
<1>4. e[1] = "put" => e[2] = "BEGIN" /\ q = Push(Step("spawn"), <<>>) /\ Taken /\ sessionData
  BY DEF Prepares
<1>5. e[1] = "spawn" => q = <<>> /\ Fresh /\ sessionData
  BY DEF Prepares
<1>6. e[1] = "set" => e[2] = "INITIALIZED" /\ q = <<>> /\ Past /\ Unsent
  BY DEF Prepares
<1>7. e[1] \in {"start", "change", "enter", "starting", "put", "spawn", "set"}
  BY DEF Prepares
<1> QED BY <1>1, <1>2, <1>3, <1>4, <1>5, <1>6, <1>7

\* Nothing is spawned meanwhile.
Spawnless ==
  /\ app' = app /\ failed' = failed /\ ~aborted' /\ log'["ABORT"] = 0 /\ taskLock' = taskLock
  /\ thrCount' = thrCount /\ threadIds' = {} /\ queueActive' = queueActive
  /\ abortSent' = abortSent

LEMMA FoundsOn ==
  ASSUME NEW c \in Users, NEW e, NEW q, Founds(c, e, q), NEW p, Do(c, p), Spawnless, Preparing(c)'
  PROVE  SInv(c)'
<1>1. Sound(c) /\ Bare /\ Stacks /\ Doing(c, e, q)
  BY DEF Founds
<1>2. OthersStay(c)
  BY <1>1, Stepping
<1>3. Sound(c)'
  BY <1>1, <1>2, SoundKept DEF Spawnless
<1>4. NoWorker'
  BY <1>1, <1>2, OthersAreWorkers DEF NoWorker, Bare
<1>5. Bare'
  BY <1>1, <1>4 DEF Bare, Spawnless
<1> QED BY <1>3, <1>5 DEF SInv, InSession

LEMMA PreparingAt ==
  ASSUME NEW c, NEW f, NEW r, Heads(stack'[c], f, r), Prepares(f, r)'
  PROVE  Preparing(c)'
BY DEF Preparing, Doing

LEMMA StartFounds ==
  ASSUME NEW c \in Users, NEW e, NEW q, Founds(c, e, q), Start(c)
  PROVE  SInv(c)'
<1>0. /\ Sound(c) /\ Stacks /\ Bare /\ Doing(c, e, q) /\ Prepares(e, q) /\ stack[c][1] = e
  BY FoundsFacts
<1>1. e[1] = "start" /\ Steady
  BY <1>0 DEF Start, At, Steady
<1>2. q = <<>> /\ Prepared
  BY <1>0, <1>1, PreparesLines
<1>3. ~IsRunning
  BY <1>2 DEF Prepared, IsRunning
<1>4. PICK f, p : Do(c, p) /\ p = <<f>> /\ f = <<"change", "SESSION_STARTING">>
  BY <1>3 DEF Start
<1>5. Heads(stack'[c], f, <<>>)
  BY <1>0, <1>2, <1>4, Stepping
<1>6. Prepared'
  BY <1>1, <1>2, RestEmpty DEF Steady, Prepared, Unsent, Tidy, SawNothing, SawAll
<1>7. Preparing(c)'
  <2>1. Prepares(f, <<>>)'
    BY <1>4, <1>6 DEF Prepares
  <2> QED BY <1>5, <2>1, PreparingAt
<1>8. Spawnless
  BY <1>0, <1>1 DEF Steady, Spawnless, Sound, Bare
<1> QED BY <1>4, <1>7, <1>8, FoundsOn

LEMMA ChangeFounds ==
  ASSUME NEW c \in Users, NEW e, NEW q, Founds(c, e, q), Change(c)
  PROVE  SInv(c)'
<1>0. /\ Sound(c) /\ Stacks /\ Bare /\ Doing(c, e, q) /\ Prepares(e, q) /\ stack[c][1] = e
      /\ Arg(c) = e[2] /\ c \in Threads
  BY FoundsFacts
<1>1. e[1] = "change" /\ Steady
  BY <1>0 DEF Change, At, Steady
<1>2. \/ e[2] = "SESSION_STARTING" /\ q = <<>> /\ Prepared
      \/ e[2] = "INITIALIZED" /\ q = <<>> /\ Past
  BY <1>0, <1>1, PreparesLines
<1>3. <<state, Arg(c)>> \in Allowed /\ state # "PAUSED"
  BY <1>0, <1>2 DEF Allowed, Prepared, Past
<1>4. PICK f : f = <<"enter", Arg(c)>>
  OBVIOUS
<1>5. PICK p : Do(c, p) /\ p = <<f>>
  BY <1>0, <1>3, <1>4, Requested
<1>6. Heads(stack'[c], f, <<>>)
  BY <1>0, <1>2, <1>5, Stepping
<1>7. (Prepared => Prepared') /\ (Past => Past')
  BY <1>1, RestEmpty DEF Steady, Prepared, Past, Unsent, Tidy, SawNothing, SawAll
<1>8. Preparing(c)'
  <2>1. Prepares(f, <<>>)'
    BY <1>0, <1>2, <1>4, <1>7 DEF Prepares
  <2> QED BY <1>6, <2>1, PreparingAt
<1>9. Spawnless
  BY <1>0, <1>1 DEF Steady, Spawnless, Sound, Bare
<1> QED BY <1>5, <1>8, <1>9, FoundsOn

LEMMA EnterFounds ==
  ASSUME NEW c \in Users, NEW e, NEW q, Founds(c, e, q), EnterInitialized(c) \/ EnterStarting(c)
  PROVE  SInv(c)'
<1>0. /\ Sound(c) /\ Stacks /\ Bare /\ Doing(c, e, q) /\ Prepares(e, q) /\ stack[c][1] = e
      /\ Arg(c) = e[2]
  BY FoundsFacts
<1>1. e[1] = "enter"
  BY <1>0 DEF EnterInitialized, EnterStarting, At
<1>2. \/ e[2] = "SESSION_STARTING" /\ q = <<>> /\ Prepared
      \/ e[2] = "INITIALIZED" /\ q = <<>> /\ Past
  BY <1>0, <1>1, PreparesLines
<1>3. CASE EnterStarting(c)
  <2>1. e[2] = "SESSION_STARTING"
    BY <1>0, <1>3 DEF EnterStarting
  <2>2. q = <<>> /\ Prepared
    BY <1>2, <2>1
  <2>3. /\ app' = app /\ state' = state /\ queueActive' = queueActive
        /\ sessionEndSent' = sessionEndSent /\ sessionEndProcessed' = sessionEndProcessed
        /\ threadIds' = threadIds /\ thrCount' = thrCount
        /\ failed' = failed /\ taskLock' = taskLock
        /\ queue' = queue /\ abortSent' = abortSent
        /\ ~aborted' /\ sessionData' /\ log' = NoLog
    BY <1>3, <2>2 DEF EnterStarting, Check, Prepared
  <2>4. PICK p : Do(c, p) /\ p = <<Step("starting")>>
    BY <1>3 DEF EnterStarting
  <2>5. Heads(stack'[c], Step("starting"), <<>>)
    BY <1>0, <2>2, <2>4, Stepping
  <2>6. SawNothing' /\ log'["ABORT"] = 0
    BY <2>3 DEF NoLog, Events, SawNothing
  <2>7. Opened'
    BY <2>2, <2>3, <2>6, RestEmpty DEF Prepared, Opened, Unsent
  <2>8. Preparing(c)'
    <3>1. Prepares(Step("starting"), <<>>)'
      BY <2>7 DEF Prepares, Step
    <3> QED BY <2>5, <3>1, PreparingAt
  <2>9. Spawnless
    BY <1>0, <2>3, <2>6 DEF Spawnless, Bare
  <2> QED BY <2>4, <2>8, <2>9, FoundsOn
<1>4. CASE EnterInitialized(c)
  <2>1. e[2] = "INITIALIZED"
    BY <1>0, <1>4 DEF EnterInitialized
  <2>2. q = <<>> /\ Past
    BY <1>2, <2>1
  <2>3. /\ app' = app /\ state' = state /\ queueActive' = queueActive
        /\ ~sessionEndSent' /\ ~sessionEndProcessed' /\ sessionData' = sessionData
        /\ threadIds' = {} /\ thrCount' = thrCount
        /\ failed' = failed /\ taskLock' = taskLock /\ log' = log
        /\ queue' = queue /\ abortSent' = abortSent /\ aborted' = aborted
    BY <1>4 DEF EnterInitialized
  <2>4. PICK f, p : Do(c, p) /\ p = <<f>> /\ f = <<"set", "INITIALIZED">>
    BY <1>4 DEF EnterInitialized
  <2>5. Heads(stack'[c], f, <<>>)
    BY <1>0, <2>2, <2>4, Stepping
  <2>6. Past' /\ Unsent'
    BY <2>2, <2>3, RestEmpty DEF Past, Unsent, SawAll
  <2>7. Preparing(c)'
    <3>1. Prepares(f, <<>>)'
      BY <2>4, <2>6 DEF Prepares
    <3> QED BY <2>5, <3>1, PreparingAt
  <2>8. Spawnless
    BY <1>0, <2>3 DEF Spawnless, Bare, Sound
  <2> QED BY <2>4, <2>7, <2>8, FoundsOn
<1> QED BY <1>3, <1>4

LEMMA StartingFounds ==
  ASSUME NEW c \in Users, NEW e, NEW q, Founds(c, e, q), Starting(c)
  PROVE  SInv(c)'
<1>0. /\ Sound(c) /\ Stacks /\ Bare /\ Doing(c, e, q) /\ Prepares(e, q) /\ stack[c][1] = e
  BY FoundsFacts
<1>1. /\ e[1] = "starting" /\ Paces /\ state' = "SESSION_STARTING"
  BY <1>0 DEF Starting, StartingWith, At, Paces
<1>2. q = <<>> /\ Opened
  BY <1>0, <1>1, PreparesLines
<1>3. PICK f, p : Do(c, p) /\ p = <<f, Step("spawn")>> /\ f = <<"put", "BEGIN">>
  BY DEF Starting, StartingWith
<1>4. Heads(stack'[c], f, Push(Step("spawn"), <<>>))
  <2>1. PICK g : g = Step("spawn") /\ p = <<f, g>>
    BY <1>3
  <2>2. \A x, y : p = <<x, y>> => Heads(stack'[c], x, Push(y, q))
    BY <1>0, <1>3, Stepping
  <2>3. Heads(stack'[c], f, Push(g, q))
    BY <2>1, <2>2
  <2> QED BY <1>2, <2>1, <2>3
<1>5. Taken' /\ sessionData'
  BY <1>0, <1>1, <1>2, RestEmpty DEF Paces, Opened, Taken, Starts, Unsent, SawNothing, Bare
<1>6. Preparing(c)'
  <2>1. Prepares(f, Push(Step("spawn"), <<>>))'
    BY <1>3, <1>5 DEF Prepares
  <2> QED BY <1>4, <2>1, PreparingAt
<1>7. Spawnless
  BY <1>0, <1>1 DEF Paces, Spawnless, Sound, Bare
<1> QED BY <1>3, <1>6, <1>7, FoundsOn

LEMMA PutFounds ==
  ASSUME NEW c \in Users, NEW e, NEW q, Founds(c, e, q), Put(c)
  PROVE  SInv(c)'
<1>0. /\ Sound(c) /\ Stacks /\ Bare /\ Doing(c, e, q) /\ Prepares(e, q) /\ stack[c][1] = e
      /\ Arg(c) = e[2] /\ ~Inline /\ queue \in Seq(Kinds)
  BY FoundsFacts DEF Sound, ControlledBy, Inline, Mode
<1>1. e[1] = "put"
  BY <1>0 DEF Put, At
<1>2. e[2] = "BEGIN" /\ q = Push(Step("spawn"), <<>>) /\ Taken /\ sessionData
  BY <1>0, <1>1, PreparesLines
<1>3. /\ queue' = Append(queue, "BEGIN")
      /\ app' = app /\ state' = state /\ queueActive' = queueActive /\ log' = log
      /\ sessionEndSent' = sessionEndSent /\ sessionEndProcessed' = sessionEndProcessed
      /\ sessionData' = sessionData /\ threadIds' = threadIds /\ thrCount' = thrCount
      /\ aborted' = aborted /\ failed' = failed /\ taskLock' = taskLock
      /\ abortSent' = abortSent
  BY <1>0, <1>2 DEF Put, Enqueue, Bare
<1>4. PICK p : Do(c, p) /\ p = <<>>
  BY <1>0 DEF Put
<1>5. Heads(stack'[c], Step("spawn"), <<>>)
  <2>1. stack'[c] = q
    BY <1>0, <1>4, Stepping
  <2> QED BY <1>2, <2>1, Ends, PushedSeq
<1>6. Rest' = <<"BEGIN">>
  <2>1. Rest = <<>> /\ "BEGIN" \in Kinds /\ "BEGIN" \notin Overlooked
    BY <1>2 DEF Taken, Kinds, Overlooked
  <2> QED BY <1>0, <1>3, <2>1, RestAppends
<1>7. Fresh' /\ sessionData'
  BY <1>2, <1>3, <1>6 DEF Taken, Fresh, Starts, Unsent, SawNothing
<1>8. Preparing(c)'
  <2>1. Prepares(Step("spawn"), <<>>)'
    BY <1>7 DEF Prepares, Step
  <2> QED BY <1>5, <2>1, PreparingAt
<1>9. Spawnless
  BY <1>0, <1>3 DEF Spawnless, Sound, Bare
<1> QED BY <1>4, <1>8, <1>9, FoundsOn

LEMMA SetStateFounds ==
  ASSUME NEW c \in Users, NEW e, NEW q, Founds(c, e, q), SetState(c)
  PROVE  SInv(c)'
<1>0. /\ Sound(c) /\ Stacks /\ Bare /\ Doing(c, e, q) /\ Prepares(e, q) /\ stack[c][1] = e
      /\ Arg(c) = e[2]
  BY FoundsFacts
<1>1. e[1] = "set" /\ Paces /\ state' = e[2]
  BY <1>0 DEF SetState, At, Paces
<1>2. e[2] = "INITIALIZED" /\ q = <<>> /\ Past /\ Unsent
  BY <1>0, <1>1, PreparesLines
<1>3. PICK p : Do(c, p) /\ p = <<>>
  BY DEF SetState
<1>4. stack'[c] = <<>>
  BY <1>0, <1>2, <1>3, Stepping
<1>5. Prepared'
  BY <1>1, <1>2, RestEmpty DEF Paces, Past, Prepared, Unsent, Tidy, SawAll
<1>6. Preparing(c)'
  BY <1>4, <1>5 DEF Preparing
<1>7. Spawnless
  BY <1>0, <1>1 DEF Paces, Spawnless, Sound, Bare
<1> QED BY <1>3, <1>6, <1>7, FoundsOn

\* The worker starts, with BEGIN queued.
LEMMA SpawnFounds ==
  ASSUME NEW c \in Users, NEW e, NEW q, Founds(c, e, q), Spawn(c)
  PROVE  SInv(c)'
<1>0. /\ Sound(c) /\ Stacks /\ Bare /\ Doing(c, e, q) /\ Prepares(e, q) /\ stack[c][1] = e
      /\ Mode = "ACTIVE" /\ thrCount = 0 /\ threadIds = {} /\ stack \in [Threads -> Seq(Entries)]
  BY FoundsFacts DEF Sound, ControlledBy, Mode, Bare, Stacks
<1>1. e[1] = "spawn"
  BY <1>0 DEF Spawn, At
<1>2. q = <<>> /\ Fresh /\ sessionData
  BY <1>0, <1>1, PreparesLines
<1>3. PICK w \in Workers : /\ threadIds' = threadIds \cup {w} /\ thrCount' = 1
                           /\ stack' = [stack EXCEPT ![c] = Tail(@), ![w] = <<Step("svc")>>]
  BY <1>0 DEF Spawn
<1>4. /\ app' = app /\ state' = state /\ queueActive' = queueActive /\ log' = log
      /\ sessionEndSent' = sessionEndSent /\ sessionEndProcessed' = sessionEndProcessed
      /\ sessionData' = sessionData /\ queue' = queue
      /\ aborted' = aborted /\ failed' = failed /\ taskLock' = taskLock
      /\ abortSent' = abortSent
  BY <1>0 DEF Spawn
<1>5. c \in Threads /\ w \in Threads /\ c # w
  BY ThreadsAssumption DEF Threads
<1>6. /\ stack'[c] = Tail(stack[c]) /\ stack'[w] = <<Step("svc")>>
      /\ \A u \in Threads \ {c, w} : stack'[u] = stack[u]
  BY <1>0, <1>3, <1>5
<1>7. stack'[c] = <<>>
  BY <1>0, <1>2, <1>6 DEF Doing, Heads
<1>8. Heads(stack'[w], Step("svc"), <<>>)
  BY <1>6 DEF Heads
<1>9. Fresh'
  BY <1>2, <1>4, RestEmpty DEF Fresh, Starts, Unsent, SawNothing
<1>10. Served(w)'
  <2>1. \A v \in Workers : v # w => stack'[v] = <<>>
    BY <1>0, <1>5, <1>6, ThreadsAssumption DEF Bare, NoWorker, Threads
  <2>2. Counted(w)'
    BY <1>0, <1>2, <1>3, <1>4, <2>1 DEF Counted, Alone
  <2>3. Service(Step("svc"), <<>>)'
    BY <1>9 DEF Service, Step
  <2> QED BY <1>8, <2>2, <2>3 DEF Served, Doing
<1>11. Controls(c)'
  <2>1. state' # "INITIALIZED"
    BY <1>2, <1>4 DEF Fresh, Starts
  <2> QED BY <1>7, <2>1 DEF Controls
<1>12. Sound(c)'
  <2>1. \A u \in Users \ {c} : stack'[u] = stack[u]
    BY <1>5, <1>6, ThreadsAssumption DEF Threads
  <2>2. \A u \in Users \ {c} : Feeds(u)'
    BY <1>0, <2>1 DEF Sound, Feeds, Doing
  <2>3. ControlledBy(c)'
    BY <1>0, <1>4 DEF Sound, ControlledBy
  <2> QED BY <1>0, <1>4, <2>2, <2>3 DEF Sound
<1> QED BY <1>10, <1>11, <1>12 DEF SInv, InSession

LEMMA FoundingStep ==
  ASSUME NEW c \in Users, NEW e, NEW q, Founds(c, e, q), Run(c)
  PROVE  SInv(c)'
<1>0. stack[c][1] = e /\ Prepares(e, q) /\ Arg(c) = e[2]
  BY FoundsFacts
<1>1. /\ e[1] \in {"start", "change", "enter", "starting", "put", "spawn", "set"}
      /\ e[1] = "enter" => e[2] \in {"SESSION_STARTING", "INITIALIZED"}
  <2>1. e[1] = "enter" => e[2] \in {"SESSION_STARTING", "INITIALIZED"}
    BY <1>0, PreparesLines
  <2> QED BY <1>0, <2>1, PreparesLines
<1>2. \A l : At(c, l) => e[1] = l
  BY <1>0 DEF At
<1>3. ~Finished(c) /\ ~SendEnd(c)
  BY <1>1, <1>2 DEF Finished, SendEnd
<1>4. OnChange(c) => EnterInitialized(c) \/ EnterStarting(c) \/ Starting(c) \/ Spawn(c)
  BY <1>0, <1>1, <1>2 DEF OnChange, EnterRunning, EnterPaused, EnterStopping, Stopping,
              StoppingWith, EnterStopped, EnterFinished
<1>5. PutMessage(c) => Put(c)
  BY <1>1, <1>2 DEF PutMessage, PutError, PutStop, PutStopHead, ControlAbort, ControlAbortIf,
              AbortSent
<1>6. ~Notify(c) /\ ~Message(c)
  BY <1>1, <1>2 DEF Notify, NotifyAborted, NotifyEnd, NotifyControl, NotifyControlThen,
              Message, Handle, ProcessEnd, Deliver, OnEvent, SessionEnd
<1>7. Interface(c) => Start(c)
  BY <1>1, <1>2 DEF Interface, Stop, StopState, WaitState, Join, LentJoined, ModuleClosed, CloseQueue,
              WaitThreads, Initialize
<1>8. ~Serve(c)
  BY <1>1, <1>2 DEF Serve, Svc, GetQ, GetQShutdown, Unlock, StopProcessing, Leave, LeaveIf,
              Exit, ExitBy, ClearThreadIds, Deactivate, Flush, FlushTo, Release
<1> QED BY <1>3, <1>4, <1>5, <1>6, <1>7, <1>8, StartFounds, ChangeFounds, EnterFounds,
           StartingFounds, PutFounds, SetStateFounds, SpawnFounds DEF Run

LEMMA ControllerStep ==
  ASSUME NEW c \in Users, IInv, SInv(c), Run(c)
  PROVE  SInv(c)'
<1>1. Sound(c) /\ InSession(c) /\ Stacks /\ queue \in Seq(Kinds) /\ stack[c] # <<>>
  BY RunsSteps DEF IInv, SInv, Fields
<1>2. CASE Bare /\ Preparing(c)
  <2>1. PICK e, q : Doing(c, e, q) /\ Prepares(e, q)
    BY <1>1, <1>2 DEF Preparing
  <2> QED BY <1>1, <1>2, <2>1, FoundingStep DEF Founds
<1>3. CASE Attended /\ Controls(c)
  <2>1. PICK e, q : Doing(c, e, q) /\ Control(e, q)
    BY <1>1, <1>3 DEF Controls
  <2> QED BY <1>1, <1>3, <2>1, CommandedStep DEF Commands
<1>4. CASE \E w \in Workers : Owes(c) /\ Waited(w)
  <2>1. PICK w \in Workers : Owes(c) /\ Waited(w)
    BY <1>4
  <2>2. PICK e, q : Doing(c, e, q) /\ Owing(e, q)
    BY <2>1 DEF Owes
  <2> QED BY <1>1, <2>1, <2>2, HaltingStep DEF Halts
<1> QED BY <1>1, <1>2, <1>3, <1>4 DEF InSession, Attended

-----------------------------------------------------------------------------
(* The calls, and the threads that feed the stream. *)

LEMMA Called ==
  /\ \A x : Heads(<<x>>, x, <<>>)
  /\ \A x, y : Heads(<<x, y>>, x, Push(y, <<>>))
<1>1. <<>> \in Seq({})
  OBVIOUS
<1>2. ASSUME NEW x PROVE Heads(<<x>>, x, <<>>)
  BY DEF Heads
<1>3. ASSUME NEW x, NEW y PROVE Heads(<<x, y>>, x, Push(y, <<>>))
  <2>1. Resumed1(<<x, y>>, <<>>)
    BY <1>1, Resuming
  <2>2. <<x, y>> \in Seq({x, y})
    OBVIOUS
  <2>3. <<x, y>> \o <<>> = <<x, y>>
    BY <2>2, ConcatEmptySeq
  <2> QED BY <2>1, <2>3 DEF Resumed1
<1> QED BY <1>2, <1>3

LEMMA CallFacts ==
  ASSUME NEW c \in Users, IInv, SInv(c), Call(c)
  PROVE  /\ stack[c] = <<>> /\ Steady /\ OthersStay(c) /\ Sound(c)' /\ c \in Threads
         /\ \E call \in {"initialize", "start", "stop", "abort_stop", "pause", "close"},
              wait \in BOOLEAN :
              /\ Ready(call) /\ stack'[c] = Body(call, wait)
<1>0. c \in Threads /\ stack \in [Threads -> Seq(Entries)] /\ Sound(c)
  BY DEF Threads, IInv, Stacks, SInv
<1>1. stack[c] = <<>> /\ Steady
  BY DEF Call, Steady
<1>2. PICK call \in app.api[c], wait \in BOOLEAN :
        Ready(call) /\ stack' = [stack EXCEPT ![c] = Body(call, wait)]
  BY DEF Call
<1>3. call \in {"initialize", "start", "stop", "abort_stop", "pause", "close"}
  BY <1>0, <1>2 DEF Sound, ControlledBy
<1>4. stack'[c] = Body(call, wait) /\ OthersStay(c)
  BY <1>0, <1>2 DEF OthersStay
<1>5. Sound(c)'
  BY <1>0, <1>1, <1>4, SoundKept DEF Steady, Sound
<1> QED BY <1>0, <1>1, <1>2, <1>3, <1>4, <1>5

LEMMA CallPrepared ==
  ASSUME NEW c \in Users, IInv, SInv(c), Call(c), Bare, Preparing(c)
  PROVE  SInv(c)'
<1>1. stack[c] = <<>> /\ Steady /\ OthersStay(c) /\ Sound(c)'
  BY CallFacts
<1>2. Prepared
  BY <1>1 DEF Preparing, Doing, Heads
<1>3. PICK call \in {"initialize", "start", "stop", "abort_stop", "pause", "close"},
           wait \in BOOLEAN : Ready(call) /\ stack'[c] = Body(call, wait)
  BY CallFacts
<1>4. call = "start"
  BY <1>2, <1>3 DEF Ready, Prepared
<1>5. Heads(stack'[c], Step("start"), <<>>)
  BY <1>3, <1>4, Called DEF Body
<1>6. Prepared'
  BY <1>1, <1>2, RestEmpty DEF Steady, Prepared, Unsent, Tidy, SawNothing, SawAll
<1>7. Preparing(c)'
  <2>1. Prepares(Step("start"), <<>>)'
    BY <1>6 DEF Prepares, Step
  <2> QED BY <1>5, <2>1, PreparingAt
<1>8. Bare'
  <2>1. NoWorker'
    BY <1>1, OthersAreWorkers DEF NoWorker, Bare
  <2> QED BY <1>1, <2>1 DEF Bare, Steady
<1> QED BY <1>1, <1>7, <1>8 DEF SInv, InSession

LEMMA CallControls ==
  ASSUME NEW c \in Users, IInv, SInv(c), Call(c), Attended, Controls(c)
  PROVE  SInv(c)'
<1>1. stack[c] = <<>> /\ Steady /\ OthersStay(c)
  BY CallFacts
<1>2. Sound(c) /\ ~app.stopsEarly /\ state # "INITIALIZED"
  BY <1>1 DEF SInv, Sound, ControlledBy, Controls, Doing, Heads
<1>3. PICK call \in {"initialize", "start", "stop", "abort_stop", "pause", "close"},
           wait \in BOOLEAN : Ready(call) /\ stack'[c] = Body(call, wait)
  BY CallFacts
<1>4. /\ call # "start" /\ state \in Since /\ state' = state
      /\ call = "initialize" => state = "FINISHED"
  <2>1. state \in {"SESSION_STARTING"} \cup Since
    BY AttendedStates
  <2>2. call # "start" /\ (call = "initialize" => state = "FINISHED")
    BY <1>2, <1>3 DEF Ready
  <2>3. call \in {"stop", "abort_stop", "pause", "close"} => state # "SESSION_STARTING"
    BY <1>2, <1>3 DEF Ready
  <2>4. state' = state
    BY <1>1 DEF Steady
  <2>5. "FINISHED" \in Since
    BY DEF Since, Later
  <2> QED BY <1>3, <2>1, <2>2, <2>3, <2>4, <2>5
<1>5. Kept
  BY <1>1, SteadyKept
<1>6. CASE call \in {"stop", "abort_stop"}
  <2>1. PICK f, g : /\ f = <<"stop", call = "abort_stop">> /\ g = <<"wait", wait>>
                    /\ stack'[c] = <<f, g>>
    BY <1>3, <1>6 DEF Body
  <2>2. Heads(stack'[c], f, Push(g, <<>>))
    BY <2>1, Called
  <2>3. After(Push(g, <<>>))'
    BY <2>1 DEF After, ToWait
  <2>4. Control(f, Push(g, <<>>))'
    BY <1>4, <2>1, <2>3 DEF Control
  <2>5. Controls(c)'
    BY <2>2, <2>4, ControlsAt
  <2> QED BY <1>1, <1>2, <1>5, <2>5, ControlsOn
<1>7. CASE call = "pause"
  <2>1. PICK f : f = <<"change", "PAUSED">> /\ stack'[c] = <<f>>
    BY <1>3, <1>7 DEF Body
  <2>2. Heads(stack'[c], f, <<>>)
    BY <2>1, Called
  <2>3. Control(f, <<>>)'
    BY <1>4, <2>1 DEF Control
  <2>4. Controls(c)'
    BY <2>2, <2>3, ControlsAt
  <2> QED BY <1>1, <1>2, <1>5, <2>4, ControlsOn
<1>8. CASE call = "close"
  <2>1. Heads(stack'[c], Step("module_closed"), <<>>)
    BY <1>3, <1>8, Called DEF Body
  <2>2. Control(Step("module_closed"), <<>>)'
    BY <1>4 DEF Control, Step, Then
  <2>3. Controls(c)'
    BY <2>1, <2>2, ControlsAt
  <2> QED BY <1>1, <1>2, <1>5, <2>3, ControlsOn
<1>9. CASE call = "initialize"
  <2>1. Heads(stack'[c], Step("module_closed"), Push(Step("initialize"), <<>>))
    BY <1>3, <1>9, Called DEF Body
  <2>2. Then(ToInit)'
    BY <1>4, <1>9 DEF Then
  <2>3. Control(Step("module_closed"), ToInit)'
    BY <1>4, <2>2 DEF Control, Step
  <2>4. Controls(c)'
    BY <2>1, <2>3, ControlsAt DEF ToInit
  <2> QED BY <1>1, <1>2, <1>5, <2>4, ControlsOn
<1> QED BY <1>3, <1>4, <1>6, <1>7, <1>8, <1>9

LEMMA CallStep ==
  ASSUME NEW c \in Users, IInv, SInv(c), Call(c)
  PROVE  SInv(c)'
<1>1. InSession(c) /\ stack[c] = <<>>
  BY CallFacts DEF SInv
<1>2. ~Owes(c)
  BY <1>1 DEF Owes, Doing, Heads
<1> QED BY <1>1, <1>2, CallPrepared, CallControls DEF InSession, Attended

\* A step that leaves the session where it is, and the threads that attend it.
LEMMA SessionKeeps ==
  ASSUME NEW c \in Users, SInv(c), Kept, abortSent' = abortSent,
         \A w \in Workers : stack'[w] = stack[w], stack'[c] = stack[c],
         \A u \in Users \ {c} : Feeds(u)'
  PROVE  SInv(c)'
<1>1. Sound(c) /\ InSession(c)
  BY DEF SInv
<1>2. Sound(c)'
  <2>1. ControlledBy(c)'
    BY <1>1 DEF Sound, ControlledBy, Kept
  <2> QED BY <1>1, <2>1 DEF Sound, Kept
<1>3. NoWorker' = NoWorker /\ (Gone => Gone')
      /\ \A w \in Workers : (Served(w) => Served(w)') /\ (Closed(w) => Closed(w)')
                            /\ (Waited(w) => Waited(w)')
  BY WorkerKept
<1>4. ASSUME Bare, Preparing(c) PROVE Bare' /\ Preparing(c)'
  <2>1. Bare'
    BY <1>3, <1>4 DEF Bare, Kept
  <2>2. (Prepared => Prepared') /\ (Opened => Opened') /\ (Past => Past') /\ (Unsent => Unsent')
        /\ sessionData' = sessionData
    BY DEF Kept, Prepared, Opened, Past, Unsent, Tidy, SawNothing, SawAll
  <2>3. (Taken => Taken') /\ (Fresh => Fresh')
    BY PhasesKept
  <2>4. CASE stack[c] = <<>> /\ Prepared
    BY <2>1, <2>2, <2>4 DEF Preparing
  <2>5. ASSUME NEW e, NEW q, Doing(c, e, q), Prepares(e, q) PROVE Preparing(c)'
    <3>1. Prepares(e, q)'
      BY <2>2, <2>3, <2>5 DEF Prepares
    <3>2. Doing(c, e, q)'
      BY <2>5 DEF Doing
    <3> QED BY <3>1, <3>2 DEF Preparing
  <2> QED BY <1>4, <2>1, <2>4, <2>5 DEF Preparing
<1>5. ASSUME Controls(c) PROVE Controls(c)'
  <2>0. Moves
    BY <1>3, PhasesKept DEF Moves, Kept
  <2>1. CASE stack[c] = <<>> /\ state # "INITIALIZED"
    BY <2>1 DEF Controls, Kept
  <2>2. ASSUME NEW e, NEW q, Doing(c, e, q), Control(e, q) PROVE Controls(c)'
    <3>1. Control(e, q)'
      BY <2>0, <2>2, ControlMoves
    <3>2. Doing(c, e, q)'
      BY <2>2 DEF Doing
    <3> QED BY <3>1, <3>2 DEF Controls
  <2> QED BY <1>5, <2>1, <2>2 DEF Controls
<1>6. ASSUME Owes(c) PROVE Owes(c)'
  <2>1. PICK f, r : Doing(c, f, r) /\ Owing(f, r)
    BY <1>6 DEF Owes
  <2>2. \A k : After(k)' = After(k)
    BY DEF After, Kept
  <2>3. Owing(f, r)'
    BY <2>1, <2>2 DEF Owing, Aborting
  <2>4. Doing(c, f, r)'
    BY <2>1 DEF Doing
  <2> QED BY <2>3, <2>4 DEF Owes
<1> QED BY <1>1, <1>2, <1>3, <1>4, <1>5, <1>6 DEF SInv, InSession

\* Thread u feeds the stream.
LEMMA FeedKeeps ==
  ASSUME NEW c \in Users, SInv(c), NEW u \in Users, Kept, abortSent' = abortSent,
         \A t \in Threads : t # u => stack'[t] = stack[t], u # c, Feeds(u)'
  PROVE  SInv(c)'
<1>1. \A w \in Workers : stack'[w] = stack[w]
  BY ThreadsAssumption DEF Threads
<1>2. stack'[c] = stack[c]
  BY DEF Threads
<1>3. ASSUME NEW v \in Users \ {c} PROVE Feeds(v)'
  <2>1. CASE v = u
    BY <2>1
  <2>2. CASE v # u
    <3>1. stack'[v] = stack[v]
      BY <2>2 DEF Threads
    <3> QED BY <3>1 DEF SInv, Sound, Feeds, Doing
  <2> QED BY <2>1, <2>2
<1> QED BY <1>1, <1>2, <1>3, SessionKeeps

LEMMA FeederStep ==
  ASSUME NEW c \in Users, IInv, SInv(c), NEW u \in Users, u # c, Call(u) \/ Run(u)
  PROVE  SInv(c)'
<1>0. /\ u \in Threads /\ stack \in [Threads -> Seq(Entries)] /\ Sound(c) /\ Feeds(u)
      /\ queue \in Seq(Kinds) /\ Stacks /\ app.api[u] \subseteq {"data"} /\ ~Inline
  BY DEF Threads, IInv, Stacks, SInv, Sound, ControlledBy, Fields, Inline, Mode
<1>1. CASE Call(u)
  <2>1. Steady
    BY <1>1 DEF Call, Steady
  <2>2. PICK call \in app.api[u], wait \in BOOLEAN :
          stack' = [stack EXCEPT ![u] = Body(call, wait)]
    BY <1>1 DEF Call
  <2>3. call = "data"
    BY <1>0, <2>2
  <2>4. PICK f : f = <<"put", "DATA">> /\ Body(call, wait) = <<f>>
    BY <2>3 DEF Body
  <2>5. stack'[u] = <<f>> /\ \A t \in Threads : t # u => stack'[t] = stack[t]
    BY <1>0, <2>2, <2>4
  <2>6. Feeds(u)'
    BY <2>4, <2>5, Called DEF Feeds, Doing
  <2> QED BY <2>1, <2>5, <2>6, SteadyKept, FeedKeeps DEF Steady
<1>2. CASE Run(u)
  <2>1. Doing(u, <<"put", "DATA">>, <<>>)
    BY <1>0, <1>2, RunsSteps DEF Feeds
  <2>2. PICK e : e = <<"put", "DATA">> /\ stack[u][1] = e /\ Doing(u, e, <<>>)
    BY <2>1 DEF Doing, Heads
  <2>3. e[1] = "put" /\ Arg(u) = "DATA"
    BY <2>2 DEF Arg
  <2>4. \A l : At(u, l) => e[1] = l
    BY <2>2 DEF At
  <2>5. Put(u)
    <3>1. ~Change(u) /\ ~SetState(u) /\ ~Finished(u) /\ ~SendEnd(u)
      BY <2>3, <2>4 DEF Change, SetState, Finished, SendEnd
    <3>2. ~OnChange(u)
      BY <2>3, <2>4 DEF OnChange, EnterInitialized, EnterStarting, Starting, StartingWith, Spawn,
                  EnterRunning, EnterPaused, EnterStopping, Stopping, StoppingWith,
                  EnterStopped, EnterFinished
    <3>3. PutMessage(u) => Put(u)
      BY <2>3, <2>4 DEF PutMessage, PutError, PutStop, PutStopHead, ControlAbort,
                  ControlAbortIf, AbortSent
    <3>4. ~Notify(u) /\ ~Message(u)
      BY <2>3, <2>4 DEF Notify, NotifyAborted, NotifyEnd, NotifyControl, NotifyControlThen,
                  Message, Handle, ProcessEnd, Deliver, OnEvent, SessionEnd
    <3>5. ~Interface(u)
      BY <2>3, <2>4 DEF Interface, Start, Stop, StopState, WaitState, Join, LentJoined, ModuleClosed,
                  CloseQueue, WaitThreads, Initialize
    <3>6. ~Serve(u)
      BY <2>3, <2>4 DEF Serve, Svc, GetQ, GetQShutdown, Unlock, StopProcessing, Leave, LeaveIf,
                  Exit, ExitBy, ClearThreadIds, Deactivate, Flush, FlushTo, Release
    <3> QED BY <1>2, <3>1, <3>2, <3>3, <3>4, <3>5, <3>6 DEF Run
  <2>6. PICK p : Do(u, p) /\ p = <<>>
    BY <1>0, <2>5 DEF Put
  <2>7. /\ queue' = IF queueActive THEN Append(queue, "DATA") ELSE queue
        /\ app' = app /\ state' = state /\ queueActive' = queueActive /\ log' = log
        /\ sessionEndSent' = sessionEndSent /\ sessionEndProcessed' = sessionEndProcessed
        /\ sessionData' = sessionData /\ threadIds' = threadIds /\ thrCount' = thrCount
        /\ aborted' = aborted /\ failed' = failed /\ taskLock' = taskLock
        /\ abortSent' = abortSent
    BY <1>0, <2>3, <2>5 DEF Put, Enqueue
  <2>8. Rest' = Rest
    <3>1. "DATA" \in Kinds /\ "DATA" \in Overlooked
      BY DEF Kinds, Overlooked
    <3>2. CASE queueActive
      BY <1>0, <2>7, <3>1, <3>2, RestAppends
    <3>3. CASE ~queueActive
      BY <2>7, <3>3, RestEmpty
    <3> QED BY <3>2, <3>3
  <2>9. Kept
    BY <2>7, <2>8 DEF Kept
  <2>10. stack'[u] = <<>> /\ \A t \in Threads : t # u => stack'[t] = stack[t]
    BY <1>0, <2>2, <2>6, Went
  <2>11. Feeds(u)'
    BY <2>10 DEF Feeds
  <2> QED BY <2>7, <2>9, <2>10, <2>11, FeedKeeps
<1> QED BY <1>1, <1>2

LEMMA SessionInit ==
  ASSUME NEW c \in Users, Init, ControlledBy(c)
  PROVE  SInv(c)
<1>1. \A t \in Threads : stack[t] = <<>>
  BY DEF Init
<1>2. Sound(c)
  <2>1. \A u \in Users \ {c} : Feeds(u)
    BY <1>1 DEF Feeds, Threads
  <2>2. taskLock \notin Users
    BY ThreadsAssumption DEF Init, Threads
  <2> QED BY <2>1, <2>2 DEF Sound, Init, NoLog, Events
<1>3. Bare
  BY <1>1 DEF Init, Bare, NoWorker, Threads
<1>4. Prepared
  <2>1. SawNothing
    BY DEF Init, SawNothing, NoLog, Events
  <2> QED BY <2>1, RestEmpty DEF Init, Prepared, Unsent, Tidy
<1>5. Preparing(c)
  BY <1>1, <1>4 DEF Preparing, Threads
<1> QED BY <1>2, <1>3, <1>5 DEF SInv, InSession

LEMMA SessionStutters ==
  ASSUME NEW c \in Users, IInv, SInv(c), UNCHANGED vars
  PROVE  SInv(c)'
<1>1. Steady /\ stack' = stack
  BY DEF Steady
<1>2. Kept /\ abortSent' = abortSent
  BY <1>1, SteadyKept DEF Steady
<1>3. \A u \in Users \ {c} : Feeds(u)'
  BY <1>1 DEF SInv, Sound, Feeds, Doing
<1> QED BY <1>1, <1>2, <1>3, SessionKeeps

LEMMA SessionStep ==
  ASSUME NEW c \in Users, IInv, SInv(c), [Next]_vars
  PROVE  SInv(c)'
<1>1. CASE UNCHANGED vars
  BY <1>1, SessionStutters
<1>2. ASSUME NEW u \in Users, Call(u) PROVE SInv(c)'
  BY <1>2, CallStep, FeederStep
<1>3. ASSUME NEW t \in Threads, Run(t) PROVE SInv(c)'
  <2>1. CASE t \in Workers
    BY <1>3, <2>1, WorkerStep
  <2>2. CASE t \in Users
    BY <1>3, <2>2, ControllerStep, FeederStep
  <2> QED BY <2>1, <2>2 DEF Threads
<1> QED BY <1>1, <1>2, <1>3 DEF Next

-----------------------------------------------------------------------------
(* What the invariant says of the session. *)

\* BEGIN is logged first, END then, and the application is told last.
LEMMA Logged ==
  ASSUME NEW c \in Users, SInv(c)
  PROVE  log["ABORT"] = 0 /\ (SawNothing \/ SawBegin \/ SawEnd \/ SawAll)
<1>0. log["ABORT"] = 0 /\ InSession(c)
  BY DEF SInv, Sound
<1>1. ASSUME NEW e, NEW q, Service(e, q) PROVE SawNothing \/ SawBegin \/ SawEnd \/ SawAll
  <2>1. /\ Fresh \/ Taken => SawNothing
        /\ Begun \/ Going \/ Queued \/ Leaving => SawBegin
        /\ EndAtHand \/ EndQueued \/ EndTaken \/ EndPassed => SawBegin
        /\ Ended \/ Stopped \/ Finishing => SawEnd
        /\ Over => SawAll
    BY DEF Fresh, Taken, Begun, Going, Queued, Leaving, EndAtHand, EndQueued, EndTaken,
           EndPassed, AtEnd, Ended, Stopped, Finishing, Over
  <2>2. \/ Fresh \/ Taken \/ Begun \/ Going \/ Queued \/ Leaving
        \/ EndAtHand \/ EndQueued \/ EndTaken \/ EndPassed
        \/ Ended \/ Stopped \/ Finishing \/ Over
    BY <1>1 DEF Service, Looping
  <2> QED BY <2>1, <2>2
<1>2. ASSUME NEW w \in Workers, Served(w) \/ Closed(w) \/ Waited(w)
      PROVE  SawNothing \/ SawBegin \/ SawEnd \/ SawAll
  BY <1>1, <1>2 DEF Served, Closed, Waited, Over, Owed, AtEnd
<1>3. ASSUME Preparing(c) PROVE SawNothing \/ SawBegin \/ SawEnd \/ SawAll
  BY <1>3 DEF Preparing, Prepares, Prepared, Opened, Past, Taken, Fresh, Tidy
<1>4. Gone => SawAll
  BY DEF Gone
<1> QED BY <1>0, <1>2, <1>3, <1>4 DEF InSession

LEMMA OnceAndInOrder ==
  ASSUME NEW c \in Users, SInv(c)
  PROVE  SessionEndsOnce /\ BeginBeforeEnd
<1>1. log["ABORT"] = 0 /\ (SawNothing \/ SawBegin \/ SawEnd \/ SawAll)
  BY Logged
<1> QED BY <1>1 DEF SawNothing, SawBegin, SawEnd, SawAll, SessionEndsOnce, BeginBeforeEnd

\* Nobody is in the code and the state is FINISHED: there is nothing left of the session.
LEMMA IdleIsGone ==
  ASSUME NEW c \in Users, SInv(c), Idle, state = "FINISHED"
  PROVE  Gone
<1>1. stack[c] = <<>> /\ \A w \in Workers : stack[w] = <<>>
  BY DEF Idle, Threads
<1>2. \A w \in Workers : ~Served(w) /\ ~Closed(w) /\ ~Waited(w)
  BY <1>1 DEF Served, Closed, Waited, Doing, Heads
<1>3. ~Preparing(c)
  BY <1>1 DEF Preparing, Prepared, Doing, Heads
<1> QED BY <1>2, <1>3 DEF SInv, InSession

LEMMA NothingIsLeft ==
  ASSUME NEW c \in Users, SInv(c)
  PROVE  NothingLeftBehind /\ SessionEndIsNotified
<1>1. ASSUME Idle, state = "FINISHED"
      PROVE  Clean /\ thrCount = 0 /\ sessionEndProcessed /\ log["NOTIFIED"] = 1
  <2>1. Gone
    BY <1>1, IdleIsGone
  <2> QED BY <2>1 DEF Gone, Clean, NoWorker, SawAll, Done
<1> QED BY <1>1 DEF NothingLeftBehind, SessionEndIsNotified

\* What the threads are at.
LEMMA SessionLines ==
  ASSUME NEW c \in Users, SInv(c)
  PROVE  LeavesFinishedSession
<1>0. InSession(c) /\ \A u \in Users \ {c} : Feeds(u)
  BY DEF SInv, Sound
<1>1. ASSUME NEW t, NEW e, NEW q, Doing(t, e, q)
      PROVE  (\A l : At(t, l) => e[1] = l) /\ Arg(t) = e[2]
  BY <1>1 DEF At, Arg, Doing, Heads
<1>2. \A t, l : At(t, l) => stack[t] # <<>>
  BY DEF At
<1>3. ASSUME NEW u \in Users \ {c}, At(u, "exit") PROVE FALSE
  <2>1. Doing(u, <<"put", "DATA">>, <<>>)
    BY <1>0, <1>2, <1>3 DEF Feeds
  <2>2. PICK e : e = <<"put", "DATA">> /\ Doing(u, e, <<>>)
    BY <2>1
  <2>3. e[1] = "put"
    BY <2>2
  <2> QED BY <1>1, <1>3, <2>2, <2>3
<1>4. ASSUME NEW w \in Workers, At(w, "exit") PROVE state = "FINISHED"
  <2>1. stack[w] # <<>>
    BY <1>2, <1>4
  <2>2. PICK v \in Workers : Served(v) \/ Closed(v) \/ Waited(v)
    BY <1>0, <2>1 DEF InSession, Bare, Gone, NoWorker
  <2>3. v = w
    BY <2>1, <2>2 DEF Served, Closed, Waited, Counted, Alone
  <2>4. CASE Served(w)
    <3>1. PICK e, q : Doing(w, e, q) /\ Service(e, q)
      BY <2>4 DEF Served
    <3>2. e[1] = "exit"
      BY <1>1, <1>4, <3>1
    <3>3. Over
      BY <3>1, <3>2, ServiceLines
    <3> QED BY <3>3 DEF Over
  <2>5. CASE Closed(w)
    BY <2>5 DEF Closed, Over
  <2>6. CASE Waited(w)
    <3>1. PICK e, q : Doing(w, e, q) /\ OnLoop(e, q)
      BY <2>6 DEF Waited
    <3>2. e[1] = "exit"
      BY <1>1, <1>4, <3>1
    <3>3. e[1] \in {"get", "handle", "deliver"}
      BY <3>1 DEF OnLoop
    <3> QED BY <3>2, <3>3
  <2> QED BY <2>2, <2>3, <2>4, <2>5, <2>6
<1>5. ASSUME At(c, "exit") PROVE FALSE
  <2>0. stack[c] # <<>>
    BY <1>2, <1>5
  <2>1. CASE Preparing(c)
    <3>1. PICK e, q : Doing(c, e, q) /\ Prepares(e, q)
      BY <2>0, <2>1 DEF Preparing
    <3>2. e[1] \in {"start", "change", "enter", "starting", "put", "spawn", "set"}
      BY <3>1, PreparesLines
    <3> QED BY <1>1, <1>5, <3>1, <3>2
  <2>2. CASE Controls(c)
    <3>1. PICK e, q : Doing(c, e, q) /\ Control(e, q)
      BY <2>0, <2>2 DEF Controls
    <3>2. e[1] \in {"stop", "stop_state", "change", "enter", "set", "abort", "abort_sent",
                    "handle", "unlock", "wait", "join", "module_closed", "close_queue",
                    "wait_threads", "initialize"}
      BY <3>1, ControlLines
    <3> QED BY <1>1, <1>5, <3>1, <3>2
  <2>3. CASE \E w \in Workers : Owes(c) /\ Waited(w)
    <3>1. PICK e, q : Doing(c, e, q) /\ Owing(e, q)
      BY <2>3 DEF Owes
    <3>2. e[1] \in {"stopping", "put_stop", "put_stop_head", "abort", "abort_sent", "handle"}
      BY <3>1, OwingLines
    <3> QED BY <1>1, <1>5, <3>1, <3>2
  <2> QED BY <1>0, <2>1, <2>2, <2>3 DEF InSession
<1> SUFFICES ASSUME NEW t \in Threads, At(t, "exit") PROVE state = "FINISHED"
  BY DEF LeavesFinishedSession
<1> QED BY <1>3, <1>4, <1>5 DEF Threads

\* The steps that set the state, by the state that they find.
Advanced ==
  \/ state' = state
  \/ state = "INITIALIZED" /\ state' = "SESSION_STARTING"
  \/ state = "SESSION_STARTING" /\ state' = "RUNNING"
  \/ state = "RUNNING" /\ state' \in {"PAUSED", "SESSION_STOPPING"}
  \/ state = "PAUSED" /\ state' = "RUNNING"
  \/ state = "SESSION_STOPPING" /\ state' = "STOPPED"
  \/ state = "STOPPED" /\ state' = "FINISHED"
  \/ state = "FINISHED" /\ state' = "INITIALIZED"

LEMMA AdvancedAllowed ==
  ASSUME Advanced
  PROVE  [Lifecycle!Next]_state
<1>1. ASSUME NEW s, NEW to \in States, state = s, state' = to, <<s, to>> \in Lifecycle!Allowed,
             s # "PAUSED" \/ to = "RUNNING"
      PROVE  Lifecycle!Next
  <2>1. Lifecycle!Route(s, to) = <<to>>
    BY <1>1 DEF Lifecycle!Route
  <2>2. Head(<<to>>) = to
    OBVIOUS
  <2>3. Lifecycle!Transition(to)
    BY <1>1, <2>1, <2>2 DEF Lifecycle!Transition
  <2> QED BY <1>1, <2>3 DEF Lifecycle!Next, Lifecycle!States, States
<1>2. /\ <<"INITIALIZED", "SESSION_STARTING">> \in Lifecycle!Allowed
      /\ <<"SESSION_STARTING", "RUNNING">> \in Lifecycle!Allowed
      /\ <<"RUNNING", "PAUSED">> \in Lifecycle!Allowed
      /\ <<"RUNNING", "SESSION_STOPPING">> \in Lifecycle!Allowed
      /\ <<"PAUSED", "RUNNING">> \in Lifecycle!Allowed
      /\ <<"SESSION_STOPPING", "STOPPED">> \in Lifecycle!Allowed
      /\ <<"STOPPED", "FINISHED">> \in Lifecycle!Allowed
      /\ <<"FINISHED", "INITIALIZED">> \in Lifecycle!Allowed
  BY DEF Lifecycle!Allowed
<1>3. {"INITIALIZED", "SESSION_STARTING", "RUNNING", "PAUSED", "SESSION_STOPPING", "STOPPED",
       "FINISHED"} \subseteq States
  BY DEF States
<1>4. state # "PAUSED" => state' = state \/ Lifecycle!Next
  BY <1>1, <1>2, <1>3 DEF Advanced
<1>5. state = "PAUSED" => state' = state \/ Lifecycle!Next
  BY <1>1, <1>2, <1>3 DEF Advanced
<1> QED BY <1>4, <1>5

LEMMA StateIsKept ==
  ASSUME NEW t, Run(t), ~SetState(t), ~Starting(t), ~EnterStopping(t), ~EnterStopped(t)
  PROVE  state' = state
<1>1. Change(t) \/ OnChange(t) => state' = state
  BY DEF Change, OnChange, EnterInitialized, EnterStarting, Spawn, EnterRunning, EnterPaused,
         Stopping, StoppingWith, EnterFinished
<1>2. PutMessage(t) \/ Finished(t) \/ SendEnd(t) \/ Notify(t) => state' = state
  BY DEF PutMessage, Put, PutError, PutStop, PutStopHead, ControlAbort, ControlAbortIf, AbortSent,
         Finished, SendEnd, Notify, NotifyAborted, NotifyEnd, NotifyControl, NotifyControlThen
<1>3. Message(t) => state' = state
  BY DEF Message, Handle, ProcessEnd, Deliver, OnEvent, SessionEnd
<1>4. Serve(t) => state' = state
  BY DEF Serve, Svc, GetQ, GetQShutdown, Unlock, StopProcessing, Leave, LeaveIf,
         Exit, ExitBy, ClearThreadIds, Deactivate, Flush, FlushTo, Release
<1>5. Interface(t) => state' = state
  BY DEF Interface, Start, Stop, StopState, WaitState, Join, LentJoined, ModuleClosed, CloseQueue,
         WaitThreads, Initialize
<1> QED BY <1>1, <1>2, <1>3, <1>4, <1>5 DEF Run

\* What the steps that set the state are given.
LEMMA StateIsSet ==
  ASSUME NEW t, NEW e, stack[t] # <<>>, stack[t][1] = e
  PROVE  /\ SetState(t) => e[1] = "set" /\ state' = e[2]
         /\ Starting(t) => e[1] = "starting" /\ state' = "SESSION_STARTING"
         /\ EnterStopping(t) =>
              e[1] = "enter" /\ e[2] = "SESSION_STOPPING" /\ state' = "SESSION_STOPPING"
         /\ EnterStopped(t) => e[1] = "enter" /\ e[2] = "STOPPED" /\ state' = "STOPPED"
BY DEF SetState, Starting, StartingWith, EnterStopping, EnterStopped, At, Arg

LEMMA ServedAdvances ==
  ASSUME NEW w, NEW e, NEW q, Service(e, q), stack[w] # <<>>, stack[w][1] = e, Run(w)
  PROVE  Advanced
<1>1. CASE SetState(w)
  <2>1. e[1] = "set" /\ state' = e[2]
    BY <1>1, StateIsSet
  <2>2. \/ e[2] = "RUNNING" /\ Begun
        \/ e[2] = "FINISHED" /\ Stopped
    BY <2>1, ServiceLines
  <2> QED BY <2>1, <2>2 DEF Begun, Starts, Stopped, Advanced
<1>2. CASE Starting(w)
  <2>1. e[1] = "starting"
    BY <1>2, StateIsSet
  <2>2. e[1] # "starting"
    BY ServiceLines
  <2> QED BY <2>1, <2>2
<1>3. CASE EnterStopping(w)
  <2>1. e[1] = "enter" /\ e[2] = "SESSION_STOPPING"
    BY <1>3, StateIsSet
  <2>2. e[2] \in {"RUNNING", "STOPPED", "FINISHED"}
    BY <2>1, ServiceLines
  <2> QED BY <2>1, <2>2
<1>4. CASE EnterStopped(w)
  <2>1. e[1] = "enter" /\ e[2] = "STOPPED" /\ state' = "STOPPED"
    BY <1>4, StateIsSet
  <2>2. Ended
    BY <2>1, ServiceLines
  <2> QED BY <2>1, <2>2 DEF Ended, Advanced
<1>5. CASE ~SetState(w) /\ ~Starting(w) /\ ~EnterStopping(w) /\ ~EnterStopped(w)
  BY <1>5, StateIsKept DEF Advanced
<1> QED BY <1>1, <1>2, <1>3, <1>4, <1>5

LEMMA ControlAdvances ==
  ASSUME NEW c, NEW e, NEW q, Control(e, q), stack[c] # <<>>, stack[c][1] = e, Run(c)
  PROVE  Advanced
<1>1. CASE SetState(c)
  <2>1. e[1] = "set" /\ state' = e[2]
    BY <1>1, StateIsSet
  <2>2. \/ e[2] = "PAUSED" /\ state = "RUNNING"
        \/ e[2] = "RUNNING" /\ state = "PAUSED"
    BY <2>1, ControlLines
  <2> QED BY <2>1, <2>2 DEF Advanced
<1>2. CASE EnterStopping(c)
  <2>1. e[1] = "enter" /\ e[2] = "SESSION_STOPPING" /\ state' = "SESSION_STOPPING"
    BY <1>2, StateIsSet
  <2>2. state = "RUNNING"
    BY <2>1, ControlLines
  <2> QED BY <2>1, <2>2 DEF Advanced
<1>3. ~Starting(c) /\ ~EnterStopped(c)
  BY NotCommanded
<1>4. CASE ~SetState(c) /\ ~Starting(c) /\ ~EnterStopping(c) /\ ~EnterStopped(c)
  BY <1>4, StateIsKept DEF Advanced
<1> QED BY <1>1, <1>2, <1>3, <1>4

LEMMA PreparesAdvances ==
  ASSUME NEW c, NEW e, NEW q, Prepares(e, q), stack[c] # <<>>, stack[c][1] = e, Run(c)
  PROVE  Advanced
<1>1. CASE SetState(c)
  <2>1. e[1] = "set" /\ state' = e[2]
    BY <1>1, StateIsSet
  <2>2. e[2] = "INITIALIZED" /\ Past
    BY <2>1, PreparesLines
  <2> QED BY <2>1, <2>2 DEF Past, Advanced
<1>2. CASE Starting(c)
  <2>1. e[1] = "starting" /\ state' = "SESSION_STARTING"
    BY <1>2, StateIsSet
  <2>2. Opened
    BY <2>1, PreparesLines
  <2> QED BY <2>1, <2>2 DEF Opened, Advanced
<1>3. CASE EnterStopping(c) \/ EnterStopped(c)
  <2>1. e[1] = "enter" /\ e[2] \in {"SESSION_STOPPING", "STOPPED"}
    BY <1>3, StateIsSet
  <2>2. e[2] \in {"SESSION_STARTING", "INITIALIZED"}
    BY <2>1, PreparesLines
  <2> QED BY <2>1, <2>2
<1>4. CASE ~SetState(c) /\ ~Starting(c) /\ ~EnterStopping(c) /\ ~EnterStopped(c)
  BY <1>4, StateIsKept DEF Advanced
<1> QED BY <1>1, <1>2, <1>3, <1>4

\* The state is left alone by the threads at any other step.
LEMMA OthersAdvance ==
  ASSUME NEW t, NEW e, stack[t] # <<>>, stack[t][1] = e, Run(t),
         e[1] \notin {"set", "starting", "enter"}
  PROVE  Advanced
<1>1. ~SetState(t) /\ ~Starting(t) /\ ~EnterStopping(t) /\ ~EnterStopped(t)
  BY StateIsSet
<1> QED BY <1>1, StateIsKept DEF Advanced

LEMMA StepAdvances ==
  ASSUME NEW c \in Users, SInv(c), [Next]_vars
  PROVE  Advanced
<1>0. InSession(c) /\ \A u \in Users \ {c} : Feeds(u)
  BY DEF SInv, Sound
<1>1. CASE UNCHANGED vars
  BY <1>1 DEF Advanced
<1>2. ASSUME NEW u \in Users, Call(u) PROVE Advanced
  BY <1>2 DEF Call, Advanced
<1>3. ASSUME NEW w \in Workers, Run(w) PROVE Advanced
  <2>1. stack[w] # <<>>
    BY <1>3, RunsSteps
  <2>2. PICK v \in Workers : Served(v) \/ Closed(v) \/ Waited(v)
    BY <1>0, <2>1 DEF InSession, Bare, Gone, NoWorker
  <2>3. v = w
    BY <2>1, <2>2 DEF Served, Closed, Waited, Counted, Alone
  <2>4. CASE Served(w)
    <3>1. PICK e, q : Doing(w, e, q) /\ Service(e, q)
      BY <2>4 DEF Served
    <3>2. stack[w][1] = e
      BY <3>1 DEF Doing, Heads
    <3> QED BY <1>3, <2>1, <3>1, <3>2, ServedAdvances
  <2>5. CASE Closed(w)
    <3>1. PICK e, q : Doing(w, e, q) /\ Closing(e, q)
      BY <2>5 DEF Closed
    <3>2. stack[w][1] = e /\ e[1] \notin {"set", "starting", "enter"}
      BY <3>1 DEF Doing, Heads, Closing
    <3> QED BY <1>3, <2>1, <3>2, OthersAdvance
  <2>6. CASE Waited(w)
    <3>1. PICK e, q : Doing(w, e, q) /\ OnLoop(e, q)
      BY <2>6 DEF Waited
    <3>2. stack[w][1] = e /\ e[1] \notin {"set", "starting", "enter"}
      BY <3>1 DEF Doing, Heads, OnLoop
    <3> QED BY <1>3, <2>1, <3>2, OthersAdvance
  <2> QED BY <2>2, <2>3, <2>4, <2>5, <2>6
<1>4. ASSUME Run(c) PROVE Advanced
  <2>1. stack[c] # <<>>
    BY <1>4, RunsSteps
  <2>2. CASE Preparing(c)
    <3>1. PICK e, q : Doing(c, e, q) /\ Prepares(e, q)
      BY <2>1, <2>2 DEF Preparing
    <3>2. stack[c][1] = e
      BY <3>1 DEF Doing, Heads
    <3> QED BY <1>4, <2>1, <3>1, <3>2, PreparesAdvances
  <2>3. CASE Controls(c)
    <3>1. PICK e, q : Doing(c, e, q) /\ Control(e, q)
      BY <2>1, <2>3 DEF Controls
    <3>2. stack[c][1] = e
      BY <3>1 DEF Doing, Heads
    <3> QED BY <1>4, <2>1, <3>1, <3>2, ControlAdvances
  <2>4. CASE Owes(c)
    <3>1. PICK e, q : Doing(c, e, q) /\ Owing(e, q)
      BY <2>4 DEF Owes
    <3>2. stack[c][1] = e
      BY <3>1 DEF Doing, Heads
    <3>3. e[1] \in {"stopping", "put_stop", "put_stop_head", "abort", "abort_sent", "handle"}
      BY <3>1, OwingLines
    <3> QED BY <1>4, <2>1, <3>2, <3>3, OthersAdvance
  <2> QED BY <1>0, <2>2, <2>3, <2>4 DEF InSession
<1>5. ASSUME NEW u \in Users \ {c}, Run(u) PROVE Advanced
  <2>1. stack[u] # <<>>
    BY <1>5, RunsSteps
  <2>2. PICK e : e = <<"put", "DATA">> /\ stack[u][1] = e
    BY <1>0, <2>1 DEF Feeds, Doing, Heads
  <2>3. e[1] = "put"
    BY <2>2
  <2> QED BY <1>5, <2>1, <2>2, <2>3, OthersAdvance
<1> QED BY <1>1, <1>2, <1>3, <1>4, <1>5 DEF Next, Threads

-----------------------------------------------------------------------------
(* The sessions of a stream that one thread controls, whatever the others  *)
(* feed it with, and however often it is paused, stopped, closed or        *)
(* prepared anew.                                                          *)

LEMMA SessionHolds ==
  ASSUME NEW c \in Users
  PROVE  Spec /\ ControlledBy(c) => [](IInv /\ SInv(c))
<1> DEFINE Inv == IInv /\ SInv(c)
<1>1. Init /\ ControlledBy(c) => Inv
  BY InitHolds, SessionInit
<1>2. Inv /\ [Next]_vars => Inv'
  <2>1. IInv /\ [Next]_vars => IInv'
    BY StepHolds
  <2>2. IInv /\ SInv(c) /\ [Next]_vars => SInv(c)'
    BY SessionStep
  <2> QED BY <2>1, <2>2
<1> HIDE DEF Inv
<1>3. Spec /\ ControlledBy(c) => []Inv
  BY <1>1, <1>2, PTL DEF Spec
<1> QED BY <1>3 DEF Inv

\* The ACE_ASSERTs of the head module hold: where onChange() makes session data there is
\* none, where stop(), begin(), svc() and close() use it there is, and finished() finds
\* the session stopping or finished.
THEOREM AssertionsHold ==
  ASSUME NEW c \in Users
  PROVE  Spec /\ ControlledBy(c) => []NoAssertionFailed
<1>1. SInv(c) => NoAssertionFailed
  BY DEF SInv, Sound, NoAssertionFailed
<1>2. Spec /\ ControlledBy(c) => [](IInv /\ SInv(c))
  BY SessionHolds
<1> QED BY <1>1, <1>2, PTL

\* finished(), stop() and close() may each want to end the session, from two threads:
\* one END is processed, and onSessionEnd() is called once.
THEOREM EndsOnce ==
  ASSUME NEW c \in Users
  PROVE  Spec /\ ControlledBy(c) => []SessionEndsOnce
<1>1. SInv(c) => SessionEndsOnce
  BY OnceAndInOrder
<1>2. Spec /\ ControlledBy(c) => [](IInv /\ SInv(c))
  BY SessionHolds
<1> QED BY <1>1, <1>2, PTL

\* The BEGIN that onChange(SESSION_STARTING) queues is passed on before any END.
THEOREM BeginsBeforeEnd ==
  ASSUME NEW c \in Users
  PROVE  Spec /\ ControlledBy(c) => []BeginBeforeEnd
<1>1. SInv(c) => BeginBeforeEnd
  BY OnceAndInOrder
<1>2. Spec /\ ControlledBy(c) => [](IInv /\ SInv(c))
  BY SessionHolds
<1> QED BY <1>1, <1>2, PTL

\* svc() breaks its loop only where it finds FINISHED, whether MB_STOP or the closing of
\* the queue woke it.
THEOREM WorkerLeavesFinished ==
  ASSUME NEW c \in Users
  PROVE  Spec /\ ControlledBy(c) => []LeavesFinishedSession
<1>1. SInv(c) => LeavesFinishedSession
  BY SessionLines
<1>2. Spec /\ ControlledBy(c) => [](IInv /\ SInv(c))
  BY SessionHolds
<1> QED BY <1>1, <1>2, PTL

\* When every thread has returned from a finished session, the worker is gone, and so
\* are its session data, its thread ids, what was queued and its count.
THEOREM AllIsReleased ==
  ASSUME NEW c \in Users
  PROVE  Spec /\ ControlledBy(c) => []NothingLeftBehind
<1>1. IInv /\ SInv(c) => NothingLeftBehind
  BY NothingIsLeft
<1>2. Spec /\ ControlledBy(c) => [](IInv /\ SInv(c))
  BY SessionHolds
<1> QED BY <1>1, <1>2, PTL

\* and onSessionEnd() was called: the session is told of its end also where close()
\* flushes a queue that END is in.
THEOREM EndIsNotified ==
  ASSUME NEW c \in Users
  PROVE  Spec /\ ControlledBy(c) => []SessionEndIsNotified
<1>1. IInv /\ SInv(c) => SessionEndIsNotified
  BY NothingIsLeft
<1>2. Spec /\ ControlledBy(c) => [](IInv /\ SInv(c))
  BY SessionHolds
<1> QED BY <1>1, <1>2, PTL

\* setState() checks the transition and calls onChange(), which writes the state later and
\* with the lock released between: the state still makes only the transitions that the
\* table of change() accepts, the worker's and the controlling thread's alike.
THEOREM LifecycleImplemented ==
  ASSUME NEW c \in Users
  PROVE  Spec /\ ControlledBy(c) => ImplementsLifecycle
<1>1. Init => Lifecycle!Init
  BY DEF Init, Lifecycle!Init
<1>2. SInv(c) /\ [Next]_vars => [Lifecycle!Next]_state
  BY StepAdvances, AdvancedAllowed
<1>3. Spec /\ ControlledBy(c) => [](IInv /\ SInv(c))
  BY SessionHolds
<1> QED BY <1>1, <1>2, <1>3, PTL DEF Spec, ImplementsLifecycle, Lifecycle!Spec
=============================================================================
