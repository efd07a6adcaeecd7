------------------------ MODULE SDMCompBuffersProofs ------------------------
(***************************************************************************)
(* Theorems about SDMCompBuffers, for any threads, handles, descriptors,   *)
(* requests and width of the word.                                         *)
(***************************************************************************)
EXTENDS SDMCompBuffers, TLAPS

---------------------------------------------------------------------------
(* Sizes                                                                   *)

\* Rounding up to 32 never loses a pixel.
LEMMA AlignUp ==
    ASSUME NEW n \in Nat
    PROVE  Align(n) \in Nat /\ n <= Align(n)
BY SMT DEF Align

LEMMA BppValues ==
    ASSUME NEW f
    PROVE  GetBpp(f) \in 0 .. 4
BY DEF GetBpp

LEMMA ProductMonotone ==
    ASSUME NEW a \in Nat, NEW b \in Nat, NEW c \in Nat,
           NEW x \in Nat, NEW y \in Nat, a <= x, b <= y
    PROVE  a * b * c \in Nat /\ x * y * c \in Nat /\ a * b * c <= x * y * c
<1>1. a * b <= x * b
    BY SMT
<1>2. x * b <= x * y
    BY SMT
<1>3. a * b \in Nat /\ x * b \in Nat /\ x * y \in Nat
    BY SMT
<1>4. a * b <= x * y
    BY <1>1, <1>2, <1>3, SMT
<1>5. ASSUME NEW m \in Nat, NEW n \in Nat, m <= n
      PROVE  m * c \in Nat /\ n * c \in Nat /\ m * c <= n * c
    BY <1>5, SMT
<1>6. QED
    BY <1>3, <1>4, <1>5

Aligned(w, h, f) == Align(w) * Align(h) * GetBpp(f)

\* The pixels of a picture are no more than its aligned size.
LEMMA PixelsWithinAligned ==
    ASSUME NEW w \in Nat, NEW h \in Nat, NEW f
    PROVE  Aligned(w, h, f) \in Nat /\ w * h * GetBpp(f) <= Aligned(w, h, f)
<1>1. GetBpp(f) \in Nat
    BY BppValues, SMT
<1>2. QED
    BY <1>1, AlignUp, ProductMonotone DEF Aligned

LEMMA WordPositive == Word \in Nat /\ Word > 0
BY BufferConstants, SMT

LEMMA UnsignedInBytes ==
    ASSUME NEW n \in Nat
    PROVE  ToUnsigned(n) \subseteq Bytes
BY WordPositive, SMT DEF ToUnsigned, Bytes

\* The computed size is always a uint32_t, and the aligned size where that fits.
LEMMA BufferSizes ==
    ASSUME NEW w \in Nat, NEW h \in Nat, NEW f
    PROVE  /\ GetBufferSize(w, h, f) \subseteq Bytes
           /\ Fits(w, h, f) => GetBufferSize(w, h, f) = {Aligned(w, h, f)}
<1> DEFINE p == Align(w) * Align(h)
           b == GetBpp(f)
<1>1. b \in 0 .. 4
    BY BppValues
<1>2. p \in Nat
    <2>1. Align(w) \in Nat /\ Align(h) \in Nat
        BY AlignUp
    <2> HIDE DEF b
    <2>2. QED
        BY <2>1, SMT
<1> HIDE DEF p, b
<1>3. p % Word \in Nat
    BY <1>2, WordPositive, SMT
<1>4. (p % Word) * b \in Nat
    BY <1>1, <1>3, SMT
<1>5. GetBufferSize(w, h, f) = ToUnsigned((p % Word) * b)
    BY DEF GetBufferSize, Product, p, b
<1>6. ASSUME p * b < Word
      PROVE  ToUnsigned((p % Word) * b) = {p * b}
    <2>1. CASE b = 0
        BY <2>1, <1>2, <1>3, WordPositive, SMT DEF ToUnsigned
    <2>2. CASE b # 0
        <3>1. p <= p * b
            BY <2>2, <1>1, <1>2, SMT
        <3>2. p * b \in Nat
            BY <1>1, <1>2, SMT
        <3>3. p % Word = p
            BY <3>1, <3>2, <1>2, <1>6, WordPositive, SMT
        <3>4. QED
            BY <3>3, <1>6 DEF ToUnsigned
    <2>3. QED
        BY <2>1, <2>2
<1>7. QED
    BY <1>4, <1>5, <1>6, UnsignedInBytes DEF Fits, Aligned, p, b

LEMMA StrideInBytes ==
    ASSUME NEW w \in Dimension, NEW f
    PROVE  Stride(w, f) \in Bytes
<1>1. Align(w) \in Nat /\ 4 * Align(w) < Word
    BY AlignUp DEF Dimension
<1>2. GetBpp(f) \in 0 .. 4
    BY BppValues
<1>3. ASSUME NEW a \in Nat, NEW b \in 0 .. 4, 4 * a < Word
      PROVE  a * b \in 0 .. Word - 1
    BY <1>3, WordPositive, SMT
<1>4. QED
    BY <1>1, <1>2, <1>3 DEF Stride, Bytes

---------------------------------------------------------------------------
(* Types                                                                   *)

LEMMA FormatsConverted ==
    ASSUME NEW f
    PROVE  GetSDMCompFormat(f) \in BufferFormat
BY DEF GetSDMCompFormat, BufferFormat

LEMMA FilledTyped ==
    ASSUME NEW d, d.width \in Dimension, d.height \in Dimension,
           d.format \in BufferFormat,
           NEW f \in Fd \cup {NoFd}, NEW m \in Memory \cup {Nothing},
           NEW size \in Bytes
    PROVE  Filled(d, f, m, size) \in BufferHandle
<1>1. Stride(d.width, d.format) \in Bytes
    BY StrideInBytes
<1>2. -1 \in Id
    BY BufferConstants, SMT DEF Id
<1>3. QED
    BY <1>1, <1>2 DEF Filled, BufferHandle

ThreadStates ==
    [pc : {"idle", "load", "store", "copy"}, handle : Handle \cup {Nothing},
     config : Config \cup {Nothing}, id : Id]

\* A thread inside a call works on a handle that is in use.
ThreadsHold ==
    \A t \in Thread :
        thread[t].pc # "idle" =>
            thread[t].handle \in Handle /\ Held(thread[t].handle)

CopyingConfig ==
    \A t \in Thread : thread[t].pc = "copy" => thread[t].config \in Config

TypeInv == TypeOK /\ ThreadsHold /\ CopyingConfig

LEMMA HeldIsHandle ==
    ASSUME TypeOK, NEW h \in Handle
    PROVE  /\ Held(h) <=> handle[h] \in BufferHandle
           /\ Held(h) => /\ handle[h].width \in Dimension
                         /\ handle[h].height \in Dimension
                         /\ handle[h].format \in BufferFormat
                         /\ handle[h].size \in Bytes
<1>1. Held(h) <=> handle[h] \in BufferHandle
    BY BufferConstants DEF TypeOK, Held
<1>2. QED
    BY <1>1 DEF BufferHandle

LEMMA DimensionsNatural == Dimension \subseteq Nat
BY DEF Dimension

LEMMA InitTyped == Init => TypeInv
<1>1. -1 \in Id /\ 0 \in Bytes
    BY BufferConstants, WordPositive, SMT DEF Id, Bytes
<1>2. QED
    BY <1>1 DEF Init, TypeInv, TypeOK, ThreadsHold, CopyingConfig, IdleThread

\* The step that both kinds of Alloc take, for a request of the right types.
LEMMA AllocateTyped ==
    ASSUME TypeInv, NEW t \in Thread, NEW h \in Handle, NEW d, NEW sizes,
           NEW c \in Config \cup {Nothing},
           d.width \in Dimension, d.height \in Dimension, d.format \in BufferFormat,
           sizes \subseteq Bytes,
           Allocate(t, h, d, sizes, c)
    PROVE  TypeInv'
<1>1. PICK f \in Fd, m \in Memory \ InUse, size \in sizes \ {0} :
          /\ fds' = [fds EXCEPT ![f] = m]
          /\ room' = [room EXCEPT ![m] = size]
          /\ handle' = [handle EXCEPT ![h] = Filled(d, f, m, size)]
    BY DEF Allocate
<1>2. Filled(d, f, m, size) \in BufferHandle
    BY FilledTyped
<1>3. -1 \in Id
    BY BufferConstants, SMT DEF Id
<1>4. thread' = [thread EXCEPT ![t] = [pc |-> "load", handle |-> h, config |-> c, id |-> -1]]
    BY DEF Allocate, GoToId
<1>5. TypeOK'
    <2>1. room' \in [Memory -> Bytes] /\ fds' \in [Fd -> Memory \cup {Nothing}]
        BY <1>1 DEF TypeInv, TypeOK
    <2>2. handle' \in [Handle -> BufferHandle \cup {Nothing}]
        BY <1>1, <1>2 DEF TypeInv, TypeOK
    <2>3. [pc |-> "load", handle |-> h, config |-> c, id |-> -1] \in ThreadStates
        BY <1>3 DEF ThreadStates
    <2>4. thread' \in [Thread -> ThreadStates]
        BY <1>4, <2>3 DEF TypeInv, TypeOK, ThreadStates
    <2>5. QED
        BY <2>1, <2>2, <2>4 DEF TypeInv, TypeOK, Allocate, ThreadStates
<1>6. Filled(d, f, m, size) # Nothing
    BY <1>2, BufferConstants
<1>7. QED
    BY <1>1, <1>4, <1>5, <1>6 DEF TypeInv, TypeOK, ThreadsHold, CopyingConfig, Held

\* So do both kinds of Clone.
LEMMA CloneTyped ==
    ASSUME TypeInv, NEW t \in Thread, NEW h \in Handle, NEW g \in Handle, Held(g),
           NEW f \in Fd \cup {NoFd}, NEW m \in Memory \cup {Nothing},
           NEW size \in GetBufferSize(handle[g].width, handle[g].height, handle[g].format),
           handle' = [handle EXCEPT ![h] = Filled(handle[g], f, m, size)],
           fds' \in [Fd -> Memory \cup {Nothing}],
           GoToId(t, h, Nothing), UNCHANGED <<id, room, info, mapped>>
    PROVE  TypeInv'
<1>1. /\ handle[g].width \in Dimension /\ handle[g].height \in Dimension
      /\ handle[g].format \in BufferFormat
    BY HeldIsHandle DEF TypeInv
<1>2. size \in Bytes
    BY <1>1, DimensionsNatural, BufferSizes
<1>3. Filled(handle[g], f, m, size) \in BufferHandle
    BY <1>1, <1>2, FilledTyped
<1>4. -1 \in Id
    BY BufferConstants, SMT DEF Id
<1>5. thread' = [thread EXCEPT ![t] = [pc |-> "load", handle |-> h,
                                       config |-> Nothing, id |-> -1]]
    BY DEF GoToId
<1>6. TypeOK'
    <2>1. handle' \in [Handle -> BufferHandle \cup {Nothing}]
        BY <1>3 DEF TypeInv, TypeOK
    <2>2. [pc |-> "load", handle |-> h, config |-> Nothing, id |-> -1] \in ThreadStates
        BY <1>4 DEF ThreadStates
    <2>3. thread' \in [Thread -> ThreadStates]
        BY <1>5, <2>2 DEF TypeInv, TypeOK, ThreadStates
    <2>4. QED
        BY <2>1, <2>3 DEF TypeInv, TypeOK, ThreadStates
<1>7. Filled(handle[g], f, m, size) # Nothing
    BY <1>3, BufferConstants
<1>8. QED
    BY <1>5, <1>6, <1>7 DEF TypeInv, TypeOK, ThreadsHold, CopyingConfig, Held

LEMMA RequestTyped ==
    ASSUME NEW d \in Request
    PROVE  /\ d.width \in Dimension /\ d.height \in Dimension
           /\ d.format \in BufferFormat /\ d.size \in Bytes
BY BufferConstants

LEMMA ConfigTyped ==
    ASSUME NEW c \in Config
    PROVE  c.width \in Dimension /\ c.height \in Dimension
BY BufferConstants

LEMMA StepTyped == TypeInv /\ [Next]_vars => TypeInv'
<1> SUFFICES ASSUME TypeInv, [Next]_vars
             PROVE  TypeInv'
    OBVIOUS
<1>1. ASSUME NEW t \in Thread, NEW h \in Handle, NEW d \in Request, AllocBuffer(t, h, d)
      PROVE  TypeInv'
    <2> DEFINE sizes == IF d.size # 0 THEN {d.size}
                        ELSE GetBufferSize(d.width, d.height, d.format)
    <2>1. sizes \subseteq Bytes
        BY RequestTyped, DimensionsNatural, BufferSizes
    <2>2. Allocate(t, h, d, sizes, Nothing)
        BY <1>1 DEF AllocBuffer
    <2> HIDE DEF sizes
    <2>3. QED
        BY <2>1, <2>2, RequestTyped, AllocateTyped
<1>2. ASSUME NEW t \in Thread, NEW h \in Handle, NEW c \in Config, AllocateBuffer(t, h, c)
      PROVE  TypeInv'
    <2> DEFINE d == [width |-> c.width, height |-> c.height,
                     format |-> GetSDMCompFormat(c.format), size |-> 0]
               sizes == GetBufferSize(d.width, d.height, d.format)
    <2>1. d.width \in Dimension /\ d.height \in Dimension /\ d.format \in BufferFormat
        BY ConfigTyped, FormatsConverted
    <2>2. sizes \subseteq Bytes
        BY <2>1, DimensionsNatural, BufferSizes
    <2>3. Allocate(t, h, d, sizes, c)
        BY <1>2 DEF AllocateBuffer
    <2> HIDE DEF d, sizes
    <2>4. QED
        BY <2>1, <2>2, <2>3, AllocateTyped
<1>3. ASSUME NEW t \in Thread, NEW h \in Handle, NEW g \in Handle, CloneBuffer(t, h, g)
      PROVE  TypeInv'
    <2>1. PICK f \in Fd, size \in GetBufferSize(handle[g].width, handle[g].height,
                                                handle[g].format) :
              /\ Duplicated(g, f)
              /\ fds' = [fds EXCEPT ![f] = handle[g].memory]
              /\ handle' = [handle EXCEPT ![h] = Filled(handle[g], f, handle[g].memory, size)]
        BY <1>3 DEF CloneBuffer
    <2>2. handle[g].memory \in Memory \cup {Nothing}
        BY <1>3, HeldIsHandle DEF TypeInv, CloneBuffer, BufferHandle
    <2>3. fds' \in [Fd -> Memory \cup {Nothing}]
        BY <2>1, <2>2 DEF TypeInv, TypeOK
    <2>4. Held(g) /\ GoToId(t, h, Nothing) /\ UNCHANGED <<id, room, info, mapped>>
        BY <1>3 DEF CloneBuffer
    <2>5. QED
        BY <2>1, <2>2, <2>3, <2>4, CloneTyped
<1>4. ASSUME NEW t \in Thread, NEW h \in Handle, NEW g \in Handle, CloneWithoutFd(t, h, g)
      PROVE  TypeInv'
    <2>1. PICK size \in GetBufferSize(handle[g].width, handle[g].height, handle[g].format) :
              handle' = [handle EXCEPT ![h] = Filled(handle[g], NoFd, Nothing, size)]
        BY <1>4 DEF CloneWithoutFd
    <2>2. /\ Held(g) /\ GoToId(t, h, Nothing) /\ UNCHANGED <<id, room, info, mapped>>
          /\ fds' \in [Fd -> Memory \cup {Nothing}]
        BY <1>4 DEF CloneWithoutFd, kernelVars, TypeInv, TypeOK
    <2>3. QED
        BY <2>1, <2>2, CloneTyped
<1>5. ASSUME NEW t \in Thread, LoadId(t)
      PROVE  TypeInv'
    BY <1>5 DEF LoadId, kernelVars, TypeInv, TypeOK, ThreadsHold, CopyingConfig, Held
<1>6. ASSUME NEW t \in Thread, StoreId(t)
      PROVE  TypeInv'
    <2> DEFINE h == thread[t].handle
               n == thread[t].id
    <2>1. h \in Handle /\ Held(h) /\ n \in Id
        BY <1>6 DEF StoreId, TypeInv, TypeOK, ThreadsHold
    <2>2. handle[h] \in BufferHandle
        BY <2>1, HeldIsHandle DEF TypeInv
    <2>3. [handle[h] EXCEPT !.id = n] \in BufferHandle
        BY <2>1, <2>2 DEF BufferHandle
    <2>4. n + 1 \in Id /\ -1 \in Id
        BY <1>6, <2>1, BufferConstants, SMT DEF StoreId, Id
    <2>5. handle' = [handle EXCEPT ![h] = [handle[h] EXCEPT !.id = n]]
        BY <1>6, <2>1 DEF StoreId, TypeInv, TypeOK
    <2>6. handle' \in [Handle -> BufferHandle \cup {Nothing}]
          /\ \A g \in Handle : Held(g) => Held(g)'
        <3>1. [handle[h] EXCEPT !.id = n] # Nothing
            BY <2>3, BufferConstants
        <3>2. QED
            BY <2>1, <2>3, <2>5, <3>1 DEF TypeInv, TypeOK, Held
    <2>7. /\ thread[t].config = Nothing => thread' = [thread EXCEPT ![t] = IdleThread]
          /\ thread[t].config # Nothing =>
                 thread' = [thread EXCEPT ![t] = [thread[t] EXCEPT !.pc = "copy"]]
        BY <1>6 DEF StoreId, TypeInv, TypeOK
    <2>8. IdleThread \in [pc : {"idle", "load", "store", "copy"},
                          handle : Handle \cup {Nothing},
                          config : Config \cup {Nothing}, id : Id]
          /\ IdleThread.pc = "idle"
        BY <2>4 DEF IdleThread
    <2> HIDE DEF h, n
    <2>9. TypeOK'
        BY <1>6, <2>4, <2>6, <2>7, <2>8 DEF StoreId, kernelVars, TypeInv, TypeOK, n
    <2>10. ASSUME NEW u \in Thread, thread'[u].pc # "idle"
           PROVE  /\ thread'[u].handle \in Handle
                  /\ handle'[thread'[u].handle] # Nothing
                  /\ thread'[u].pc = "copy" => thread'[u].config \in Config
        <3>1. CASE u # t
            <4>1. thread'[u] = thread[u]
                BY <2>7, <3>1 DEF TypeInv, TypeOK
            <4>2. QED
                BY <2>6, <2>10, <4>1 DEF TypeInv, ThreadsHold, CopyingConfig, Held
        <3>2. CASE u = t
            <4>1. CASE thread[t].config = Nothing
                BY <2>7, <2>8, <2>10, <3>2, <4>1 DEF TypeInv, TypeOK
            <4>2. CASE thread[t].config # Nothing
                <5>1. thread'[t] = [thread[t] EXCEPT !.pc = "copy"]
                    BY <2>7, <4>2 DEF TypeInv, TypeOK
                <5>2. thread[t] \in ThreadStates
                    BY DEF TypeInv, TypeOK, ThreadStates
                <5>3. /\ thread'[t].handle = thread[t].handle
                      /\ thread'[t].config = thread[t].config
                    BY <5>1, <5>2 DEF ThreadStates
                <5>4. QED
                    BY <2>1, <2>6, <3>2, <4>2, <5>2, <5>3 DEF ThreadStates, h, Held
            <4>3. QED
                BY <4>1, <4>2
        <3>3. QED
            BY <3>1, <3>2
    <2>11. QED
        BY <2>9, <2>10 DEF TypeInv, ThreadsHold, CopyingConfig, Held
<1>7. ASSUME NEW t \in Thread, CopyInfo(t)
      PROVE  TypeInv'
    <2>1. /\ thread[t].handle \in Handle /\ thread[t].config \in Config
          /\ handle[thread[t].handle] \in BufferHandle
        BY <1>7, HeldIsHandle DEF CopyInfo, TypeInv, ThreadsHold, CopyingConfig
    <2>2. -1 \in Id
        BY BufferConstants, SMT DEF Id
    <2>3. QED
        BY <1>7, <2>1, <2>2
        DEF CopyInfo, kernelVars, TypeInv, TypeOK, ThreadsHold, CopyingConfig, Held,
            IdleThread, BufferHandle
<1>8. ASSUME NEW h \in Handle, FreeBuffer(h)
      PROVE  TypeInv'
    BY <1>8 DEF FreeBuffer, UnderWay, Closed, TypeInv, TypeOK, ThreadsHold, CopyingConfig, Held
<1>9. ASSUME NEW h \in Handle, MapBuffer(h)
      PROVE  TypeInv'
    <2>1. fds[handle[h].fd] \in Memory \cup {Nothing}
        <3>1. handle[h] \in BufferHandle
            BY <1>9, HeldIsHandle DEF MapBuffer, TypeInv
        <3>2. QED
            BY <1>9, <3>1 DEF MapBuffer, TypeInv, TypeOK, BufferHandle
    <2>2. QED
        BY <1>9, <2>1 DEF MapBuffer, TypeInv, TypeOK, ThreadsHold, CopyingConfig, Held
<1>10. ASSUME NEW h \in Handle, UnmapBuffer(h)
       PROVE  TypeInv'
    BY <1>10 DEF UnmapBuffer, TypeInv, TypeOK, ThreadsHold, CopyingConfig, Held
<1>11. CASE UNCHANGED vars
    BY <1>11 DEF vars, kernelVars, TypeInv, TypeOK, ThreadsHold, CopyingConfig, Held
<1>12. QED
    BY <1>1, <1>2, <1>3, <1>4, <1>5, <1>6, <1>7, <1>8, <1>9, <1>10, <1>11
    DEF Next, ThreadStep

\* TypeOK holds for every instance: sizes and strides stay uint32_t, however
\* large the pictures, and a thread in a call has the handle it fills.
THEOREM TypeCorrect == Spec => []TypeInv
BY InitTyped, StepTyped, PTL DEF Spec

THEOREM BuffersTyped == Spec => []TypeOK
<1>1. TypeInv => TypeOK
    BY DEF TypeInv
<1>2. QED
    BY <1>1, TypeCorrect, PTL

---------------------------------------------------------------------------
(* Handles, descriptors and memory                                         *)

\* A handle has a descriptor exactly if it was made for some memory.
FdForMemory ==
    \A h \in Handle : Held(h) => (handle[h].fd = NoFd <=> handle[h].memory = Nothing)

Owned == HandlesKeepMemory /\ NoDescriptorLeaked /\ FdForMemory

LEMMA HandleFields ==
    ASSUME TypeOK, NEW h \in Handle, Held(h)
    PROVE  /\ handle[h].fd \in Fd \cup {NoFd}
           /\ handle[h].memory \in Memory \cup {Nothing}
BY HeldIsHandle DEF BufferHandle

\* A new handle with a new descriptor of its own.
LEMMA OwnedAdd ==
    ASSUME TypeOK, Owned, NEW h \in Handle, ~Held(h), NEW f \in Fd, fds[f] = Nothing,
           NEW m \in Memory, NEW b \in BufferHandle, b.fd = f, b.memory = m,
           fds' = [fds EXCEPT ![f] = m], handle' = [handle EXCEPT ![h] = b]
    PROVE  Owned'
<1>1. \A g \in Handle : Held(g)' <=> g = h \/ Held(g)
    BY BufferConstants DEF TypeOK, Held
<1>2. \A g \in Handle : handle'[g] = IF g = h THEN b ELSE handle[g]
    BY DEF TypeOK
<1>3. \A e \in Fd : fds'[e] = IF e = f THEN m ELSE fds[e]
    BY DEF TypeOK
<1>4. f # NoFd /\ m # Nothing
    BY BufferConstants
<1>5. \A g \in Handle : Held(g) => handle[g].fd # f
    <2>1. ASSUME NEW g \in Handle, Held(g), handle[g].fd = f
          PROVE  FALSE
        <3>1. fds[f] = handle[g].memory /\ handle[g].memory # Nothing
            BY <2>1, <1>4 DEF Owned, HandlesKeepMemory, FdForMemory
        <3>2. QED
            BY <3>1
    <2>2. QED
        BY <2>1
<1>6. HandlesKeepMemory'
    <2>1. ASSUME NEW g \in Handle, Held(g)', handle'[g].fd # NoFd
          PROVE  /\ fds'[handle'[g].fd] = handle'[g].memory
                 /\ \A k \in Handle : Held(k)' /\ handle'[k].fd = handle'[g].fd => k = g
        <3>1. CASE g = h
            BY <3>1, <1>1, <1>2, <1>3, <1>5
        <3>2. CASE g # h
            <4>1. Held(g) /\ handle'[g] = handle[g] /\ handle[g].fd \in Fd
                BY <2>1, <3>2, <1>1, <1>2, HandleFields
            <4>2. QED
                BY <2>1, <4>1, <1>1, <1>2, <1>3, <1>5 DEF Owned, HandlesKeepMemory
        <3>3. QED
            BY <3>1, <3>2
    <2>2. QED
        BY <2>1 DEF HandlesKeepMemory
<1>7. NoDescriptorLeaked'
    <2>1. ASSUME NEW e \in Fd, fds'[e] # Nothing
          PROVE  \E g \in Handle : Held(g)' /\ handle'[g].fd = e
        <3>1. CASE e = f
            BY <3>1, <1>1, <1>2
        <3>2. CASE e # f
            <4>1. PICK g \in Handle : Held(g) /\ handle[g].fd = e
                BY <2>1, <3>2, <1>3 DEF Owned, NoDescriptorLeaked
            <4>2. g # h
                BY <4>1
            <4>3. QED
                BY <4>1, <4>2, <1>1, <1>2
        <3>3. QED
            BY <3>1, <3>2
    <2>2. QED
        BY <2>1 DEF NoDescriptorLeaked
<1>8. FdForMemory'
    BY <1>1, <1>2, <1>4 DEF Owned, FdForMemory
<1>9. QED
    BY <1>6, <1>7, <1>8 DEF Owned

\* A change that leaves every handle its descriptor and its memory, or adds a
\* handle with neither.
LEMMA OwnedKept ==
    ASSUME TypeOK, Owned, fds' = fds,
           \A g \in Handle : Held(g) => /\ Held(g)' /\ handle'[g].fd = handle[g].fd
                                        /\ handle'[g].memory = handle[g].memory,
           \A g \in Handle : Held(g)' /\ ~Held(g) =>
               handle'[g].fd = NoFd /\ handle'[g].memory = Nothing
    PROVE  Owned'
<1>1. HandlesKeepMemory'
    BY DEF Owned, HandlesKeepMemory
<1>2. NoDescriptorLeaked'
    BY DEF Owned, NoDescriptorLeaked
<1>3. FdForMemory'
    BY DEF Owned, FdForMemory
<1>4. QED
    BY <1>1, <1>2, <1>3 DEF Owned

\* A handle that goes, and closes its descriptor.
LEMMA OwnedFree ==
    ASSUME TypeOK, Owned, NEW h \in Handle, FreeBuffer(h)
    PROVE  Owned'
<1>1. Held(h)
    BY DEF FreeBuffer
<1>2. \A g \in Handle : /\ Held(g)' <=> g # h /\ Held(g)
                        /\ g # h => handle'[g] = handle[g]
    BY DEF FreeBuffer, TypeOK, Held
<1>3. handle[h].fd \in Fd \cup {NoFd}
    BY <1>1, HandleFields
<1>4. \A e \in Fd : fds'[e] = IF e = handle[h].fd THEN Nothing ELSE fds[e]
    BY <1>3, BufferConstants DEF FreeBuffer, Closed, TypeOK
<1>5. HandlesKeepMemory'
    <2>1. ASSUME NEW g \in Handle, Held(g)', handle'[g].fd # NoFd
          PROVE  /\ fds'[handle'[g].fd] = handle'[g].memory
                 /\ \A k \in Handle : Held(k)' /\ handle'[k].fd = handle'[g].fd => k = g
        <3>1. g # h /\ Held(g) /\ handle'[g] = handle[g] /\ handle[g].fd \in Fd
            BY <2>1, <1>2, HandleFields
        <3>2. handle[g].fd # handle[h].fd
            BY <1>1, <3>1, <2>1 DEF Owned, HandlesKeepMemory
        <3>3. QED
            BY <2>1, <3>1, <3>2, <1>2, <1>4 DEF Owned, HandlesKeepMemory
    <2>2. QED
        BY <2>1 DEF HandlesKeepMemory
<1>6. NoDescriptorLeaked'
    <2>1. ASSUME NEW e \in Fd, fds'[e] # Nothing
          PROVE  \E g \in Handle : Held(g)' /\ handle'[g].fd = e
        <3>1. e # handle[h].fd /\ fds[e] # Nothing
            BY <2>1, <1>4
        <3>2. PICK g \in Handle : Held(g) /\ handle[g].fd = e
            BY <3>1 DEF Owned, NoDescriptorLeaked
        <3>3. QED
            BY <3>1, <3>2, <1>2
    <2>2. QED
        BY <2>1 DEF NoDescriptorLeaked
<1>7. FdForMemory'
    BY <1>2 DEF Owned, FdForMemory
<1>8. QED
    BY <1>5, <1>6, <1>7 DEF Owned

\* What Allocate and CloneBuffer do to the handles and the descriptors: h is
\* new, filled for d, and has descriptor f of memory m.
Added(h, d, f, m, size) ==
    /\ ~Held(h) /\ fds[f] = Nothing
    /\ fds' = [fds EXCEPT ![f] = m]
    /\ handle' = [handle EXCEPT ![h] = Filled(d, f, m, size)]
    /\ Filled(d, f, m, size) \in BufferHandle
    /\ UNCHANGED mapped

LEMMA AllocateAdds ==
    ASSUME NEW t \in Thread, NEW h \in Handle, NEW d, NEW sizes,
           NEW c \in Config \cup {Nothing},
           d.width \in Dimension, d.height \in Dimension, d.format \in BufferFormat,
           sizes \subseteq Bytes, Allocate(t, h, d, sizes, c)
    PROVE  \E f \in Fd, m \in Memory \ InUse, size \in sizes \ {0} :
              Added(h, d, f, m, size) /\ room' = [room EXCEPT ![m] = size]
<1>1. PICK f \in Fd, m \in Memory \ InUse, size \in sizes \ {0} :
          /\ fds[f] = Nothing
          /\ fds' = [fds EXCEPT ![f] = m]
          /\ room' = [room EXCEPT ![m] = size]
          /\ handle' = [handle EXCEPT ![h] = Filled(d, f, m, size)]
    BY DEF Allocate
<1>2. Filled(d, f, m, size) \in BufferHandle
    BY FilledTyped
<1>3. Added(h, d, f, m, size)
    BY <1>1, <1>2 DEF Added, Allocate
<1>4. QED
    BY <1>1, <1>3

\* The allocation for a client and for the core: how large it may be.
Asked(d) == IF d.size # 0 THEN {d.size} ELSE GetBufferSize(d.width, d.height, d.format)

LEMMA AllocBufferAdds ==
    ASSUME NEW t \in Thread, NEW h \in Handle, NEW d \in Request, AllocBuffer(t, h, d)
    PROVE  \E f \in Fd, m \in Memory \ InUse, size \in Asked(d) \ {0} :
              Added(h, d, f, m, size) /\ room' = [room EXCEPT ![m] = size]
<1>1. Asked(d) \subseteq Bytes
    BY RequestTyped, DimensionsNatural, BufferSizes DEF Asked
<1>2. Allocate(t, h, d, Asked(d), Nothing)
    BY DEF AllocBuffer, Asked
<1>3. QED
    BY <1>1, <1>2, RequestTyped, AllocateAdds

ForCore(c) == [width |-> c.width, height |-> c.height,
               format |-> GetSDMCompFormat(c.format), size |-> 0]

LEMMA ForCoreTyped ==
    ASSUME NEW c \in Config
    PROVE  /\ ForCore(c).width \in Dimension /\ ForCore(c).height \in Dimension
           /\ ForCore(c).format \in BufferFormat
BY ConfigTyped, FormatsConverted DEF ForCore

LEMMA AllocateBufferAdds ==
    ASSUME NEW t \in Thread, NEW h \in Handle, NEW c \in Config, AllocateBuffer(t, h, c)
    PROVE  \E f \in Fd, m \in Memory \ InUse, size \in Asked(ForCore(c)) \ {0} :
              Added(h, ForCore(c), f, m, size) /\ room' = [room EXCEPT ![m] = size]
<1>1. Asked(ForCore(c)) = GetBufferSize(ForCore(c).width, ForCore(c).height, ForCore(c).format)
    BY DEF Asked, ForCore
<1>2. Asked(ForCore(c)) \subseteq Bytes
    <2>1. ForCore(c).width \in Nat /\ ForCore(c).height \in Nat
        BY ForCoreTyped, DimensionsNatural
    <2> HIDE DEF ForCore
    <2>2. GetBufferSize(ForCore(c).width, ForCore(c).height, ForCore(c).format) \subseteq Bytes
        BY <2>1, BufferSizes
    <2>3. QED
        BY <1>1, <2>2
<1>3. Allocate(t, h, ForCore(c), Asked(ForCore(c)), c)
    BY <1>1 DEF AllocateBuffer, ForCore
<1>4. QED
    BY <1>2, <1>3, ForCoreTyped, AllocateAdds

LEMMA CloneAdds ==
    ASSUME TypeOK, FdForMemory, NEW t \in Thread, NEW h \in Handle, NEW g \in Handle,
           CloneBuffer(t, h, g)
    PROVE  \E f \in Fd, size \in GetBufferSize(handle[g].width, handle[g].height,
                                               handle[g].format) :
              /\ Added(h, handle[g], f, handle[g].memory, size)
              /\ Held(g) /\ handle[g].fd # NoFd /\ handle[g].memory \in Memory
              /\ room' = room
<1>1. PICK f \in Fd, size \in GetBufferSize(handle[g].width, handle[g].height,
                                            handle[g].format) :
          /\ Duplicated(g, f)
          /\ fds' = [fds EXCEPT ![f] = handle[g].memory]
          /\ handle' = [handle EXCEPT ![h] = Filled(handle[g], f, handle[g].memory, size)]
    BY DEF CloneBuffer
<1>2. Held(g) /\ ~Held(h) /\ room' = room /\ mapped' = mapped
    BY DEF CloneBuffer
<1>3. handle[g].fd # NoFd /\ fds[f] = Nothing
    BY <1>1 DEF Duplicated
<1>4. handle[g].memory \in Memory
    BY <1>2, <1>3, HandleFields DEF FdForMemory
<1>5. /\ handle[g].width \in Dimension /\ handle[g].height \in Dimension
      /\ handle[g].format \in BufferFormat
    BY <1>2, HeldIsHandle
<1>6. size \in Bytes
    BY <1>5, DimensionsNatural, BufferSizes
<1>7. Filled(handle[g], f, handle[g].memory, size) \in BufferHandle
    BY <1>4, <1>5, <1>6, FilledTyped
<1>8. QED
    BY <1>1, <1>2, <1>3, <1>4, <1>7 DEF Added

LEMMA AddedOwned ==
    ASSUME TypeOK, Owned, NEW h \in Handle, NEW d, NEW f \in Fd, NEW m \in Memory,
           NEW size, Added(h, d, f, m, size)
    PROVE  Owned'
<1>1. Filled(d, f, m, size).fd = f /\ Filled(d, f, m, size).memory = m
    BY DEF Filled
<1>2. QED
    BY <1>1, OwnedAdd DEF Added

\* The steps that leave all descriptors and what the handles have alone.
LEMMA QuietSteps ==
    ASSUME TypeInv,
           \/ \E t \in Thread : LoadId(t) \/ StoreId(t) \/ CopyInfo(t)
           \/ \E h \in Handle : MapBuffer(h) \/ UnmapBuffer(h)
           \/ UNCHANGED vars
    PROVE  /\ fds' = fds /\ room' = room
           /\ \A g \in Handle :
                 /\ Held(g)' <=> Held(g)
                 /\ Held(g) => /\ handle'[g].fd = handle[g].fd
                               /\ handle'[g].memory = handle[g].memory
                               /\ handle'[g].width = handle[g].width
                               /\ handle'[g].height = handle[g].height
                               /\ handle'[g].format = handle[g].format
                               /\ handle'[g].size = handle[g].size
<1>1. ASSUME NEW t \in Thread, StoreId(t)
      PROVE  /\ fds' = fds /\ room' = room
             /\ \A g \in Handle :
                   /\ Held(g)' <=> Held(g)
                   /\ Held(g) => /\ handle'[g].fd = handle[g].fd
                                 /\ handle'[g].memory = handle[g].memory
                                 /\ handle'[g].width = handle[g].width
                                 /\ handle'[g].height = handle[g].height
                                 /\ handle'[g].format = handle[g].format
                                 /\ handle'[g].size = handle[g].size
    <2> DEFINE h == thread[t].handle
               n == thread[t].id
    <2>1. h \in Handle /\ Held(h) /\ n \in Id
        BY <1>1 DEF StoreId, TypeInv, TypeOK, ThreadsHold
    <2>2. handle' = [handle EXCEPT ![h] = [handle[h] EXCEPT !.id = n]]
        BY <1>1, <2>1 DEF StoreId, TypeInv, TypeOK
    <2>3. handle[h] \in BufferHandle
        BY <2>1, HeldIsHandle DEF TypeInv
    <2>4. [handle[h] EXCEPT !.id = n] \in BufferHandle
        BY <2>1, <2>3 DEF BufferHandle
    <2>5. [handle[h] EXCEPT !.id = n] # Nothing
        BY <2>4, BufferConstants
    <2>6. fds' = fds /\ room' = room
        BY <1>1 DEF StoreId, kernelVars
    <2> HIDE DEF h, n
    <2>7. QED
        BY <2>1, <2>2, <2>3, <2>5, <2>6 DEF TypeInv, TypeOK, Held, BufferHandle
<1>2. QED
    BY <1>1 DEF LoadId, CopyInfo, MapBuffer, UnmapBuffer, vars, kernelVars, Held

LEMMA StepOwned == TypeInv /\ Owned /\ [Next]_vars => Owned'
<1> SUFFICES ASSUME TypeInv, Owned, [Next]_vars
             PROVE  Owned'
    OBVIOUS
<1> USE DEF TypeInv
<1>1. ASSUME NEW t \in Thread, NEW h \in Handle, NEW d \in Request, AllocBuffer(t, h, d)
      PROVE  Owned'
    BY <1>1, AllocBufferAdds, AddedOwned
<1>2. ASSUME NEW t \in Thread, NEW h \in Handle, NEW c \in Config, AllocateBuffer(t, h, c)
      PROVE  Owned'
    BY <1>2, AllocateBufferAdds, AddedOwned
<1>3. ASSUME NEW t \in Thread, NEW h \in Handle, NEW g \in Handle, CloneBuffer(t, h, g)
      PROVE  Owned'
    BY <1>3, CloneAdds, AddedOwned DEF Owned
<1>4. ASSUME NEW t \in Thread, NEW h \in Handle, NEW g \in Handle, CloneWithoutFd(t, h, g)
      PROVE  Owned'
    <2>1. PICK size \in GetBufferSize(handle[g].width, handle[g].height, handle[g].format) :
              handle' = [handle EXCEPT ![h] = Filled(handle[g], NoFd, Nothing, size)]
        BY <1>4 DEF CloneWithoutFd
    <2>2. ~Held(h) /\ fds' = fds
        BY <1>4 DEF CloneWithoutFd, kernelVars
    <2>3. /\ Filled(handle[g], NoFd, Nothing, size).fd = NoFd
          /\ Filled(handle[g], NoFd, Nothing, size).memory = Nothing
        BY DEF Filled
    <2>4. \A k \in Handle : handle'[k] = IF k = h
                                         THEN Filled(handle[g], NoFd, Nothing, size)
                                         ELSE handle[k]
        BY <2>1 DEF TypeOK
    <2>5. QED
        BY <2>2, <2>3, <2>4, OwnedKept DEF Held
<1>5. ASSUME NEW h \in Handle, FreeBuffer(h)
      PROVE  Owned'
    BY <1>5, OwnedFree
<1>6. CASE \/ \E t \in Thread : LoadId(t) \/ StoreId(t) \/ CopyInfo(t)
           \/ \E h \in Handle : MapBuffer(h) \/ UnmapBuffer(h)
           \/ UNCHANGED vars
    BY <1>6, QuietSteps, OwnedKept
<1>7. QED
    BY <1>1, <1>2, <1>3, <1>4, <1>5, <1>6 DEF Next, ThreadStep

LEMMA InitOwned == Init => Owned
BY DEF Init, Owned, HandlesKeepMemory, NoDescriptorLeaked, FdForMemory, Held

THEOREM OwnershipKept == Spec => []Owned
BY InitOwned, StepOwned, TypeCorrect, PTL DEF Spec

\* Whatever is allocated, cloned and freed by however many threads, a handle
\* keeps its own descriptor of its own memory.
THEOREM HandlesAreSafe == Spec => []HandlesKeepMemory
<1>1. Owned => HandlesKeepMemory
    BY DEF Owned
<1>2. QED
    BY <1>1, OwnershipKept, PTL

\* And no descriptor is left open that no handle has.
THEOREM DescriptorsReturned == Spec => []NoDescriptorLeaked
<1>1. Owned => NoDescriptorLeaked
    BY DEF Owned
<1>2. QED
    BY <1>1, OwnershipKept, PTL

---------------------------------------------------------------------------
(* Pixels                                                                  *)

\* Where the aligned size fits 32 bits it lies between the pixels and the room
\* of the memory.  PixelsFit alone is not inductive: a clone of a handle whose
\* size is only large enough for the pixels could exceed the memory.
AlignedFits ==
    \A h \in Handle :
        LET b == handle[h]
        IN  Held(h) /\ b.fd # NoFd /\ Fits(b.width, b.height, b.format) =>
                /\ Aligned(b.width, b.height, b.format) <= b.size
                /\ b.size <= room[b.memory]

LEMMA AlignedFitsPixels == TypeOK /\ AlignedFits => PixelsFit
<1> SUFFICES ASSUME TypeOK, AlignedFits, NEW h \in Handle, Held(h), handle[h].fd # NoFd,
                    Fits(handle[h].width, handle[h].height, handle[h].format)
             PROVE  /\ handle[h].width * handle[h].height * GetBpp(handle[h].format)
                          <= handle[h].size
                    /\ handle[h].size <= room[handle[h].memory]
    BY DEF PixelsFit
<1> DEFINE w == handle[h].width
           v == handle[h].height
           f == handle[h].format
           s == handle[h].size
<1>1. w \in Nat /\ v \in Nat /\ s \in Nat
    <2>1. w \in Dimension /\ v \in Dimension /\ s \in Bytes
        BY HeldIsHandle
    <2>2. Bytes \subseteq Nat
        BY WordPositive, SMT DEF Bytes
    <2> HIDE DEF w, v, s
    <2>3. QED
        BY <2>1, <2>2, DimensionsNatural
<1>2. Aligned(w, v, f) <= s /\ s <= room[handle[h].memory]
    BY DEF AlignedFits
<1> HIDE DEF w, v, f, s
<1>3. Aligned(w, v, f) \in Nat /\ w * v * GetBpp(f) <= Aligned(w, v, f)
    BY <1>1, PixelsWithinAligned
<1>4. w * v * GetBpp(f) \in Nat
    <2>1. GetBpp(f) \in Nat
        BY BppValues, SMT
    <2>2. QED
        BY <1>1, <2>1, SMT
<1>5. w * v * GetBpp(f) <= s
    BY <1>1, <1>2, <1>3, <1>4, SMT
<1>6. QED
    BY <1>2, <1>5 DEF w, v, f, s

\* The size of an allocation, where it fits.
LEMMA AskedCovers ==
    ASSUME NEW d, d.width \in Dimension, d.height \in Dimension,
           d.size # 0 => Aligned(d.width, d.height, d.format) <= d.size,
           Fits(d.width, d.height, d.format), NEW size \in Asked(d)
    PROVE  Aligned(d.width, d.height, d.format) <= size
<1>1. d.width \in Nat /\ d.height \in Nat
    BY DimensionsNatural
<1>2. CASE d.size # 0
    BY <1>2 DEF Asked
<1>3. CASE d.size = 0
    <2>1. Asked(d) = {Aligned(d.width, d.height, d.format)}
        BY <1>1, <1>3, BufferSizes DEF Asked
    <2>2. Aligned(d.width, d.height, d.format) \in Nat
        BY <1>1, PixelsWithinAligned
    <2>3. QED
        BY <2>1, <2>2, SMT
<1>4. QED
    BY <1>2, <1>3

\* What holds of the other handles after one was added.
LEMMA AddedOthers ==
    ASSUME TypeOK, NEW h \in Handle, NEW d, NEW f \in Fd, NEW m \in Memory, NEW size,
           Added(h, d, f, m, size)
    PROVE  /\ handle'[h] = Filled(d, f, m, size)
           /\ \A g \in Handle : g # h => handle'[g] = handle[g] /\ (Held(g)' <=> Held(g))
BY DEF Added, TypeOK, Held

LEMMA AllocateFits ==
    ASSUME TypeInv, Owned, AlignedFits, NEW h \in Handle, NEW d,
           d.width \in Dimension, d.height \in Dimension,
           d.size # 0 => Aligned(d.width, d.height, d.format) <= d.size,
           NEW f \in Fd, NEW m \in Memory \ InUse, NEW size \in Asked(d) \ {0},
           size \in Bytes,
           Added(h, d, f, m, size), room' = [room EXCEPT ![m] = size]
    PROVE  AlignedFits'
<1>1. ASSUME NEW g \in Handle, Held(g)', handle'[g].fd # NoFd,
             Fits(handle'[g].width, handle'[g].height, handle'[g].format)
      PROVE  /\ Aligned(handle'[g].width, handle'[g].height, handle'[g].format)
                    <= handle'[g].size
             /\ handle'[g].size <= room'[handle'[g].memory]
    <2>1. CASE g = h
        <3>1. /\ handle'[g].width = d.width /\ handle'[g].height = d.height
              /\ handle'[g].format = d.format /\ handle'[g].size = size
              /\ handle'[g].memory = m
            <4>1. handle'[g] = Filled(d, f, m, size)
                BY <2>1, AddedOthers DEF TypeInv
            <4>2. QED
                BY <4>1 DEF Filled
        <3>2. room'[m] = size
            BY DEF TypeInv, TypeOK
        <3>3. size <= size
            BY WordPositive, SMT DEF Bytes
        <3>4. Aligned(d.width, d.height, d.format) <= size
            BY <1>1, <3>1, AskedCovers
        <3>5. QED
            BY <3>1, <3>2, <3>3, <3>4
    <2>2. CASE g # h
        <3>1. handle'[g] = handle[g] /\ Held(g)
            BY <1>1, <2>2, AddedOthers DEF TypeInv
        <3>2. handle[g].memory \in InUse
            <4>1. handle[g].fd \in Fd /\ handle[g].memory \in Memory
                BY <1>1, <3>1, HandleFields DEF TypeInv, Owned, FdForMemory
            <4>2. fds[handle[g].fd] = handle[g].memory
                BY <1>1, <3>1 DEF Owned, HandlesKeepMemory
            <4>3. QED
                BY <4>1, <4>2 DEF InUse
        <3>3. room'[handle[g].memory] = room[handle[g].memory]
            BY <3>2 DEF TypeInv, TypeOK, InUse
        <3>4. QED
            BY <1>1, <3>1, <3>3 DEF AlignedFits
    <2>3. QED
        BY <2>1, <2>2
<1>2. QED
    BY <1>1 DEF AlignedFits

\* A change that adds no handle with a descriptor and resizes none.
LEMMA FitsKept ==
    ASSUME AlignedFits, room' = room,
           \A g \in Handle : Held(g)' /\ handle'[g].fd # NoFd =>
               /\ Held(g) /\ handle[g].fd # NoFd
               /\ handle'[g].memory = handle[g].memory
               /\ handle'[g].width = handle[g].width
               /\ handle'[g].height = handle[g].height
               /\ handle'[g].format = handle[g].format
               /\ handle'[g].size = handle[g].size
    PROVE  AlignedFits'
BY DEF AlignedFits

LEMMA StepFits ==
    ASSUME RequestsCover, TypeInv, Owned, AlignedFits, [Next]_vars
    PROVE  AlignedFits'
<1>1. ASSUME NEW t \in Thread, NEW h \in Handle, NEW d \in Request, AllocBuffer(t, h, d)
      PROVE  AlignedFits'
    <2>1. PICK f \in Fd, m \in Memory \ InUse, size \in Asked(d) \ {0} :
              Added(h, d, f, m, size) /\ room' = [room EXCEPT ![m] = size]
        BY <1>1, AllocBufferAdds
    <2>2. Asked(d) \subseteq Bytes
        BY RequestTyped, DimensionsNatural, BufferSizes DEF Asked
    <2>3. d.size # 0 => Aligned(d.width, d.height, d.format) <= d.size
        BY DEF RequestsCover, Aligned
    <2>4. QED
        BY <2>1, <2>2, <2>3, RequestTyped, AllocateFits
<1>2. ASSUME NEW t \in Thread, NEW h \in Handle, NEW c \in Config, AllocateBuffer(t, h, c)
      PROVE  AlignedFits'
    <2> DEFINE d == ForCore(c)
    <2>1. PICK f \in Fd, m \in Memory \ InUse, size \in Asked(d) \ {0} :
              Added(h, d, f, m, size) /\ room' = [room EXCEPT ![m] = size]
        BY <1>2, AllocateBufferAdds
    <2>2. d.width \in Dimension /\ d.height \in Dimension /\ d.size = 0
        BY ForCoreTyped DEF ForCore
    <2> HIDE DEF d
    <2>3. Asked(d) \subseteq Bytes
        BY <2>2, DimensionsNatural, BufferSizes DEF Asked
    <2>4. QED
        BY <2>1, <2>2, <2>3, AllocateFits
<1>3. ASSUME NEW t \in Thread, NEW h \in Handle, NEW g \in Handle, CloneBuffer(t, h, g)
      PROVE  AlignedFits'
    <2>1. PICK f \in Fd, size \in GetBufferSize(handle[g].width, handle[g].height,
                                                handle[g].format) :
              /\ Added(h, handle[g], f, handle[g].memory, size)
              /\ Held(g) /\ handle[g].fd # NoFd /\ handle[g].memory \in Memory
              /\ room' = room
        BY <1>3, CloneAdds DEF TypeInv, Owned
    <2>2. ASSUME NEW k \in Handle, Held(k)', handle'[k].fd # NoFd,
                 Fits(handle'[k].width, handle'[k].height, handle'[k].format)
          PROVE  /\ Aligned(handle'[k].width, handle'[k].height, handle'[k].format)
                        <= handle'[k].size
                 /\ handle'[k].size <= room'[handle'[k].memory]
        <3>1. CASE k # h
            <4>1. handle'[k] = handle[k] /\ Held(k)
                BY <2>1, <2>2, <3>1, AddedOthers DEF TypeInv
            <4>2. QED
                BY <2>1, <2>2, <4>1 DEF AlignedFits
        <3>2. CASE k = h
            <4> DEFINE a == Aligned(handle[g].width, handle[g].height, handle[g].format)
            <4>1. /\ handle'[k].width = handle[g].width
                  /\ handle'[k].height = handle[g].height
                  /\ handle'[k].format = handle[g].format
                  /\ handle'[k].size = size /\ handle'[k].memory = handle[g].memory
                <5>1. handle'[k] = Filled(handle[g], f, handle[g].memory, size)
                    BY <2>1, <3>2, AddedOthers DEF TypeInv
                <5>2. QED
                    BY <5>1 DEF Filled
            <4>2. /\ handle[g].width \in Nat /\ handle[g].height \in Nat
                  /\ handle[g].size \in Bytes
                BY <2>1, HeldIsHandle, DimensionsNatural DEF TypeInv
            <4>3. size = a /\ a \in Nat
                BY <2>1, <2>2, <4>1, <4>2, BufferSizes, PixelsWithinAligned
            <4>4. a <= handle[g].size /\ handle[g].size <= room[handle[g].memory]
                BY <2>1, <2>2, <4>1 DEF AlignedFits
            <4>5. room[handle[g].memory] \in Bytes
                BY <2>1 DEF TypeInv, TypeOK
            <4> HIDE DEF a
            <4>6. a <= a /\ a <= room[handle[g].memory]
                BY <4>2, <4>3, <4>4, <4>5, WordPositive, SMT DEF Bytes
            <4>7. QED
                BY <2>1, <4>1, <4>3, <4>6 DEF a
        <3>3. QED
            BY <3>1, <3>2
    <2>3. QED
        BY <2>2 DEF AlignedFits
<1>4. ASSUME NEW t \in Thread, NEW h \in Handle, NEW g \in Handle, CloneWithoutFd(t, h, g)
      PROVE  AlignedFits'
    <2>1. PICK size : handle' = [handle EXCEPT ![h] = Filled(handle[g], NoFd, Nothing, size)]
        BY <1>4 DEF CloneWithoutFd
    <2>2. Filled(handle[g], NoFd, Nothing, size).fd = NoFd
        BY DEF Filled
    <2>3. \A k \in Handle : handle'[k] = IF k = h
                                         THEN Filled(handle[g], NoFd, Nothing, size)
                                         ELSE handle[k]
        BY <2>1 DEF TypeInv, TypeOK
    <2>4. room' = room
        BY <1>4 DEF CloneWithoutFd, kernelVars
    <2>5. QED
        BY <2>2, <2>3, <2>4, FitsKept DEF Held
<1>5. ASSUME NEW h \in Handle, FreeBuffer(h)
      PROVE  AlignedFits'
    <2>1. \A g \in Handle : Held(g)' => Held(g) /\ handle'[g] = handle[g]
        BY <1>5 DEF FreeBuffer, TypeInv, TypeOK, Held
    <2>2. room' = room
        BY <1>5 DEF FreeBuffer
    <2>3. QED
        BY <2>1, <2>2, FitsKept
<1>6. CASE \/ \E t \in Thread : LoadId(t) \/ StoreId(t) \/ CopyInfo(t)
           \/ \E h \in Handle : MapBuffer(h) \/ UnmapBuffer(h)
           \/ UNCHANGED vars
    BY <1>6, QuietSteps, FitsKept
<1>7. QED
    BY <1>1, <1>2, <1>3, <1>4, <1>5, <1>6 DEF Next, ThreadStep

\* Every handle holds the pixels of its picture and lies within its memory,
\* clones included, for any word, pictures and requests, as long as the size
\* fits the word and clients do not ask for less than they need.
THEOREM PicturesFit ==
    ASSUME RequestsCover
    PROVE  Spec => []PixelsFit
<1>1. Init => AlignedFits
    BY DEF Init, AlignedFits, Held
<1>2. TypeInv /\ Owned /\ AlignedFits /\ [Next]_vars => AlignedFits'
    BY StepFits
<1>3. TypeInv /\ AlignedFits => PixelsFit
    BY AlignedFitsPixels DEF TypeInv
<1>4. QED
    BY <1>1, <1>2, <1>3, TypeCorrect, OwnershipKept, PTL DEF Spec

---------------------------------------------------------------------------
(* The buffers implement SharedResources                                   *)

\* Memory is in use exactly if it has users.
UsersInUse == \A m \in Memory : m \in InUse <=> BufferUsers(m) # {}

LEMMA UsedByUsers == TypeOK /\ Owned => UsersInUse
<1> SUFFICES ASSUME TypeOK, Owned, NEW m \in Memory
             PROVE  m \in InUse <=> BufferUsers(m) # {}
    BY DEF UsersInUse
<1>1. ASSUME NEW f \in Fd, fds[f] = m
      PROVE  \E h \in Handle : Held(h) /\ handle[h].memory = m
    <2>1. PICK h \in Handle : Held(h) /\ handle[h].fd = f
        BY <1>1, BufferConstants DEF Owned, NoDescriptorLeaked
    <2>2. QED
        BY <1>1, <2>1, BufferConstants DEF Owned, HandlesKeepMemory
<1>2. ASSUME NEW h \in Handle, Held(h), handle[h].memory = m
      PROVE  \E f \in Fd : fds[f] = m
    <2>1. handle[h].fd \in Fd
        BY <1>2, HandleFields, BufferConstants DEF Owned, FdForMemory
    <2>2. QED
        BY <1>2, <2>1, BufferConstants DEF Owned, HandlesKeepMemory
<1>3. BufferUsers(m) # {} <=> \/ \E h \in Handle : Held(h) /\ handle[h].memory = m
                              \/ \E h \in Handle : mapped[h] = m
    BY DEF BufferUsers
<1>4. QED
    BY <1>1, <1>2, <1>3 DEF InUse

\* So the abstract step follows from what happens to the users.
User == {"handle", "mapping"} \X Handle

LEMMA AcquireStep ==
    ASSUME TypeOK, Owned, UsersInUse, UsersInUse', NEW u \in User, NEW m \in Memory,
           u \notin BufferUsers(m), BufferUsers(m)' = BufferUsers(m) \cup {u},
           \A n \in Memory \ {m} : BufferUsers(n)' = BufferUsers(n)
    PROVE  Shared!Next
<1>1. \A n \in Memory : n \in InUse' <=> BufferUsers(n)' # {}
    BY DEF UsersInUse
<1>2. InUse' = InUse \cup {m}
    BY <1>1 DEF InUse, UsersInUse
<1>3. [n \in Memory |-> BufferUsers(n)]'
        = [[n \in Memory |-> BufferUsers(n)] EXCEPT ![m] = @ \cup {u}]
    OBVIOUS
<1>4. Shared!Acquire(u, m)
    BY <1>2, <1>3 DEF Shared!Acquire
<1>5. QED
    BY <1>4 DEF Shared!Next, User

LEMMA ReleaseStep ==
    ASSUME TypeOK, Owned, UsersInUse, UsersInUse', NEW u \in User, NEW m \in Memory,
           u \in BufferUsers(m), BufferUsers(m)' = BufferUsers(m) \ {u},
           \A n \in Memory \ {m} : BufferUsers(n)' = BufferUsers(n)
    PROVE  Shared!Next
<1>1. \A n \in Memory : n \in InUse' <=> BufferUsers(n)' # {}
    BY DEF UsersInUse
<1>2. InUse' = IF BufferUsers(m) = {u} THEN InUse \ {m} ELSE InUse
    BY <1>1 DEF InUse, UsersInUse
<1>3. [n \in Memory |-> BufferUsers(n)]'
        = [[n \in Memory |-> BufferUsers(n)] EXCEPT ![m] = @ \ {u}]
    OBVIOUS
<1>4. Shared!Release(u, m)
    BY <1>2, <1>3 DEF Shared!Release
<1>5. QED
    BY <1>4 DEF Shared!Next, User

LEMMA StutterStep ==
    ASSUME TypeOK, Owned, UsersInUse, UsersInUse',
           \A n \in Memory : BufferUsers(n)' = BufferUsers(n)
    PROVE  UNCHANGED Shared!resourceVars
<1>1. \A n \in Memory : n \in InUse' <=> BufferUsers(n)' # {}
    BY DEF UsersInUse
<1>2. InUse' = InUse
    BY <1>1 DEF InUse, UsersInUse
<1>3. QED
    BY <1>2 DEF Shared!resourceVars

HandleUsers(m) == {h \in Handle : Held(h) /\ handle[h].memory = m}
MappingUsers(m) == {h \in Handle : mapped[h] = m}

LEMMA UserKinds ==
    ASSUME NEW m, NEW u
    PROVE  u \in BufferUsers(m) <=>
               \/ \E h \in HandleUsers(m) : u = <<"handle", h>>
               \/ \E h \in MappingUsers(m) : u = <<"mapping", h>>
BY DEF BufferUsers, HandleUsers, MappingUsers

\* A handle added or freed, and a mapping made or undone, one at a time.
LEMMA AddedShared ==
    ASSUME TypeOK, Owned, UsersInUse, UsersInUse', NEW h \in Handle, NEW d, NEW f \in Fd,
           NEW m \in Memory, NEW size, Added(h, d, f, m, size)
    PROVE  Shared!Next
<1>1. handle'[h].memory = m
    <2>1. handle'[h] = Filled(d, f, m, size)
        BY AddedOthers
    <2>2. QED
        BY <2>1 DEF Filled
<1>2. ~Held(h) /\ Held(h)' /\ mapped' = mapped
    <2>1. handle'[h] = Filled(d, f, m, size)
        BY AddedOthers
    <2>2. QED
        BY <2>1, BufferConstants DEF Added, Held
<1>3. \A g \in Handle : g # h => handle'[g] = handle[g] /\ (Held(g)' <=> Held(g))
    BY AddedOthers
<1>4. <<"handle", h>> \in User
    BY DEF User
<1>5. <<"handle", h>> \notin BufferUsers(m)
    BY <1>2, UserKinds DEF HandleUsers
<1>6. HandleUsers(m)' = HandleUsers(m) \cup {h}
    BY <1>1, <1>2, <1>3 DEF HandleUsers
<1>7. BufferUsers(m)' = BufferUsers(m) \cup {<<"handle", h>>}
    BY <1>6, <1>2 DEF BufferUsers, HandleUsers
<1>8. ASSUME NEW n \in Memory \ {m}
      PROVE  BufferUsers(n)' = BufferUsers(n)
    <2>1. HandleUsers(n)' = HandleUsers(n)
        BY <1>1, <1>2, <1>3 DEF HandleUsers
    <2>2. QED
        BY <2>1, <1>2 DEF BufferUsers, HandleUsers
<1>9. QED
    BY <1>4, <1>5, <1>7, <1>8, AcquireStep

LEMMA FreedShared ==
    ASSUME TypeOK, Owned, UsersInUse, UsersInUse', NEW h \in Handle, FreeBuffer(h)
    PROVE  [Shared!Next]_(Shared!resourceVars)
<1>0. PICK m : m = handle[h].memory
    OBVIOUS
<1>1. Held(h) /\ ~Held(h)' /\ mapped' = mapped
    BY DEF FreeBuffer, TypeOK, Held
<1>2. \A g \in Handle : g # h => handle'[g] = handle[g] /\ (Held(g)' <=> Held(g))
    BY DEF FreeBuffer, TypeOK, Held
<1>3. m \in Memory \cup {Nothing}
    BY <1>1, <1>0, HandleFields
<1>4. \A n \in Memory : HandleUsers(n)' = HandleUsers(n) \ (IF n = m THEN {h} ELSE {})
    BY <1>1, <1>2, <1>0 DEF HandleUsers
<1>5. ASSUME NEW n \in Memory, n # m
      PROVE  BufferUsers(n)' = BufferUsers(n)
    <2>1. HandleUsers(n)' = HandleUsers(n)
        BY <1>4, <1>5
    <2>2. QED
        BY <2>1, <1>1 DEF BufferUsers, HandleUsers
<1>6. CASE m \in Memory
    <2>1. <<"handle", h>> \in BufferUsers(m) /\ <<"handle", h>> \in User
        BY <1>1, <1>6, <1>0, UserKinds DEF HandleUsers, User
    <2>2. HandleUsers(m)' = HandleUsers(m) \ {h}
        BY <1>1, <1>2, <1>0 DEF HandleUsers
    <2>3. BufferUsers(m)' = BufferUsers(m) \ {<<"handle", h>>}
        BY <2>2, <1>1 DEF BufferUsers, HandleUsers
    <2>4. QED
        BY <1>5, <1>6, <2>1, <2>3, ReleaseStep
<1>7. CASE m = Nothing
    <2>1. \A n \in Memory : n # m
        BY <1>7, BufferConstants
    <2>2. QED
        BY <1>5, <2>1, StutterStep
<1>8. QED
    BY <1>3, <1>6, <1>7

LEMMA MappedShared ==
    ASSUME TypeOK, Owned, UsersInUse, UsersInUse', NEW h \in Handle, MapBuffer(h)
    PROVE  Shared!Next
<1>0. PICK m : m = handle[h].memory
    OBVIOUS
<1>1. Held(h) /\ handle[h].fd # NoFd /\ mapped[h] = Nothing
      /\ handle' = handle /\ mapped' = [mapped EXCEPT ![h] = fds[handle[h].fd]]
    BY DEF MapBuffer
<1>2. m \in Memory /\ fds[handle[h].fd] = m
    BY <1>1, <1>0, HandleFields DEF Owned, FdForMemory, HandlesKeepMemory
<1>3. \A g \in Handle : mapped'[g] = IF g = h THEN m ELSE mapped[g]
    BY <1>1, <1>2 DEF TypeOK
<1>4. \A n : HandleUsers(n)' = HandleUsers(n)
    BY <1>1 DEF HandleUsers, Held
<1>5. MappingUsers(m)' = MappingUsers(m) \cup {h} /\ h \notin MappingUsers(m)
    BY <1>1, <1>2, <1>3, BufferConstants DEF MappingUsers
<1>6. \A n \in Memory \ {m} : MappingUsers(n)' = MappingUsers(n)
    BY <1>1, <1>3, BufferConstants DEF MappingUsers
<1>7. BufferUsers(m)' = BufferUsers(m) \cup {<<"mapping", h>>}
    BY <1>4, <1>5 DEF BufferUsers, HandleUsers, MappingUsers
<1>8. \A n \in Memory \ {m} : BufferUsers(n)' = BufferUsers(n)
    BY <1>4, <1>6 DEF BufferUsers, HandleUsers, MappingUsers
<1>9. <<"mapping", h>> \notin BufferUsers(m) /\ <<"mapping", h>> \in User
    BY <1>5, UserKinds DEF User
<1>10. QED
    BY <1>2, <1>7, <1>8, <1>9, AcquireStep

LEMMA UnmappedShared ==
    ASSUME TypeOK, Owned, UsersInUse, UsersInUse', NEW h \in Handle, UnmapBuffer(h)
    PROVE  Shared!Next
<1>0. PICK m : m = mapped[h]
    OBVIOUS
<1>1. m \in Memory
    BY <1>0 DEF UnmapBuffer, TypeOK
<1>2. handle' = handle
    BY DEF UnmapBuffer
<1>3. \A g \in Handle : mapped'[g] = IF g = h THEN Nothing ELSE mapped[g]
    BY DEF UnmapBuffer, TypeOK
<1>4. \A n : HandleUsers(n)' = HandleUsers(n)
    BY <1>2 DEF HandleUsers, Held
<1>5. MappingUsers(m)' = MappingUsers(m) \ {h} /\ h \in MappingUsers(m)
    BY <1>1, <1>3, <1>0, BufferConstants DEF MappingUsers
<1>6. \A n \in Memory \ {m} : MappingUsers(n)' = MappingUsers(n)
    BY <1>1, <1>3, <1>0, BufferConstants DEF MappingUsers
<1>7. BufferUsers(m)' = BufferUsers(m) \ {<<"mapping", h>>}
    BY <1>4, <1>5 DEF BufferUsers, HandleUsers, MappingUsers
<1>8. \A n \in Memory \ {m} : BufferUsers(n)' = BufferUsers(n)
    BY <1>4, <1>6 DEF BufferUsers, HandleUsers, MappingUsers
<1>9. <<"mapping", h>> \in BufferUsers(m) /\ <<"mapping", h>> \in User
    BY <1>5, UserKinds DEF User
<1>10. QED
    BY <1>1, <1>7, <1>8, <1>9, ReleaseStep

LEMMA StepShared ==
    ASSUME TypeInv, Owned, UsersInUse, UsersInUse', [Next]_vars
    PROVE  [Shared!Next]_(Shared!resourceVars)
<1> USE DEF TypeInv
<1>1. ASSUME NEW t \in Thread, NEW h \in Handle, NEW d \in Request, AllocBuffer(t, h, d)
      PROVE  Shared!Next
    BY <1>1, AllocBufferAdds, AddedShared
<1>2. ASSUME NEW t \in Thread, NEW h \in Handle, NEW c \in Config, AllocateBuffer(t, h, c)
      PROVE  Shared!Next
    BY <1>2, AllocateBufferAdds, AddedShared
<1>3. ASSUME NEW t \in Thread, NEW h \in Handle, NEW g \in Handle, CloneBuffer(t, h, g)
      PROVE  Shared!Next
    BY <1>3, CloneAdds, AddedShared DEF Owned
<1>4. ASSUME NEW t \in Thread, NEW h \in Handle, NEW g \in Handle, CloneWithoutFd(t, h, g)
      PROVE  UNCHANGED Shared!resourceVars
    <2>1. PICK size : handle' = [handle EXCEPT ![h] = Filled(handle[g], NoFd, Nothing, size)]
        BY <1>4 DEF CloneWithoutFd
    <2>2. Filled(handle[g], NoFd, Nothing, size).memory = Nothing
        BY DEF Filled
    <2>3. \A k \in Handle : handle'[k] = IF k = h
                                         THEN Filled(handle[g], NoFd, Nothing, size)
                                         ELSE handle[k]
        BY <2>1 DEF TypeOK
    <2>4. ~Held(h) /\ mapped' = mapped
        BY <1>4 DEF CloneWithoutFd, kernelVars
    <2>5. \A n \in Memory : HandleUsers(n)' = HandleUsers(n)
        BY <2>2, <2>3, <2>4, BufferConstants DEF HandleUsers, Held
    <2>6. \A n \in Memory : BufferUsers(n)' = BufferUsers(n)
        BY <2>4, <2>5 DEF BufferUsers, HandleUsers
    <2>7. QED
        BY <2>6, StutterStep
<1>5. ASSUME NEW t \in Thread, LoadId(t) \/ StoreId(t) \/ CopyInfo(t)
      PROVE  UNCHANGED Shared!resourceVars
    <2>1. \A g \in Handle : /\ Held(g)' <=> Held(g)
                            /\ Held(g) => handle'[g].memory = handle[g].memory
        BY <1>5, QuietSteps
    <2>2. mapped' = mapped
        BY <1>5 DEF LoadId, StoreId, CopyInfo, kernelVars
    <2>3. \A n \in Memory : HandleUsers(n)' = HandleUsers(n)
        BY <2>1 DEF HandleUsers
    <2>4. \A n \in Memory : BufferUsers(n)' = BufferUsers(n)
        BY <2>2, <2>3 DEF BufferUsers, HandleUsers
    <2>5. QED
        BY <2>4, StutterStep
<1>6. ASSUME NEW h \in Handle, FreeBuffer(h)
      PROVE  [Shared!Next]_(Shared!resourceVars)
    BY <1>6, FreedShared
<1>7. ASSUME NEW h \in Handle, MapBuffer(h)
      PROVE  Shared!Next
    BY <1>7, MappedShared
<1>8. ASSUME NEW h \in Handle, UnmapBuffer(h)
      PROVE  Shared!Next
    BY <1>8, UnmappedShared
<1>9. CASE UNCHANGED vars
    BY <1>9 DEF vars, kernelVars, Shared!resourceVars, InUse, BufferUsers, Held
<1>10. QED
    BY <1>1, <1>2, <1>3, <1>4, <1>5, <1>6, <1>7, <1>8, <1>9 DEF Next, ThreadStep

LEMMA InitShared == Init => Shared!Init
<1> SUFFICES ASSUME Init PROVE Shared!Init
    OBVIOUS
<1>1. InUse = {}
    BY BufferConstants DEF Init, InUse
<1>2. \A m \in Memory : BufferUsers(m) = {}
    BY BufferConstants DEF Init, BufferUsers, Held
<1>3. QED
    BY <1>1, <1>2 DEF Shared!Init

\* The buffers implement SharedResources: memory comes with the first handle,
\* stays while a handle, a clone or a mapping has it, and goes with the last.
THEOREM MemoryIsShared == Spec => MemoryShared
<1>1. Spec => [][Shared!Next]_(Shared!resourceVars)
    <2>1. TypeInv /\ Owned /\ UsersInUse /\ UsersInUse' /\ [Next]_vars
             => [Shared!Next]_(Shared!resourceVars)
        BY StepShared
    <2>2. TypeInv /\ Owned => UsersInUse
        BY UsedByUsers DEF TypeInv
    <2>3. QED
        BY <2>1, <2>2, TypeCorrect, OwnershipKept, PTL DEF Spec
<1>2. QED
    BY <1>1, InitShared, PTL DEF Spec, MemoryShared, Shared!Spec

---------------------------------------------------------------------------
(* What the core is told of a buffer                                       *)

\* A handle with the stride, size and format the core was told of.
AsTold(c, b) ==
    /\ b.stride = GetAllocatedBufferInfo(c).stride
    /\ b.size \in GetAllocatedBufferInfo(c).sizes
    /\ GetSDMFormat(b.format) = c.format

\* Two threads never work on one handle.
OneAtWork ==
    \A t, u \in Thread :
        /\ thread[t].pc # "idle" /\ thread[u].pc # "idle"
        /\ thread[t].handle = thread[u].handle
        => t = u

\* From the allocation to the copy the handle is as the core was told, and
\* there is no copy of it yet; only the core's calls come to the copy.
WorkAsTold ==
    \A t \in Thread :
        thread[t].pc # "idle" =>
            /\ info[thread[t].handle] = Nothing
            /\ thread[t].pc = "copy" => thread[t].config # Nothing
            /\ thread[t].config # Nothing
                   => AsTold(thread[t].config, handle[thread[t].handle])

\* A copy is of a handle that is held, and agrees with it in every field.
CopyAgrees ==
    \A h \in Handle :
        info[h] # Nothing =>
            /\ Held(h) /\ AsTold(info[h].config, handle[h])
            /\ info[h].stride = handle[h].stride
            /\ info[h].size = handle[h].size
            /\ info[h].id = handle[h].id

CoreInv == OneAtWork /\ WorkAsTold /\ CopyAgrees

\* A format that the tables do not list has no bytes, so its size is 0.
LEMMA UnlistedIsEmpty ==
    ASSUME NEW w \in Nat, NEW h \in Nat
    PROVE  GetBufferSize(w, h, Invalid) = {0}
<1>1. GetBpp(Invalid) = 0
    BY DEF GetBpp, Invalid, FourBytes, ThreeBytes, TwoBytes
<1>2. Align(w) * Align(h) \in Nat
    BY AlignUp
<1>3. \A n \in Nat : (n % Word) * 0 = 0
    BY WordPositive
<1>4. Product(w, h, Invalid) = 0
    BY <1>1, <1>2, <1>3 DEF Product
<1> QED
    BY <1>4, WordPositive DEF GetBufferSize, ToUnsigned

\* Both libraries compute the same size and stride, and a buffer that is not
\* empty has a format that the tables convert back.
LEMMA FilledAsTold ==
    ASSUME NEW c \in Config, NEW f, NEW m, NEW size \in Asked(ForCore(c)) \ {0}
    PROVE  AsTold(c, Filled(ForCore(c), f, m, size))
<1> DEFINE format == GetSDMCompFormat(c.format)
<1>1. size \in GetBufferSize(c.width, c.height, format) /\ size # 0
    BY DEF Asked, ForCore
<1>2. c.width \in Nat /\ c.height \in Nat
    BY ConfigTyped, DimensionsNatural
<1>3. format # Invalid
    BY <1>1, <1>2, UnlistedIsEmpty
<1>4. c.format \in Tabled /\ GetSDMFormat(format) = c.format
    BY <1>3 DEF GetSDMCompFormat, GetSDMFormat
<1>5. /\ GetAllocatedBufferInfo(c).stride = Stride(c.width, format)
      /\ GetAllocatedBufferInfo(c).sizes = GetBufferSize(c.width, c.height, format)
    BY DEF GetAllocatedBufferInfo, GetBufferSize, Product
<1>6. /\ Filled(ForCore(c), f, m, size).stride = Stride(c.width, format)
      /\ Filled(ForCore(c), f, m, size).size = size
      /\ Filled(ForCore(c), f, m, size).format = format
    BY DEF Filled, ForCore
<1> QED
    BY <1>1, <1>4, <1>5, <1>6 DEF AsTold

\* A thread begins to fill a handle that nobody had.
LEMMA BeginsAsTold ==
    ASSUME TypeInv, CoreInv, NEW t \in Thread, NEW h \in Handle, NEW b, NEW c,
           ~Held(h), thread[t].pc = "idle", c # Nothing => AsTold(c, b),
           handle' = [handle EXCEPT ![h] = b], GoToId(t, h, c), info' = info
    PROVE  CoreInv'
<1>1. thread'[t] = [pc |-> "load", handle |-> h, config |-> c, id |-> -1]
    BY DEF GoToId, TypeInv, TypeOK
<1>2. \A u \in Thread \ {t} : thread'[u] = thread[u]
    BY DEF GoToId, TypeInv, TypeOK
<1>3. \A u \in Thread : thread[u].pc # "idle" => thread[u].handle \in Handle \ {h}
    BY DEF TypeInv, ThreadsHold
<1>4. handle'[h] = b /\ \A g \in Handle \ {h} : handle'[g] = handle[g]
    BY DEF TypeInv, TypeOK
<1>5. info[h] = Nothing
    BY DEF CoreInv, CopyAgrees
<1>6. OneAtWork'
    BY <1>1, <1>2, <1>3 DEF CoreInv, OneAtWork
<1>7. WorkAsTold'
    <2>1. ASSUME NEW u \in Thread, u # t, thread'[u].pc # "idle"
          PROVE  /\ info'[thread'[u].handle] = Nothing
                 /\ thread'[u].pc = "copy" => thread'[u].config # Nothing
                 /\ thread'[u].config # Nothing
                        => AsTold(thread'[u].config, handle'[thread'[u].handle])
        BY <1>2, <1>3, <1>4, <2>1 DEF CoreInv, WorkAsTold
    <2>2. /\ info'[thread'[t].handle] = Nothing /\ thread'[t].pc # "copy"
          /\ thread'[t].config # Nothing
                 => AsTold(thread'[t].config, handle'[thread'[t].handle])
        BY <1>1, <1>4, <1>5
    <2> QED
        BY <2>1, <2>2 DEF WorkAsTold, AsTold
<1>8. CopyAgrees'
    BY <1>4, <1>5 DEF CoreInv, CopyAgrees, Held, AsTold
<1> QED
    BY <1>6, <1>7, <1>8 DEF CoreInv

\* The step that both kinds of Alloc take.
LEMMA AllocateAsTold ==
    ASSUME TypeInv, CoreInv, NEW t \in Thread, NEW h \in Handle, NEW d, NEW sizes,
           NEW c, Allocate(t, h, d, sizes, c),
           c # Nothing => \A f \in Fd, m \in Memory, size \in sizes \ {0} :
                              AsTold(c, Filled(d, f, m, size))
    PROVE  CoreInv'
<1>1. PICK f \in Fd, m \in Memory, size \in sizes \ {0} :
          handle' = [handle EXCEPT ![h] = Filled(d, f, m, size)]
    BY DEF Allocate
<1>2. c # Nothing => AsTold(c, Filled(d, f, m, size))
    OBVIOUS
<1>3. /\ thread[t].pc = "idle" /\ ~Held(h) /\ GoToId(t, h, c) /\ info' = info
    BY DEF Allocate
<1> QED
    BY <1>1, <1>2, <1>3, BeginsAsTold

\* The id is stored before there is a copy of the handle.
LEMMA StoreAsTold ==
    ASSUME TypeInv, CoreInv, NEW t \in Thread, StoreId(t)
    PROVE  CoreInv'
<1> DEFINE h == thread[t].handle
           n == thread[t].id
<1>1. h \in Handle /\ Held(h) /\ thread[t].pc = "store" /\ info' = info
    BY DEF StoreId, TypeInv, ThreadsHold
<1>2. handle' = [handle EXCEPT ![h] = [handle[h] EXCEPT !.id = n]]
    BY <1>1 DEF StoreId, TypeInv, TypeOK
<1>3. handle[h] \in BufferHandle
    BY <1>1, HeldIsHandle DEF TypeInv
<1>4. /\ handle'[h].stride = handle[h].stride
      /\ handle'[h].size = handle[h].size
      /\ handle'[h].format = handle[h].format
    BY <1>1, <1>2, <1>3 DEF TypeInv, TypeOK, BufferHandle
<1>5. \A g \in Handle \ {h} : handle'[g] = handle[g]
    BY <1>2 DEF TypeInv, TypeOK
<1>6. thread[t] \in ThreadStates
    BY DEF TypeInv, TypeOK, ThreadStates
<1>7. /\ \A u \in Thread \ {t} : thread'[u] = thread[u]
      /\ thread'[t].pc # "idle" => /\ thread'[t].handle = h
                                   /\ thread'[t].config = thread[t].config
                                   /\ thread[t].config # Nothing
    BY <1>1, <1>6 DEF StoreId, TypeInv, TypeOK, ThreadStates, IdleThread
<1>8. info[h] = Nothing
    BY <1>1 DEF CoreInv, WorkAsTold
<1> HIDE DEF h, n
<1>9. OneAtWork'
    BY <1>1, <1>7 DEF CoreInv, OneAtWork, h
<1>10. WorkAsTold'
    <2>1. ASSUME NEW u \in Thread, thread'[u].pc # "idle"
          PROVE  /\ thread[u].pc # "idle"
                 /\ thread'[u].handle = thread[u].handle
                 /\ thread'[u].config = thread[u].config
                 /\ thread'[u].pc = "copy"
                        => thread[u].pc = "copy" \/ thread[u].config # Nothing
        BY <1>1, <1>7, <2>1 DEF h
    <2>2. ASSUME NEW u \in Thread, thread[u].pc # "idle"
          PROVE  /\ handle'[thread[u].handle].stride = handle[thread[u].handle].stride
                 /\ handle'[thread[u].handle].size = handle[thread[u].handle].size
                 /\ handle'[thread[u].handle].format = handle[thread[u].handle].format
        BY <1>4, <1>5, <2>2 DEF TypeInv, ThreadsHold
    <2> QED
        BY <1>1, <2>1, <2>2 DEF CoreInv, WorkAsTold, AsTold
<1>11. CopyAgrees'
    BY <1>1, <1>5, <1>8 DEF CoreInv, CopyAgrees, Held, AsTold
<1> QED
    BY <1>9, <1>10, <1>11 DEF CoreInv

\* The copy is made of the handle as it is, by the thread that filled it.
LEMMA CopyAsTold ==
    ASSUME TypeInv, CoreInv, NEW t \in Thread, CopyInfo(t)
    PROVE  CoreInv'
<1> DEFINE h == thread[t].handle
<1>1. /\ h \in Handle /\ Held(h) /\ thread[t].pc = "copy"
      /\ thread[t].config \in Config /\ handle' = handle
    BY DEF CopyInfo, TypeInv, ThreadsHold, CopyingConfig
<1>2. thread[t].config # Nothing => AsTold(thread[t].config, handle[h])
    BY <1>1 DEF CoreInv, WorkAsTold
<1>3. /\ info'[h] = [config |-> thread[t].config, stride |-> handle[h].stride,
                     size |-> handle[h].size, id |-> handle[h].id]
      /\ \A g \in Handle \ {h} : info'[g] = info[g]
    BY <1>1 DEF CopyInfo, TypeInv, TypeOK
<1>4. thread'[t].pc = "idle" /\ \A u \in Thread \ {t} : thread'[u] = thread[u]
    BY DEF CopyInfo, TypeInv, TypeOK, IdleThread
<1>5. \A u \in Thread \ {t} :
          thread[u].pc # "idle" => thread[u].handle \in Handle \ {h}
    BY <1>1 DEF CoreInv, OneAtWork, TypeInv, ThreadsHold
<1> HIDE DEF h
<1>6. OneAtWork'
    BY <1>4 DEF CoreInv, OneAtWork
<1>7. WorkAsTold'
    BY <1>1, <1>3, <1>4, <1>5 DEF CoreInv, WorkAsTold, AsTold
<1>8. thread[t].config # Nothing
    BY <1>1 DEF CoreInv, WorkAsTold
<1>9. CopyAgrees'
    BY <1>1, <1>2, <1>3, <1>8 DEF CoreInv, CopyAgrees, Held, AsTold
<1> QED
    BY <1>6, <1>7, <1>9 DEF CoreInv

LEMMA StepCoreInv == TypeInv /\ CoreInv /\ [Next]_vars => CoreInv'
<1> SUFFICES ASSUME TypeInv, CoreInv, [Next]_vars
             PROVE  CoreInv'
    OBVIOUS
<1>1. ASSUME NEW t \in Thread, NEW h \in Handle, NEW d \in Request, AllocBuffer(t, h, d)
      PROVE  CoreInv'
    BY <1>1, AllocateAsTold DEF AllocBuffer
<1>2. ASSUME NEW t \in Thread, NEW h \in Handle, NEW c \in Config, AllocateBuffer(t, h, c)
      PROVE  CoreInv'
    <2>1. Allocate(t, h, ForCore(c), Asked(ForCore(c)), c)
        BY <1>2 DEF AllocateBuffer, ForCore, Asked
    <2> QED
        BY <2>1, AllocateAsTold, FilledAsTold
<1>3. ASSUME NEW t \in Thread, NEW h \in Handle, NEW g \in Handle,
             CloneBuffer(t, h, g) \/ CloneWithoutFd(t, h, g)
      PROVE  CoreInv'
    <2>1. \E b : handle' = [handle EXCEPT ![h] = b]
        BY <1>3 DEF CloneBuffer, CloneWithoutFd
    <2>2. thread[t].pc = "idle" /\ ~Held(h) /\ GoToId(t, h, Nothing) /\ info' = info
        BY <1>3 DEF CloneBuffer, CloneWithoutFd
    <2> QED
        BY <2>1, <2>2, BeginsAsTold
<1>4. ASSUME NEW t \in Thread, LoadId(t)
      PROVE  CoreInv'
    <2>1. thread[t] \in ThreadStates
        BY DEF TypeInv, TypeOK, ThreadStates
    <2>2. /\ thread[t].pc = "load"
          /\ \A u \in Thread \ {t} : thread'[u] = thread[u]
          /\ thread'[t].handle = thread[t].handle
          /\ thread'[t].config = thread[t].config /\ thread'[t].pc = "store"
          /\ UNCHANGED <<handle, info>>
        BY <1>4, <2>1 DEF LoadId, TypeInv, TypeOK, ThreadStates
    <2> QED
        BY <2>2 DEF CoreInv, OneAtWork, WorkAsTold, CopyAgrees, Held, AsTold
<1>5. ASSUME NEW h \in Handle, FreeBuffer(h)
      PROVE  CoreInv'
    <2>1. \A u \in Thread : thread[u].pc # "idle" => thread[u].handle \in Handle \ {h}
        BY <1>5 DEF FreeBuffer, UnderWay, TypeInv, ThreadsHold
    <2>2. /\ info'[h] = Nothing /\ thread' = thread
          /\ \A g \in Handle \ {h} : info'[g] = info[g] /\ handle'[g] = handle[g]
        BY <1>5 DEF FreeBuffer, TypeInv, TypeOK
    <2> QED
        BY <2>1, <2>2 DEF CoreInv, OneAtWork, WorkAsTold, CopyAgrees, Held, AsTold
<1>6. CASE (\E h \in Handle : MapBuffer(h) \/ UnmapBuffer(h)) \/ UNCHANGED vars
    BY <1>6
    DEF MapBuffer, UnmapBuffer, vars, CoreInv, OneAtWork, WorkAsTold, CopyAgrees,
        Held, AsTold
<1> QED
    BY <1>1, <1>2, <1>3, <1>4, <1>5, <1>6, StoreAsTold, CopyAsTold
    DEF Next, ThreadStep

\* The core is told the size, stride and format of a buffer before it is
\* allocated, by one library, and gets it from another: they agree for every
\* picture, whichever threads allocate, clone and free beside it.
THEOREM CoreIsToldRight == Spec => []CoreInfoAgrees
<1>1. Init => CoreInv
    BY DEF Init, CoreInv, OneAtWork, WorkAsTold, CopyAgrees, IdleThread
<1>2. CoreInv => CoreInfoAgrees
    BY DEF CoreInv, CopyAgrees, AsTold, CoreInfoAgrees
<1> QED
    BY <1>1, <1>2, StepCoreInv, TypeCorrect, PTL DEF Spec
=============================================================================
