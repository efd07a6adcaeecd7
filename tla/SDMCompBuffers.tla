--------------------------- MODULE SDMCompBuffers ---------------------------
(***************************************************************************)
(* Buffers for pictures: DmaBufAllocator of                                *)
(* liballocator/src/dma_buf_alloc_impl.cpp, which clients reach through    *)
(* AllocInterface and the display core through SDMCompBufferAllocator      *)
(* (libsdmcomposer/src/sdm_comp_buffer_allocator.cpp).                     *)
(*                                                                         *)
(* A BufferHandle names memory of the kernel by a descriptor.  No lock is  *)
(* taken anywhere: the calls of several threads interleave, and id_++ is a *)
(* read and a write with other threads between them.                       *)
(*                                                                         *)
(* The kernel is not part of this repository: a descriptor is any that is  *)
(* not open, memory is there while a descriptor or a mapping has it, an    *)
(* empty buffer and a mapping larger than the memory are refused.  The     *)
(* allocation and the mapping may always fail, and then nothing changes.   *)
(*                                                                         *)
(* Callers free what they allocated, once, and clone a buffer they hold    *)
(* with its own width, height and format.                                  *)
(***************************************************************************)
EXTENDS Integers, FiniteSets, SDMCompFormats

CONSTANTS
    Thread,     \* the threads that call, of clients and of the core
    Handle,     \* the BufferHandle objects
    Memory,     \* the memory the kernel can give
    Fd,         \* descriptors
    Request,    \* the AllocData of clients
    Config,     \* the BufferConfig of the core
    Word,       \* 2^32 in the code: where uint32_t wraps
    MaxId,      \* how far id_ is followed
    NoFd,       \* fd -1
    Nothing     \* no memory, no handle, no information

\* Widths and heights whose stride is a uint32_t for every format; with that
\* they are also positive as the int that GetAlignedWidthAndHeight takes.
AlignDown(n) == (n \div 32) * 32
Align(n) == ((n + 31) \div 32) * 32
Dimension == {n \in Nat : 4 * Align(n) < Word}
Bytes == 0 .. Word - 1
Id == -1 .. MaxId

\* What a BufferHandle keeps, and which memory it was made for.
BufferHandle ==
    [fd : Fd \cup {NoFd}, memory : Memory \cup {Nothing}, width : Dimension,
     height : Dimension, format : BufferFormat, size : Bytes, stride : Bytes,
     id : Id]

ASSUME BufferConstants ==
    /\ NoFd \notin Fd
    /\ Nothing \notin Memory \cup Handle \cup BufferHandle
    /\ Word \in Nat \ {0}
    /\ MaxId \in Nat
    /\ Request \subseteq [width : Dimension, height : Dimension,
                          format : BufferFormat, size : Bytes]
    /\ \A c \in Config : /\ DOMAIN c = {"width", "height", "format"}
                         /\ c.width \in Dimension /\ c.height \in Dimension

VARIABLES
    id,         \* id_
    fds,        \* the memory of each descriptor
    room,       \* the bytes of each memory
    handle,     \* the BufferHandle objects in use
    info,       \* AllocatedBufferInfo of those the core asked for
    mapped,     \* the memory each handle was last mapped to
    thread      \* where each thread is in AllocBuffer or CloneBuffer

kernelVars == <<fds, room, mapped>>
vars == <<id, kernelVars, handle, info, thread>>

TypeOK ==
    /\ id \in Id
    /\ fds \in [Fd -> Memory \cup {Nothing}]
    /\ room \in [Memory -> Bytes]
    /\ handle \in [Handle -> BufferHandle \cup {Nothing}]
    /\ info \in [Handle -> [config : Config, stride : Bytes, size : Bytes,
                            id : Id] \cup {Nothing}]
    /\ mapped \in [Handle -> Memory \cup {Nothing}]
    /\ thread \in [Thread -> [pc : {"idle", "load", "store", "copy"},
                              handle : Handle \cup {Nothing},
                              config : Config \cup {Nothing}, id : Id]]

IdleThread == [pc |-> "idle", handle |-> Nothing, config |-> Nothing, id |-> -1]

Init ==
    /\ id = -1
    /\ fds = [f \in Fd |-> Nothing]
    /\ room = [m \in Memory |-> 0]
    /\ handle = [h \in Handle |-> Nothing]
    /\ info = [h \in Handle |-> Nothing]
    /\ mapped = [h \in Handle |-> Nothing]
    /\ thread = [t \in Thread |-> IdleThread]

---------------------------------------------------------------------------
(* Sizes                                                                   *)

\* A float of that many bytes as a uint32_t.  Out of range the conversion is
\* undefined: builds wrap or saturate.
ToUnbounded(n) == {n}
ToUnsigned(n) == IF n < Word THEN {n} ELSE {n % Word, Word - 1}

\* aligned_w * aligned_h is a uint32_t, then a float times a float; both are
\* exact, the product is a multiple of 1024.
Product(w, h, f) == ((Align(w) * Align(h)) % Word) * GetBpp(f)
GetBufferSize(w, h, f) == ToUnsigned(Product(w, h, f))

Stride(w, f) == Align(w) * GetBpp(f)

\* What GetBufferSize, GetAllocatedBufferInfo and GetBufferLayout of
\* SDMCompBufferAllocator tell the core.
GetAllocatedBufferInfoUnaligned(c) ==
    LET f == GetSDMCompFormat(c.format)
    IN  [stride |-> c.width * GetBpp(f),
         sizes |-> ToUnsigned(((c.width * Align(c.height)) % Word) * GetBpp(f))]
GetAllocatedBufferInfo(c) ==
    LET f == GetSDMCompFormat(c.format)
    IN  [stride |-> Stride(c.width, f),
         sizes |-> ToUnsigned(((Align(c.width) * Align(c.height)) % Word) * GetBpp(f))]

---------------------------------------------------------------------------
(* AllocBuffer and CloneBuffer                                             *)

Held(h) == handle[h] # Nothing
UnderWay(h) == \E t \in Thread : thread[t].pc # "idle" /\ thread[t].handle = h
InUse == {m \in Memory : (\E f \in Fd : fds[f] = m) \/ (\E h \in Handle : mapped[h] = m)}

Filled(d, f, m, size) ==
    [fd |-> f, memory |-> m, width |-> d.width, height |-> d.height,
     format |-> d.format, size |-> size, stride |-> Stride(d.width, d.format),
     id |-> -1]

\* The first part of both calls: all of the handle but its id.
GoToId(t, h, c) ==
    thread' = [thread EXCEPT ![t] = [pc |-> "load", handle |-> h, config |-> c,
                                     id |-> -1]]

\* AllocBuffer, up to id_++, for the caller with configuration c.
Allocate(t, h, d, sizes, c) ==
    /\ thread[t].pc = "idle" /\ ~Held(h) /\ id < MaxId
    /\ \E f \in Fd, m \in Memory \ InUse, size \in sizes \ {0} :
          /\ fds[f] = Nothing
          /\ fds' = [fds EXCEPT ![f] = m]
          /\ room' = [room EXCEPT ![m] = size]
          /\ handle' = [handle EXCEPT ![h] = Filled(d, f, m, size)]
    /\ GoToId(t, h, c)
    /\ UNCHANGED <<id, info, mapped>>

AllocBuffer(t, h, d) ==
    Allocate(t, h, d, IF d.size # 0 THEN {d.size}
                      ELSE GetBufferSize(d.width, d.height, d.format), Nothing)

\* SDMCompBufferAllocator::AllocateBuffer.
AllocateBuffer(t, h, c) ==
    LET d == [width |-> c.width, height |-> c.height,
              format |-> GetSDMCompFormat(c.format), size |-> 0]
    IN  Allocate(t, h, d, GetBufferSize(d.width, d.height, d.format), c)

\* The descriptor of the original is duplicated: memory that neither the
\* original nor the clone loses when the other is freed.
Duplicated(g, f) == handle[g].fd # NoFd /\ fds[f] = Nothing

CloneBufferUnduplicated(t, h, g) ==
    /\ thread[t].pc = "idle" /\ ~Held(h) /\ Held(g) /\ ~UnderWay(g) /\ id < MaxId
    /\ \E size \in GetBufferSize(handle[g].width, handle[g].height, handle[g].format) :
          handle' = [handle EXCEPT ![h] = Filled(handle[g], handle[g].fd,
                                                 handle[g].memory, size)]
    /\ GoToId(t, h, Nothing)
    /\ UNCHANGED <<id, kernelVars, info>>
CloneBuffer(t, h, g) ==
    /\ thread[t].pc = "idle" /\ ~Held(h) /\ Held(g) /\ ~UnderWay(g) /\ id < MaxId
    /\ \E f \in Fd, size \in GetBufferSize(handle[g].width, handle[g].height,
                                           handle[g].format) :
          /\ Duplicated(g, f)
          /\ fds' = [fds EXCEPT ![f] = handle[g].memory]
          /\ handle' = [handle EXCEPT ![h] = Filled(handle[g], f, handle[g].memory, size)]
    /\ GoToId(t, h, Nothing)
    /\ UNCHANGED <<id, room, info, mapped>>

\* dup fails, or has no descriptor to duplicate: the handle is filled all the
\* same, without one, and 0 is returned.
CloneWithoutFd(t, h, g) ==
    /\ thread[t].pc = "idle" /\ ~Held(h) /\ Held(g) /\ ~UnderWay(g) /\ id < MaxId
    /\ \E size \in GetBufferSize(handle[g].width, handle[g].height, handle[g].format) :
          handle' = [handle EXCEPT ![h] = Filled(handle[g], NoFd, Nothing, size)]
    /\ GoToId(t, h, Nothing)
    /\ UNCHANGED <<id, kernelVars, info>>

\* buffer_id = id_++.
LoadId(t) ==
    /\ thread[t].pc = "load"
    /\ thread' = [thread EXCEPT ![t].pc = "store", ![t].id = id]
    /\ UNCHANGED <<id, kernelVars, handle, info>>

\* A client has its handle then; the core still copies it.
StoreId(t) ==
    /\ thread[t].pc = "store" /\ thread[t].id < MaxId
    /\ id' = thread[t].id + 1
    /\ handle' = [handle EXCEPT ![thread[t].handle].id = thread[t].id]
    /\ thread' = [thread EXCEPT ![t] = IF @.config = Nothing THEN IdleThread
                                       ELSE [@ EXCEPT !.pc = "copy"]]
    /\ UNCHANGED <<kernelVars, info>>

CopyInfo(t) ==
    LET h == thread[t].handle
    IN  /\ thread[t].pc = "copy"
        /\ info' = [info EXCEPT ![h] = [config |-> thread[t].config,
                                        stride |-> handle[h].stride,
                                        size |-> handle[h].size,
                                        id |-> handle[h].id]]
        /\ thread' = [thread EXCEPT ![t] = IdleThread]
        /\ UNCHANGED <<id, kernelVars, handle>>

---------------------------------------------------------------------------
(* The other calls                                                         *)

\* FreeBuffer of either allocator.  The core's, called again, finds no handle
\* and changes nothing.
LeftOpen(f) == fds
Closed(f) == IF f = NoFd THEN fds ELSE [fds EXCEPT ![f] = Nothing]

FreeBuffer(h) ==
    /\ Held(h) /\ ~UnderWay(h)
    /\ fds' = Closed(handle[h].fd)
    /\ handle' = [handle EXCEPT ![h] = Nothing]
    /\ info' = [info EXCEPT ![h] = Nothing]
    /\ UNCHANGED <<id, room, mapped, thread>>

\* MapBuffer of the whole of a handle.
MapBuffer(h) ==
    /\ Held(h) /\ ~UnderWay(h) /\ mapped[h] = Nothing
    /\ handle[h].fd # NoFd /\ handle[h].size # 0
    /\ handle[h].size <= room[handle[h].memory]
    /\ mapped' = [mapped EXCEPT ![h] = fds[handle[h].fd]]
    /\ UNCHANGED <<id, fds, room, handle, info, thread>>

\* UnmapBuffer, also of a buffer that has been freed.
UnmapBuffer(h) ==
    /\ mapped[h] # Nothing
    /\ mapped' = [mapped EXCEPT ![h] = Nothing]
    /\ UNCHANGED <<id, fds, room, handle, info, thread>>

ThreadStep(t) ==
    \/ \E h \in Handle :
          \/ \E d \in Request : AllocBuffer(t, h, d)
          \/ \E c \in Config : AllocateBuffer(t, h, c)
          \/ \E g \in Handle : CloneBuffer(t, h, g) \/ CloneWithoutFd(t, h, g)
    \/ LoadId(t) \/ StoreId(t) \/ CopyInfo(t)

Next ==
    \/ \E t \in Thread : ThreadStep(t)
    \/ \E h \in Handle : FreeBuffer(h) \/ MapBuffer(h) \/ UnmapBuffer(h)

Spec == Init /\ [][Next]_vars

---------------------------------------------------------------------------
(* Properties                                                              *)

\* A handle names its own memory by a descriptor of its own for as long as it
\* is held, whatever is allocated, cloned and freed around it
\* (dma_buf_alloc_impl.cpp:99, :121 and :214).
HandlesKeepMemory ==
    \A h \in Handle : Held(h) /\ handle[h].fd # NoFd =>
        /\ fds[handle[h].fd] = handle[h].memory
        /\ \A g \in Handle : Held(g) /\ handle[g].fd = handle[h].fd => g = h

\* No descriptor stays open that no handle has: what is allocated and cloned is
\* given back in full (dma_buf_alloc_impl.cpp:117-124, and
\* sdm_comp_buffer_allocator.cpp:58-64 and :78-93).
NoDescriptorLeaked ==
    \A f \in Fd : fds[f] # Nothing => \E h \in Handle : Held(h) /\ handle[h].fd = f

\* The product of the aligned sides and the bytes of a pixel is a uint32_t.
Fits(w, h, f) == Align(w) * Align(h) * GetBpp(f) < Word

\* Clients that give a size of their own give one that the picture fits in:
\* AllocBuffer takes it as it is, and a clone does not know of it.
RequestsCover ==
    \A d \in Request :
        d.size # 0 => Align(d.width) * Align(d.height) * GetBpp(d.format) <= d.size

\* A handle of a picture that fits 32 bits is not larger than its memory and
\* holds every pixel, a clone too, although a clone computes its size and does
\* not ask for it (dma_buf_alloc_impl.cpp:86-89, :212, against the wrap at :252).
PixelsFit ==
    \A h \in Handle :
        LET b == handle[h]
        IN  Held(h) /\ b.fd # NoFd /\ Fits(b.width, b.height, b.format) =>
                /\ b.width * b.height * GetBpp(b.format) <= b.size
                /\ b.size <= room[b.memory]

\* What the core is told beforehand of a buffer is what it then gets: the
\* sizes, formats and alignments of two libraries agree
\* (sdm_comp_buffer_allocator.cpp:95-132 with dma_buf_alloc_impl.cpp:85-108).
CoreInfoAgrees ==
    \A h \in Handle :
        info[h] # Nothing =>
            LET c == info[h].config
                told == GetAllocatedBufferInfo(c)
            IN  /\ Held(h) /\ info[h].id = handle[h].id
                /\ info[h].stride = told.stride
                /\ info[h].size \in told.sizes
                /\ GetSDMFormat(handle[h].format) = c.format

\* No two buffers have the same id ("Unique Id of the allocated buffer",
\* buffer_interface.h:112).
IdsUnique ==
    \A g, h \in Handle :
        g # h /\ Held(g) /\ Held(h) /\ ~UnderWay(g) /\ ~UnderWay(h) =>
            handle[g].id # handle[h].id

\* Memory is shared by its handles and its mappings: made for the first, there
\* while one of them is, gone with the last.
BufferUsers(m) ==
    {<<"handle", h>> : h \in {h \in Handle : Held(h) /\ handle[h].memory = m}}
        \cup {<<"mapping", h>> : h \in {h \in Handle : mapped[h] = m}}

Shared == INSTANCE SharedResources WITH
    Thing <- Memory,
    User <- {"handle", "mapping"} \X Handle,
    present <- InUse,
    users <- [m \in Memory |-> BufferUsers(m)]

\* The buffers implement SharedResources.
MemoryShared == Shared!Spec
=============================================================================
