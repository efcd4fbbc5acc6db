------------------------------ MODULE Handles ------------------------------
(***************************************************************************)
(* Who owns an engine's state.  The four handle classes of                 *)
(* src/src/detail/zlib.cpp and src/src/detail/zstd.cpp, and the objects    *)
(* compressor and decompressor of src/src/stream.cpp, are constructed,     *)
(* moved, assigned to, called and destroyed in any order, by code that     *)
(* keeps them in variables; where an engine can get no memory, too.        *)
(*                                                                         *)
(* zlib_squeezer and zlib_sweller hold their z_stream in a unique_ptr with *)
(* defaulted moves; zstd_squeezer and zstd_sweller hold a context in a raw *)
(* pointer with moves written out; compressor and decompressor hold an     *)
(* impl, with a handle in a variant, in a unique_ptr.                      *)
(***************************************************************************)
CONSTANTS
    Slots,       \* the variables
    Engines,     \* bound: the addresses an engine's state can have
    NoObject, Null,
    Assigned     \* the classes whose objects are assigned to

ZlibClasses == {"zlib_squeezer", "zlib_sweller"}
ZstdClasses == {"zstd_squeezer", "zstd_sweller"}
Objects == {"compressor", "decompressor"}
Classes == ZlibClasses \cup ZstdClasses \cup Objects

ASSUME HandlesAssumption ==
    /\ NoObject \notin Engines \cup Classes /\ Null \notin Engines /\ NoObject # Null
    /\ Assigned \subseteq Classes

VARIABLES
    class,     \* the class of the object in each variable
    held,      \* its pointer: stream_, ctx_, or p_ (an impl, whose handle
               \* holds an engine's state as long as there is the impl)
    engine,    \* the state at each address: "free" (there is none), "live",
               \* "stateless" (a z_stream whose init failed), "lost" (its
               \* z_stream deleted without its End), "twice" (freed again)
    answer     \* of the last operation: "ok", "refused", "fault"

vars == <<class, held, engine, answer>>

Init ==
    /\ class = [s \in Slots |-> NoObject]
    /\ held = [s \in Slots |-> NoObject]
    /\ engine = [e \in Engines |-> "free"]
    /\ answer = "ok"

(***************************************************************************)
(* The end of a state: deflateEnd and inflateEnd, with the delete of the   *)
(* z_stream; ZSTD_freeCCtx and ZSTD_freeDCtx.  And the delete alone.       *)
(***************************************************************************)
End(eng, p) ==
    IF p \in Engines
    THEN [eng EXCEPT ![p] = IF @ \in {"live", "stateless"} THEN "free" ELSE "twice"]
    ELSE eng

Delete(eng, p) ==
    IF p \in Engines
    THEN [eng EXCEPT ![p] = CASE @ = "live" -> "lost" [] @ = "stateless" -> "free"
                              [] OTHER -> "twice"]
    ELSE eng

(***************************************************************************)
(* The moves: of a pointer p to a new object; and of what s holds to what  *)
(* d already is, d and s possibly one object.                              *)
(***************************************************************************)
zlib_move(p) == [to |-> p, from |-> Null]

zstd_move_Copies(p) == [to |-> p, from |-> p]    \* mutant: no o.ctx_ = nullptr

zstd_move(p) == [to |-> p, from |-> Null]

moved(c, p) == IF c \in ZstdClasses THEN zstd_move(p) ELSE zlib_move(p)

\* unique_ptr: release, then reset, which deletes what d has by then.
unique_ptr_assign(d, s) ==
    LET released == [held EXCEPT ![s] = Null]
    IN  [held |-> [released EXCEPT ![d] = held[s]], old |-> released[d]]

zlib_assign(d, s) ==
    LET a == unique_ptr_assign(d, s) IN [held |-> a.held, engine |-> Delete(engine, a.old)]

zstd_assign_NoSelfCheck(d, s) ==    \* mutant: this != &o is not asked
    [held |-> [held EXCEPT ![d] = held[s], ![s] = Null], engine |-> End(engine, held[d])]

zstd_assign_NoFree(d, s) ==    \* mutant: the old context is not freed
    IF d = s THEN [held |-> held, engine |-> engine]
    ELSE [held |-> [held EXCEPT ![d] = held[s], ![s] = Null], engine |-> engine]

zstd_assign(d, s) ==
    IF d = s THEN [held |-> held, engine |-> engine]
    ELSE [held |-> [held EXCEPT ![d] = held[s], ![s] = Null], engine |-> End(engine, held[d])]

\* An impl's destructor is that of its handle.
object_assign(d, s) ==
    LET a == unique_ptr_assign(d, s) IN [held |-> a.held, engine |-> End(engine, a.old)]

assigned(c, d, s) ==
    CASE c \in ZlibClasses -> zlib_assign(d, s)
      [] c \in ZstdClasses -> zstd_assign(d, s)
      [] OTHER -> object_assign(d, s)
-----------------------------------------------------------------------------
Running == answer # "fault"
Free == {e \in Engines : engine[e] = "free"}

\* The handle classes an object's impl can hold.
Handle(c) == CASE c = "compressor" -> {"zlib_squeezer", "zstd_squeezer"}
               [] c = "decompressor" -> {"zlib_sweller", "zstd_sweller"}
               [] OTHER -> {c}

\* A handle h of address e.  For an object it is a temporary of make_squeezer or
\* make_sweller, moved into the variant and destroyed.
Construct(s, c, h, e) ==
    /\ Running /\ class[s] = NoObject /\ e \in Free
    /\ LET got == [engine EXCEPT ![e] = "live"]
           m == moved(h, e)
       IN  /\ held' = [held EXCEPT ![s] = IF c \in Objects THEN m.to ELSE e]
           /\ engine' = IF c \in Objects THEN End(got, m.from) ELSE got
    /\ class' = [class EXCEPT ![s] = c]
    /\ answer' = "ok"

\* No memory: deflateInit2 or inflateInit2 leaves a z_stream without state, and
\* ZSTD_createDCtx returns a null pointer; the assertion that would end the
\* program is compiled out.  ZSTD_CCtx_setParameter follows its null pointer.
ConstructFails(s, c, h, e) ==
    /\ Running /\ class[s] = NoObject /\ e \in Free
    /\ \/ /\ h \in ZlibClasses
          /\ held' = [held EXCEPT ![s] = e]
          /\ engine' = [engine EXCEPT ![e] = "stateless"]
          /\ class' = [class EXCEPT ![s] = c] /\ answer' = "ok"
       \/ /\ h = "zstd_sweller"
          /\ held' = [held EXCEPT ![s] = Null]
          /\ class' = [class EXCEPT ![s] = c] /\ answer' = "ok"
          /\ UNCHANGED engine
       \/ answer' = "fault" /\ UNCHANGED <<class, held, engine>>

\* d is initialized from what s gives up.
MoveConstruct(d, s) ==
    /\ Running /\ class[s] # NoObject /\ class[d] = NoObject
    /\ LET m == moved(class[s], held[s])
       IN  held' = [held EXCEPT ![d] = m.to, ![s] = m.from]
    /\ class' = [class EXCEPT ![d] = class[s]]
    /\ answer' = "ok"
    /\ UNCHANGED engine

MoveAssign(d, s) ==
    /\ Running /\ class[s] \in Assigned /\ class[d] = class[s]
    /\ LET a == assigned(class[s], d, s)
       IN  held' = a.held /\ engine' = a.engine
    /\ answer' = "ok"
    /\ UNCHANGED class

\* push, flush or finish.  zlib refuses a stream without state.
Call(s) ==
    /\ Running /\ class[s] # NoObject
    /\ answer' = IF held[s] = Null THEN "fault"
                 ELSE CASE engine[held[s]] = "live" -> "ok"
                        [] engine[held[s]] = "stateless" -> "refused"
                        [] OTHER -> "fault"
    /\ UNCHANGED <<class, held, engine>>

Destroy(s) ==
    /\ Running /\ class[s] # NoObject
    /\ engine' = End(engine, held[s])
    /\ held' = [held EXCEPT ![s] = NoObject]
    /\ class' = [class EXCEPT ![s] = NoObject]
    /\ answer' = "ok"

\* The program that faulted is gone with all it had.
Restart ==
    /\ answer = "fault" /\ answer' = "ok"
    /\ class' = [s \in Slots |-> NoObject]
    /\ held' = [s \in Slots |-> NoObject]
    /\ engine' = [e \in Engines |-> "free"]

Next ==
    \/ \E s \in Slots, c \in Classes : \E h \in Handle(c), e \in Engines :
           Construct(s, c, h, e) \/ ConstructFails(s, c, h, e)
    \/ \E d, s \in Slots : MoveConstruct(d, s) \/ MoveAssign(d, s)
    \/ \E s \in Slots : Call(s) \/ Destroy(s)
    \/ Restart

Spec == Init /\ [][Next]_vars
-----------------------------------------------------------------------------
(***************************************************************************)
(* Properties.                                                             *)
(***************************************************************************)

\* The type invariant: which variables hold which objects and pointers, and that
\* no state is freed twice.
TypeOK ==
    /\ class \in [Slots -> Classes \cup {NoObject}]
    /\ held \in [Slots -> Engines \cup {Null, NoObject}]
    /\ \A s \in Slots : held[s] = NoObject <=> class[s] = NoObject
    /\ engine \in [Engines -> {"free", "live", "stateless", "lost"}]
    /\ answer \in {"ok", "refused", "fault"}

(***************************************************************************)
(* No engine state has two owners and no object points to one that is      *)
(* gone, after any sequence of moves: so none is freed twice nor used      *)
(* after it was freed, an assignment to itself included.                   *)
(***************************************************************************)
SoleOwner ==
    /\ \A s, t \in Slots : held[s] = held[t] /\ held[s] \in Engines => s = t
    /\ \A s \in Slots : held[s] \in Engines => engine[held[s]] \in {"live", "stateless"}

(***************************************************************************)
(* "the destructor is the only cleanup, and the c api never leaks past     *)
(* this type" (src/include/detail/backend.hpp): every engine state there   *)
(* is has an object that will free it.                                     *)
(***************************************************************************)
NothingLeaks == \A e \in Engines : engine[e] # "free" => \E s \in Slots : held[s] = e

(***************************************************************************)
(* Handles and objects implement OwnershipContract: each move hands on the *)
(* very state the source had, an assignment frees the target's and nothing *)
(* else, and a call fails only through an object that owns nothing: one    *)
(* moved from, or made without memory.                                     *)
(***************************************************************************)
Contract == INSTANCE OwnershipContract WITH
    owner <- held, existing <- {e \in Engines : engine[e] # "free"}, Empty <- Null

ImplementsOwnership == Contract!OSpec
=============================================================================
