--------------------------- MODULE HandlesProofs ---------------------------
(***************************************************************************)
(* Machine-checked theorems about the handles, for every set of variables, *)
(* addresses and assigned classes.                                         *)
(***************************************************************************)
EXTENDS Handles, TLAPS

\* With zlib handles assigned to, everything but the absence of leaks.
FreeingOnly == Assigned \cap ZlibClasses = {}

Inv == TypeOK /\ SoleOwner /\ (FreeingOnly => NothingLeaks)
-----------------------------------------------------------------------------
(***************************************************************************)
(* What the pieces of the operations do.                                   *)
(***************************************************************************)

\* The end of an owned state makes it free; without a state nothing happens.
LEMMA EndFrees ==
    ASSUME NEW eng \in [Engines -> {"free", "live", "stateless", "lost"}], NEW p,
           p \in Engines => eng[p] \in {"live", "stateless"}
    PROVE  End(eng, p) = [e \in Engines |-> IF e = p THEN "free" ELSE eng[e]]
BY DEF End

\* A delete of an owned state makes it free or loses it.
LEMMA DeleteGivesUp ==
    ASSUME NEW eng \in [Engines -> {"free", "live", "stateless", "lost"}], NEW p,
           p \in Engines => eng[p] \in {"live", "stateless"}
    PROVE  /\ Delete(eng, p) \in [Engines -> {"free", "live", "stateless", "lost"}]
           /\ \A e \in Engines : e # p => Delete(eng, p)[e] = eng[e]
BY DEF Delete

\* Every move empties its source.
LEMMA MoveHandsOn ==
    ASSUME NEW c, NEW p
    PROVE  moved(c, p).to = p /\ moved(c, p).from = Null
BY DEF moved, zlib_move, zstd_move

\* An assignment of s to another object d moves s's pointer and leaves s empty.
LEMMA AssignHolds ==
    ASSUME TypeOK, NEW c \in Classes, NEW d \in Slots, NEW s \in Slots, d # s
    PROVE  assigned(c, d, s).held = [held EXCEPT ![d] = held[s], ![s] = Null]
<1>1. /\ held \in [Slots -> Engines \cup {Null, NoObject}]
      /\ [[held EXCEPT ![s] = Null] EXCEPT ![d] = held[s]]
            = [held EXCEPT ![d] = held[s], ![s] = Null]
    BY DEF TypeOK
<1>2. CASE c \in ZlibClasses
    BY <1>1, <1>2 DEF assigned, zlib_assign, unique_ptr_assign, ZlibClasses, ZstdClasses
<1>3. CASE c \in ZstdClasses
    BY <1>3 DEF assigned, zstd_assign, ZlibClasses, ZstdClasses
<1>4. CASE c \in Objects
    BY <1>1, <1>4 DEF assigned, object_assign, unique_ptr_assign, Objects, ZlibClasses, ZstdClasses
<1> QED BY <1>2, <1>3, <1>4 DEF Classes

\* It gives up the state d had: a zlib handle's is deleted, another's is ended.
LEMMA AssignGivesUp ==
    ASSUME TypeOK, NEW c \in Classes, NEW d \in Slots, NEW s \in Slots, d # s
    PROVE  assigned(c, d, s).engine =
               IF c \in ZlibClasses THEN Delete(engine, held[d]) ELSE End(engine, held[d])
<1>1. [held EXCEPT ![s] = Null][d] = held[d]
    BY DEF TypeOK
<1>2. CASE c \in ZlibClasses
    BY <1>1, <1>2 DEF assigned, zlib_assign, unique_ptr_assign, ZlibClasses, ZstdClasses
<1>3. CASE c \in ZstdClasses
    BY <1>3 DEF assigned, zstd_assign, ZlibClasses, ZstdClasses
<1>4. CASE c \in Objects
    BY <1>1, <1>4 DEF assigned, object_assign, unique_ptr_assign, Objects, ZlibClasses, ZstdClasses
<1> QED BY <1>2, <1>3, <1>4 DEF Classes

\* Assigned to itself an object of any class keeps what it has.
LEMMA AssignToItself ==
    ASSUME TypeOK, NEW c \in Classes, NEW s \in Slots
    PROVE  assigned(c, s, s).held = held /\ assigned(c, s, s).engine = engine
<1>1. /\ held \in [Slots -> Engines \cup {Null, NoObject}]
      /\ [[held EXCEPT ![s] = Null] EXCEPT ![s] = held[s]] = held
      /\ [held EXCEPT ![s] = Null][s] = Null
    BY DEF TypeOK
<1>2. End(engine, Null) = engine /\ Delete(engine, Null) = engine
    BY HandlesAssumption DEF End, Delete
<1>3. CASE c \in ZlibClasses
    BY <1>1, <1>2, <1>3 DEF assigned, zlib_assign, unique_ptr_assign, ZlibClasses, ZstdClasses
<1>4. CASE c \in ZstdClasses
    BY <1>4 DEF assigned, zstd_assign, ZlibClasses, ZstdClasses
<1>5. CASE c \in Objects
    BY <1>1, <1>2, <1>5 DEF assigned, object_assign, unique_ptr_assign, Objects, ZlibClasses, ZstdClasses
<1> QED BY <1>3, <1>4, <1>5 DEF Classes
-----------------------------------------------------------------------------
(***************************************************************************)
(* The operations keep the invariant.                                      *)
(***************************************************************************)


\* What a variable with an object holds.
LEMMA ObjectsHold ==
    ASSUME Inv, NEW s \in Slots, class[s] # NoObject
    PROVE  class[s] \in Classes /\ held[s] \in Engines \cup {Null} /\ held[s] # NoObject
BY DEF Inv, TypeOK

\* And the state there is where it points to.
LEMMA HeldIsOwned ==
    ASSUME Inv, NEW s \in Slots
    PROVE  held[s] \in Engines => engine[held[s]] \in {"live", "stateless"}
BY DEF Inv, SoleOwner

\* A construction puts a state at an address nobody points to.
LEMMA NewStateKeepsInv ==
    ASSUME Inv, NEW s \in Slots, NEW c \in Classes, NEW e \in Engines,
           NEW st \in {"live", "stateless"},
           class[s] = NoObject, engine[e] = "free", answer' = "ok",
           class' = [class EXCEPT ![s] = c],
           held' = [held EXCEPT ![s] = e],
           engine' = [engine EXCEPT ![e] = st]
    PROVE  Inv'
<1>1. TypeOK'
    BY HandlesAssumption DEF Inv, TypeOK
<1>2. \A t \in Slots : held[t] # e
    BY HeldIsOwned
<1>3. SoleOwner'
    BY <1>2 DEF Inv, TypeOK, SoleOwner
<1>4. NothingLeaks => NothingLeaks'
    <2> SUFFICES ASSUME NothingLeaks, NEW f \in Engines, engine'[f] # "free"
                 PROVE  \E t \in Slots : held'[t] = f
        BY DEF NothingLeaks
    <2>1. CASE f = e
        BY <2>1 DEF Inv, TypeOK
    <2>2. CASE f # e
        <3>1. PICK t \in Slots : held[t] = f
            BY <2>2 DEF NothingLeaks, Inv, TypeOK
        <3>2. t # s
            BY <3>1, HandlesAssumption DEF Inv, TypeOK
        <3> QED BY <3>1, <3>2 DEF Inv, TypeOK
    <2> QED BY <2>1, <2>2
<1> QED BY <1>1, <1>3, <1>4 DEF Inv

\* What Construct does, the temporary of an object included.
LEMMA ConstructMakes ==
    ASSUME Inv, NEW s \in Slots, NEW c \in Classes, NEW h, NEW e \in Engines,
           Construct(s, c, h, e)
    PROVE  /\ held' = [held EXCEPT ![s] = e]
           /\ engine' = [engine EXCEPT ![e] = "live"]
           /\ class' = [class EXCEPT ![s] = c]
           /\ class[s] = NoObject /\ engine[e] = "free" /\ answer' = "ok"
<1>1. End([engine EXCEPT ![e] = "live"], Null) = [engine EXCEPT ![e] = "live"]
    BY HandlesAssumption DEF End
<1> QED BY <1>1, MoveHandsOn DEF Construct, Free

\* A move between two variables, the target's own state first given up.
LEMMA HandOverKeepsInv ==
    ASSUME Inv, NEW d \in Slots, NEW s \in Slots, d # s,
           class[s] # NoObject,
           class' = [class EXCEPT ![d] = class[s]],
           held' = [held EXCEPT ![d] = held[s], ![s] = Null],
           engine' \in [Engines -> {"free", "live", "stateless", "lost"}],
           \A e \in Engines : e # held[d] => engine'[e] = engine[e],
           answer' = "ok"
    PROVE  /\ TypeOK' /\ SoleOwner'
           /\ NothingLeaks /\ (\A e \in Engines : e = held[d] => engine'[e] = "free") => NothingLeaks'
<1>1. class[s] \in Classes /\ held[s] \in Engines \cup {Null} /\ held[s] # NoObject
    BY ObjectsHold
<1>2. TypeOK'
    BY <1>1, HandlesAssumption DEF Inv, TypeOK
<1>3. \A t \in Slots : held'[t] = IF t = s THEN Null ELSE IF t = d THEN held[s] ELSE held[t]
    BY DEF Inv, TypeOK
<1>4. SoleOwner'
    <2>1. ASSUME NEW t \in Slots, NEW u \in Slots, held'[t] = held'[u], held'[t] \in Engines
          PROVE  t = u
        BY <1>3, <2>1, HandlesAssumption DEF Inv, SoleOwner
    <2>2. ASSUME NEW t \in Slots, held'[t] \in Engines
          PROVE  engine'[held'[t]] \in {"live", "stateless"}
        <3>1. PICK u \in Slots : u # d /\ held'[t] = held[u]
            <4>1. t # s
                BY <1>3, <2>2, HandlesAssumption
            <4>2. held'[t] = held[IF t = d THEN s ELSE t]
                BY <1>3, <4>1
            <4> QED BY <4>1, <4>2
        <3>2. held[u] # held[d]
            BY <2>2, <3>1 DEF Inv, SoleOwner
        <3> QED BY <2>2, <3>1, <3>2, HeldIsOwned
    <2> QED BY <2>1, <2>2 DEF SoleOwner
<1>5. ASSUME NothingLeaks, \A e \in Engines : e = held[d] => engine'[e] = "free",
             NEW e \in Engines, engine'[e] # "free"
      PROVE  \E t \in Slots : held'[t] = e
    <2>1. e # held[d] /\ engine[e] # "free"
        BY <1>5
    <2>2. PICK t \in Slots : held[t] = e
        BY <1>5, <2>1 DEF NothingLeaks
    <2>3. CASE t = s
        BY <1>3, <2>2, <2>3
    <2>4. CASE t # s
        BY <1>3, <2>1, <2>2, <2>4
    <2> QED BY <2>3, <2>4
<1> QED BY <1>2, <1>4, <1>5 DEF NothingLeaks

LEMMA MoveConstructHandsOver ==
    ASSUME Inv, NEW d \in Slots, NEW s \in Slots, MoveConstruct(d, s)
    PROVE  /\ d # s /\ class[s] # NoObject /\ answer' = "ok"
           /\ class' = [class EXCEPT ![d] = class[s]]
           /\ held' = [held EXCEPT ![d] = held[s], ![s] = Null]
           /\ held[d] \notin Engines /\ engine' = engine
<1>1. held[d] \notin Engines
    BY HandlesAssumption DEF Inv, TypeOK, MoveConstruct
<1> QED BY <1>1, MoveHandsOn DEF MoveConstruct

LEMMA MoveAssignHandsOver ==
    ASSUME Inv, NEW d \in Slots, NEW s \in Slots, d # s, MoveAssign(d, s)
    PROVE  /\ class[s] # NoObject /\ answer' = "ok"
           /\ class' = [class EXCEPT ![d] = class[s]]
           /\ held' = [held EXCEPT ![d] = held[s], ![s] = Null]
           /\ engine' \in [Engines -> {"free", "live", "stateless", "lost"}]
           /\ \A e \in Engines : e # held[d] => engine'[e] = engine[e]
           /\ FreeingOnly => \A e \in Engines : e = held[d] => engine'[e] = "free"
<1>1. /\ class[s] \in Assigned /\ class[s] \in Classes /\ class[s] # NoObject
      /\ class[d] = class[s]
    BY HandlesAssumption DEF MoveAssign
<1>2. class' = [class EXCEPT ![d] = class[s]]
    BY <1>1 DEF MoveAssign, Inv, TypeOK
<1>3. held' = [held EXCEPT ![d] = held[s], ![s] = Null]
    BY <1>1, AssignHolds DEF MoveAssign, Inv
<1>4. engine' = IF class[s] \in ZlibClasses THEN Delete(engine, held[d]) ELSE End(engine, held[d])
    BY <1>1, AssignGivesUp DEF MoveAssign, Inv
<1>5. /\ engine \in [Engines -> {"free", "live", "stateless", "lost"}]
      /\ held[d] \in Engines => engine[held[d]] \in {"live", "stateless"}
    BY HeldIsOwned DEF Inv, TypeOK
<1>6. CASE class[s] \in ZlibClasses
    <2>1. ~FreeingOnly
        BY <1>1, <1>6 DEF FreeingOnly
    <2>2. engine' = Delete(engine, held[d])
        BY <1>4, <1>6
    <2>3. /\ engine' \in [Engines -> {"free", "live", "stateless", "lost"}]
          /\ \A e \in Engines : e # held[d] => engine'[e] = engine[e]
        BY <1>5, <2>2, DeleteGivesUp
    <2>4. answer' = "ok"
        BY DEF MoveAssign
    <2> QED BY <1>1, <1>2, <1>3, <2>1, <2>3, <2>4
<1>7. CASE class[s] \notin ZlibClasses
    <2>1. engine' = [e \in Engines |-> IF e = held[d] THEN "free" ELSE engine[e]]
        BY <1>4, <1>5, <1>7, EndFrees
    <2>2. engine' \in [Engines -> {"free", "live", "stateless", "lost"}]
        BY <1>5, <2>1
    <2> QED BY <1>1, <1>2, <1>3, <2>1, <2>2 DEF MoveAssign
<1> QED BY <1>6, <1>7

LEMMA MoveAssignToItself ==
    ASSUME Inv, NEW s \in Slots, MoveAssign(s, s)
    PROVE  class[s] # NoObject /\ answer' = "ok" /\ UNCHANGED <<class, held, engine>>
<1>1. class[s] \in Classes /\ class[s] # NoObject
    BY HandlesAssumption DEF MoveAssign
<1> QED BY <1>1, AssignToItself DEF MoveAssign, Inv

\* The destructor ends the state its object owns.
LEMMA DestroyEnds ==
    ASSUME Inv, NEW s \in Slots, Destroy(s)
    PROVE  engine' = [e \in Engines |-> IF e = held[s] THEN "free" ELSE engine[e]]
BY EndFrees, HeldIsOwned DEF Destroy, Inv, TypeOK

LEMMA DestroyKeepsInv ==
    ASSUME Inv, NEW s \in Slots, Destroy(s)
    PROVE  Inv'
<1>1. /\ class' = [class EXCEPT ![s] = NoObject] /\ held' = [held EXCEPT ![s] = NoObject]
      /\ answer' = "ok"
    BY DEF Destroy
<1>2. engine' = [e \in Engines |-> IF e = held[s] THEN "free" ELSE engine[e]]
    BY DestroyEnds
<1>3. TypeOK'
    BY <1>1, <1>2 DEF Inv, TypeOK
<1>4. \A t \in Slots : held'[t] = IF t = s THEN NoObject ELSE held[t]
    BY <1>1 DEF Inv, TypeOK
<1>5. SoleOwner'
    <2>1. ASSUME NEW t \in Slots, NEW u \in Slots, held'[t] = held'[u], held'[t] \in Engines
          PROVE  t = u
        BY <1>4, <2>1, HandlesAssumption DEF Inv, SoleOwner
    <2>2. ASSUME NEW t \in Slots, held'[t] \in Engines
          PROVE  engine'[held'[t]] \in {"live", "stateless"}
        <3>1. t # s /\ held'[t] = held[t]
            BY <1>4, <2>2, HandlesAssumption
        <3>2. held[t] # held[s]
            BY <2>2, <3>1 DEF Inv, SoleOwner
        <3> QED BY <1>2, <2>2, <3>1, <3>2, HeldIsOwned
    <2> QED BY <2>1, <2>2 DEF SoleOwner
<1>6. NothingLeaks => NothingLeaks'
    <2> SUFFICES ASSUME NothingLeaks, NEW e \in Engines, engine'[e] # "free"
                 PROVE  \E t \in Slots : held'[t] = e
        BY DEF NothingLeaks
    <2>1. e # held[s] /\ engine[e] # "free"
        BY <1>2
    <2>2. PICK t \in Slots : held[t] = e
        BY <2>1 DEF NothingLeaks
    <2> QED BY <1>4, <2>1, <2>2
<1> QED BY <1>3, <1>5, <1>6 DEF Inv

\* Without memory: a z_stream without state, an empty object, or the end.
LEMMA ConstructFailsMakes ==
    ASSUME Inv, NEW s \in Slots, NEW c \in Classes, NEW h, NEW e \in Engines,
           ConstructFails(s, c, h, e)
    PROVE  /\ class[s] = NoObject /\ held[s] = NoObject /\ engine[e] = "free"
           /\ \/ /\ class' = [class EXCEPT ![s] = c] /\ answer' = "ok"
                 /\ held' = [held EXCEPT ![s] = e]
                 /\ engine' = [engine EXCEPT ![e] = "stateless"]
              \/ /\ class' = [class EXCEPT ![s] = c] /\ answer' = "ok"
                 /\ held' = [held EXCEPT ![s] = Null] /\ engine' = engine
              \/ answer' = "fault" /\ UNCHANGED <<class, held, engine>>
BY DEF ConstructFails, Free, Inv, TypeOK

\* An empty object in a variable that held none.
LEMMA EmptyObjectKeepsInv ==
    ASSUME Inv, NEW s \in Slots, NEW c \in Classes, class[s] = NoObject, held[s] = NoObject,
           class' = [class EXCEPT ![s] = c], answer' = "ok",
           held' = [held EXCEPT ![s] = Null], engine' = engine
    PROVE  Inv'
<1>1. TypeOK'
    BY HandlesAssumption DEF Inv, TypeOK
<1>2. \A t \in Slots : held'[t] = IF t = s THEN Null ELSE held[t]
    BY DEF Inv, TypeOK
<1>3. SoleOwner'
    BY <1>2, HandlesAssumption DEF Inv, SoleOwner
<1>4. NothingLeaks => NothingLeaks'
    BY <1>2, HandlesAssumption DEF NothingLeaks
<1> QED BY <1>1, <1>3, <1>4 DEF Inv

\* Steps that change neither objects, nor pointers, nor states.
LEMMA QuietKeepsInv ==
    ASSUME Inv, UNCHANGED <<class, held, engine>>, answer' \in {"ok", "refused", "fault"}
    PROVE  Inv'
<1>1. TypeOK' /\ SoleOwner' /\ (NothingLeaks => NothingLeaks')
    BY DEF Inv, TypeOK, SoleOwner, NothingLeaks
<1> QED BY <1>1 DEF Inv

LEMMA EmptyProgram ==
    ASSUME NEW c, NEW h, NEW eng, NEW a,
           c = [s \in Slots |-> NoObject], h = [s \in Slots |-> NoObject],
           eng = [e \in Engines |-> "free"], a = "ok"
    PROVE  /\ c \in [Slots -> Classes \cup {NoObject}]
           /\ h \in [Slots -> Engines \cup {Null, NoObject}]
           /\ \A s \in Slots : h[s] = NoObject <=> c[s] = NoObject
           /\ \A s \in Slots : h[s] \notin Engines
           /\ eng \in [Engines -> {"free", "live", "stateless", "lost"}]
           /\ \A e \in Engines : eng[e] = "free"
           /\ a \in {"ok", "refused", "fault"}
BY HandlesAssumption

LEMMA InitInv ==
    ASSUME Init
    PROVE  Inv
BY EmptyProgram DEF Init, Inv, TypeOK, SoleOwner, NothingLeaks

LEMMA StepInv ==
    ASSUME Inv, [Next]_vars
    PROVE  Inv'
<1>1. ASSUME NEW s \in Slots, NEW c \in Classes, NEW h, NEW e \in Engines,
             Construct(s, c, h, e)
      PROVE  Inv'
    BY <1>1, ConstructMakes, NewStateKeepsInv
<1>2. ASSUME NEW s \in Slots, NEW c \in Classes, NEW h, NEW e \in Engines,
             ConstructFails(s, c, h, e)
      PROVE  Inv'
    BY <1>2, ConstructFailsMakes, NewStateKeepsInv, EmptyObjectKeepsInv, QuietKeepsInv
<1>3. ASSUME NEW d \in Slots, NEW s \in Slots, MoveConstruct(d, s)
      PROVE  Inv'
    <2>1. /\ engine' \in [Engines -> {"free", "live", "stateless", "lost"}]
          /\ \A e \in Engines : e # held[d] => engine'[e] = engine[e]
          /\ \A e \in Engines : e = held[d] => engine'[e] = "free"
        BY <1>3, MoveConstructHandsOver DEF Inv, TypeOK
    <2> QED BY <1>3, <2>1, MoveConstructHandsOver, HandOverKeepsInv DEF Inv
<1>4. ASSUME NEW d \in Slots, NEW s \in Slots, MoveAssign(d, s)
      PROVE  Inv'
    <2>1. CASE d = s
        BY <1>4, <2>1, MoveAssignToItself, QuietKeepsInv
    <2>2. CASE d # s
        BY <1>4, <2>2, MoveAssignHandsOver, HandOverKeepsInv DEF Inv
    <2> QED BY <2>1, <2>2
<1>5. ASSUME NEW s \in Slots, Call(s)
      PROVE  Inv'
    BY <1>5, QuietKeepsInv DEF Call
<1>6. ASSUME NEW s \in Slots, Destroy(s)
      PROVE  Inv'
    BY <1>6, DestroyKeepsInv
<1>7. CASE Restart
    BY <1>7, EmptyProgram DEF Restart, Inv, TypeOK, SoleOwner, NothingLeaks
<1>8. CASE UNCHANGED vars
    BY <1>8, QuietKeepsInv DEF vars, Inv, TypeOK
<1> QED BY <1>1, <1>2, <1>3, <1>4, <1>5, <1>6, <1>7, <1>8 DEF Next
-----------------------------------------------------------------------------
(***************************************************************************)
(* The theorems.                                                           *)
(***************************************************************************)
THEOREM Invariance == Spec => []Inv
<1>1. Init => Inv
    BY InitInv
<1>2. Inv /\ [Next]_vars => Inv'
    BY StepInv
<1> QED BY <1>1, <1>2, PTL DEF Spec

(***************************************************************************)
(* However objects of all six classes are constructed, moved, assigned and *)
(* destroyed, by any number of variables, the pointers stay in their types *)
(* and no state is freed twice.                                            *)
(***************************************************************************)
THEOREM HandlesTypeCorrect == Spec => []TypeOK
<1>1. Inv => TypeOK
    BY DEF Inv
<1> QED BY <1>1, Invariance, PTL

(***************************************************************************)
(* No state ever has two owners, and no pointer outlives its state: the    *)
(* zlib handles' assignment leaks, but does no worse.                      *)
(***************************************************************************)
THEOREM StatesHaveOneOwner == Spec => []SoleOwner
<1>1. Inv => SoleOwner
    BY DEF Inv
<1> QED BY <1>1, Invariance, PTL

(***************************************************************************)
(* "the c api never leaks past this type" (backend.hpp), if no zlib handle *)
(* is assigned to.                                                         *)
(***************************************************************************)
THEOREM NoLeakUnlessZlibAssigned ==
    ASSUME FreeingOnly
    PROVE  Spec => []NothingLeaks
<1>1. Inv => NothingLeaks
    BY DEF Inv
<1> QED BY <1>1, Invariance, PTL

(***************************************************************************)
(* And then the handles and objects implement the contract: each operation *)
(* is one of its operations.                                               *)
(***************************************************************************)
Existing == {e \in Engines : engine[e] # "free"}

LEMMA StepRefines ==
    ASSUME Inv, FreeingOnly, [Next]_vars
    PROVE  [Contract!ONext]_<<held, Existing, answer>>
<1>1. ASSUME NEW s \in Slots, NEW c \in Classes, NEW h, NEW e \in Engines,
             Construct(s, c, h, e)
      PROVE  Contract!ONext
    <2>1. answer # "fault" /\ held[s] = NoObject /\ e \notin Existing
        BY <1>1, ConstructMakes DEF Construct, Running, Inv, TypeOK, Existing
    <2>2. Existing' = Existing \cup {e}
        BY <1>1, ConstructMakes DEF Inv, TypeOK, Existing
    <2>3. Contract!Create(s, e)
        BY <1>1, <2>1, <2>2, ConstructMakes DEF Contract!Create, Existing
    <2> QED BY <2>1, <2>3 DEF Contract!ONext
<1>2. ASSUME NEW s \in Slots, NEW c \in Classes, NEW h, NEW e \in Engines,
             ConstructFails(s, c, h, e)
      PROVE  Contract!ONext
    <2>1. answer # "fault"
        BY <1>2 DEF ConstructFails, Running
    <2>2. CASE engine' = [engine EXCEPT ![e] = "stateless"] /\ answer' = "ok"
               /\ held' = [held EXCEPT ![s] = e]
        <3>1. Existing' = Existing \cup {e} /\ e \notin Existing /\ held[s] = NoObject
            BY <1>2, <2>2, ConstructFailsMakes DEF Inv, TypeOK, Existing
        <3>2. Contract!Create(s, e)
            BY <2>2, <3>1 DEF Contract!Create, Existing
        <3> QED BY <2>1, <3>2 DEF Contract!ONext
    <2>3. CASE UNCHANGED engine /\ (\/ held' = [held EXCEPT ![s] = Null] /\ answer' = "ok"
                                    \/ UNCHANGED held /\ answer' = "fault")
        <3>1. Existing' = Existing /\ held[s] = NoObject
            BY <1>2, <2>3, ConstructFailsMakes DEF Existing
        <3>2. Contract!OutOfMemory(s)
            BY <2>3, <3>1 DEF Contract!OutOfMemory, Existing
        <3> QED BY <2>1, <3>2 DEF Contract!ONext
    <2> QED BY <1>2, <2>2, <2>3, ConstructFailsMakes
<1>3. ASSUME NEW d \in Slots, NEW s \in Slots, d # s, class[s] # NoObject, answer' = "ok",
             held' = [held EXCEPT ![d] = held[s], ![s] = Null], answer # "fault",
             \A e \in Engines : e # held[d] => engine'[e] = engine[e],
             \A e \in Engines : e = held[d] => engine'[e] = "free"
      PROVE  Contract!ONext
    <2>1. held[s] # NoObject
        BY <1>3, ObjectsHold
    <2>2. Existing' = Existing \ {held[d]}
        BY <1>3 DEF Existing
    <2>3. Contract!Move(d, s)
        BY <1>3, <2>1, <2>2 DEF Contract!Move, Existing
    <2> QED BY <1>3, <2>3 DEF Contract!ONext
<1>4. ASSUME NEW d \in Slots, NEW s \in Slots, MoveConstruct(d, s)
      PROVE  Contract!ONext
    <2>1. answer # "fault"
        BY <1>4 DEF MoveConstruct, Running
    <2>2. /\ \A e \in Engines : e # held[d] => engine'[e] = engine[e]
          /\ \A e \in Engines : e = held[d] => engine'[e] = "free"
        BY <1>4, MoveConstructHandsOver
    <2> QED BY <1>3, <1>4, <2>1, <2>2, MoveConstructHandsOver
<1>5. ASSUME NEW d \in Slots, NEW s \in Slots, MoveAssign(d, s)
      PROVE  Contract!ONext
    <2>1. answer # "fault"
        BY <1>5 DEF MoveAssign, Running
    <2>2. CASE d = s
        <3>1. held[s] # NoObject
            BY <1>5, <2>2, MoveAssignToItself, ObjectsHold
        <3>2. Existing' = Existing
            BY <1>5, <2>2, MoveAssignToItself DEF Existing
        <3>3. Contract!MoveToItself(s)
            BY <1>5, <2>2, <3>1, <3>2, MoveAssignToItself DEF Contract!MoveToItself, Existing
        <3> QED BY <2>1, <3>3 DEF Contract!ONext
    <2>3. CASE d # s
        BY <1>3, <1>5, <2>1, <2>3, MoveAssignHandsOver
    <2> QED BY <2>2, <2>3
<1>6. ASSUME NEW s \in Slots, Call(s)
      PROVE  Contract!ONext
    <2>1. answer # "fault" /\ held[s] # NoObject
        BY <1>6, ObjectsHold DEF Call, Running
    <2>2. held' = held /\ Existing' = Existing
        BY <1>6 DEF Call, Existing
    <2>3. IF held[s] = Null THEN answer' = "fault" ELSE answer' \in {"ok", "refused"}
        BY <1>6, ObjectsHold, HeldIsOwned DEF Call
    <2>4. Contract!Call(s)
        BY <2>1, <2>2, <2>3 DEF Contract!Call, Existing
    <2> QED BY <2>1, <2>4 DEF Contract!ONext
<1>7. ASSUME NEW s \in Slots, Destroy(s)
      PROVE  Contract!ONext
    <2>1. answer # "fault" /\ held[s] # NoObject /\ answer' = "ok"
        BY <1>7, ObjectsHold DEF Destroy, Running
    <2>2. Existing' = Existing \ {held[s]} /\ held' = [held EXCEPT ![s] = NoObject]
        BY <1>7, DestroyEnds DEF Destroy, Existing
    <2>3. Contract!Drop(s)
        BY <2>1, <2>2 DEF Contract!Drop, Existing
    <2> QED BY <2>1, <2>3 DEF Contract!ONext
<1>8. CASE Restart
    <2>1. Existing' = {}
        BY <1>8 DEF Restart, Existing
    <2>2. Contract!Restart
        BY <1>8, <2>1 DEF Restart, Contract!Restart, Existing
    <2> QED BY <2>2 DEF Contract!ONext
<1>9. CASE UNCHANGED vars
    BY <1>9 DEF vars, Existing
<1> QED BY <1>1, <1>2, <1>4, <1>5, <1>6, <1>7, <1>8, <1>9 DEF Next

\* Each move hands on the state the source had, an assignment frees the target's
\* and nothing else, and only calls through empty objects fail.
THEOREM HandlesImplementOwnership ==
    ASSUME FreeingOnly
    PROVE  Spec => ImplementsOwnership
<1>1. Init => Contract!OInit
    BY DEF Init, Contract!OInit
<1>2. Inv /\ [Next]_vars => [Contract!ONext]_<<held, Existing, answer>>
    BY StepRefines
<1>3. Spec => Contract!OInit /\ [][Contract!ONext]_<<held, Existing, answer>>
    BY <1>1, <1>2, Invariance, PTL DEF Spec
<1> QED BY <1>3, PTL DEF ImplementsOwnership, Contract!OSpec, Existing
=============================================================================
