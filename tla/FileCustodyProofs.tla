-------------------------- MODULE FileCustodyProofs -------------------------
(***************************************************************************)
(* What FileCustody guarantees, and with it everything that implements it. *)
(***************************************************************************)
EXTENDS FileCustody, TLAPS

CustodyTypeOK ==
    /\ custody \in [Files -> {"none", "accepted", "held", "released", "purged"}]
    /\ due \subseteq Files

\* A file that is held is stored, or it, or one of the same content, may go.
HeldStored ==
    \A f \in Files :
        custody[f] = "held" => ContentOf[f] \in stored \/ Droppable(f) \/ TakenAlong(f)

CustodyInv == CustodyTypeOK /\ HeldStored

LEMMA CustodyTyped == CustodyTypeOK /\ [CustodyNext]_custodyVars => CustodyTypeOK'
BY DEF CustodyTypeOK, CustodyNext, AcceptFile, StoreFile, HoldFile, BecomeDue, DropContent,
       ReleaseFile, PurgeRecords, custodyVars

\* What may go may still go later: custody goes one way and due files stay due.
LEMMA DroppableStays ==
    ASSUME CustodyTypeOK, [CustodyNext]_custodyVars, NEW f \in Files, Droppable(f)
    PROVE  Droppable(f)'
BY DEF CustodyTypeOK, Droppable, CustodyNext, AcceptFile, StoreFile, HoldFile, BecomeDue,
       DropContent, ReleaseFile, PurgeRecords, custodyVars

LEMMA HeldStoredNext ==
    ASSUME CustodyInv, [CustodyNext]_custodyVars
    PROVE  HeldStored'
<1> SUFFICES ASSUME NEW f \in Files, custody'[f] = "held"
             PROVE  ContentOf[f] \in stored' \/ Droppable(f)' \/ TakenAlong(f)'
    BY DEF HeldStored, Droppable, TakenAlong
<1> USE DEF CustodyInv
<1>1. TakenAlong(f) => TakenAlong(f)'
    BY DroppableStays DEF TakenAlong
<1>2. CASE custody[f] = "held"
    <2>1. ContentOf[f] \in stored \/ Droppable(f) \/ TakenAlong(f)
        BY <1>2 DEF HeldStored
    <2>2. CASE ContentOf[f] \in stored
        <3>1. ASSUME NEW g \in Files, DropContent(g), ContentOf[g] = ContentOf[f]
              PROVE  Droppable(f)' \/ TakenAlong(f)'
            <4>1. Droppable(g)'
                BY <3>1, DroppableStays DEF DropContent
            <4>2. QED
                BY <3>1, <4>1 DEF TakenAlong
        <3>2. QED
            BY <2>2, <3>1 DEF CustodyNext, AcceptFile, StoreFile, HoldFile, BecomeDue,
                   DropContent, ReleaseFile, PurgeRecords, custodyVars
    <2>3. QED
        BY <1>1, <2>1, <2>2, DroppableStays
<1>3. CASE custody[f] # "held"
    <2>1. HoldFile(f)
        BY <1>3 DEF CustodyTypeOK, CustodyNext, AcceptFile, StoreFile, HoldFile, BecomeDue,
               DropContent, ReleaseFile, PurgeRecords, custodyVars
    <2>2. QED
        BY <1>1, <2>1 DEF HoldFile
<1>4. QED
    BY <1>2, <1>3

\* A file recorded as waiting keeps its content until its own release is due,
\* or that of a saved file with the same content: the promise of FileCustody,
\* of which every behaviour of the service is one.
THEOREM HeldKept == CustodySpec => []HeldStored
<1>1. CustodyInit => CustodyInv
    BY DEF CustodyInit, CustodyInv, CustodyTypeOK, HeldStored
<1>2. CustodyInv /\ [CustodyNext]_custodyVars => CustodyInv'
    BY CustodyTyped, HeldStoredNext DEF CustodyInv
<1>3. QED
    BY <1>1, <1>2, PTL DEF CustodySpec, CustodyInv
=============================================================================
