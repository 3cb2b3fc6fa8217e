-------------------------- MODULE IndexRunInvariant --------------------------
(***************************************************************************)
(* The inductive invariant of IndexRun behind its database properties.     *)
(***************************************************************************)
EXTENDS IndexRun

\* Chunks of the open transaction that are still to be embedded.
Waiting == IF pc = "embed" THEN todo \cup Buffered ELSE {}

\* What the buffer and the to-do list of the embeddings pass refer to.
BufferMatchesChunks ==
    /\ pc \in {"dispatch", "structural", "chunker"} => embedBuf = NothingBuffered
    /\ pc = "embed" =>
         \A c \in ChunkIds :
            /\ c \in todo => tx.chunks[c] # Null
            /\ embedBuf[c] # Null =>
                 tx.chunks[c] # Null /\ tx.chunks[c].text = embedBuf[c]

\* Once the gate is passed, the stored fingerprint is this binary's.
GatePassed ==
    pc \in {"loop", "summary"} \cup FilePcs =>
        scheme # Null /\ db.fp = scheme /\ tx.fp = scheme

\* The process variables that a step relies on are set when it runs.
InHand ==
    /\ pc # "idle" => scheme # Null
    /\ pc \in {"classify"} \cup FilePcs => cur \in Files
    /\ pc = "classify" => hash \in Contents
    /\ pc \in {"structural", "chunker"} => body \in Contents

IndexInvariant ==
    /\ TypeOK
    /\ InHand
    /\ pc \notin FilePcs => tx = db
    /\ Sound(db)
    /\ Sound(tx)
    /\ VectorsMissingOnly(db, {})
    /\ VectorsMissingOnly(tx, Waiting)
    /\ BufferMatchesChunks
    /\ GatePassed
=============================================================================
