---------------------------- MODULE MCContentStore ----------------------------
(* ContentStore on small instances: two contents that share a chunk.       *)
EXTENDS ContentStore, TLC

MCHash == {"h1", "h2"}
MCChunk == {"c1", "c2"}
MCChunksOf == ("h1" :> <<"c1", "c2">>) @@ ("h2" :> <<"c2">>)

Ids == Permutations(FileId) \cup Permutations(ContentId)
IdsAndWorkers == Ids \cup Permutations(Worker)

(* Bound: once threads have overlapped, one content id is kept unused. *)
OneIdLeft ==
    regime = "serial" \/
    Cardinality({k \in ContentId : FreshContent(k)}) >
        Cardinality({p \in Proc : job[p].pc \in (UploadPc \ {"fill"}) \cup LinkPc})
===============================================================================
