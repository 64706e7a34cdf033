----------------------------- MODULE MCDatabase -----------------------------
(* Instances of SQLiteContract for TLC.                                     *)
EXTENDS SQLiteContract

CONSTANTS d1, d2, n1, p1, s1, s2

\* No client sends a URI.
MCParsed == <<>>

MCNamespace == <<"r", "u", "n">>

\* One RunID, which an old SampleRunID equals; another SampleRunID is the namespace.
MCRuns == {<<"x">>}

MCAttempts == {<<<<"n">>, <<"1">>>>}

MCOutputs == {<<"o">>}

MCKey == [run |-> <<"x">>, attempt |-> <<<<"n">>, <<"1">>>>, output |-> <<"o">>]

Local == [kind |-> "node_local", node |-> n1, path |-> p1]

Produced(d) == [digest |-> d, node |-> n1, uri |-> "", locations |-> <<Local>>, size |-> 1]

MCOffers == {Produced(""), Produced(d1), Produced(d2)}

Copy(st) == [owner |-> MCKey, backend |-> "node-local-default", digest |-> d1,
             state |-> st, loc |-> Local]

Put(id, st) == [id |-> id, src |-> Copy(st)]

\* One source; two of which the second may belong to a legacy artifact; an update.
MCSourceCalls == {<<Put(s1, "ready")>>, <<Put(s1, "ready"), Put(s2, "ready")>>, <<Put(s1, "stale")>>}

LegacyKey(sample) == LegacyArtifactKeyString(sample, <<"n">>, <<"1">>, <<"o">>)

MCSampleRunIDs == {<<"x">>, MCNamespace}

LegacyTerminal == LegacyNodeAttemptKeyString(<<"x">>, <<"n">>, <<"1">>)

Fresh ==
    [tables |-> {}, columns |-> {}, version |-> "", counts |-> None, sampleLifecycles |-> {},
     artifacts |-> [key \in ArtifactRows |-> None], sources |-> [id \in SourceIDs |-> None],
     terminals |-> [key \in TerminalRows |-> None], lifecycles |-> [r \in Runs |-> None]]

\* A file of the last binary before RunIDs, with rows, and some of the later columns.
PreRunID(cols) ==
    [Fresh EXCEPT
        !.tables = {"artifacts", "artifact_sources", "node_terminals", "sample_run_lifecycles"},
        !.columns = cols,
        !.sampleLifecycles = {<<"x">>},
        !.artifacts = [key \in ArtifactRows |->
            IF key \in LegacyArtifactKeys
            THEN [run_id |-> <<>>, artifact_id |-> key, art |-> Produced("")] ELSE None],
        !.sources[s2] = [artifact_id |-> LegacyKey(<<"x">>), backend |-> "node-local-default",
                         digest |-> d1, state |-> "ready", loc |-> Local],
        !.terminals[LegacyTerminal] = [run_id |-> <<>>, state |-> "Failed"]]

Stamped(v) == [PreRunID({}) EXCEPT !.tables = @ \cup {"ah_schema_meta"}, !.version = v]

MCInitialFiles ==
    {Fresh, PreRunID({}), PreRunID({AlterTable[1], AlterTable[3]}), Stamped("3"), Stamped("unreadable")}

MCChar == {"/", " ", "r", "u", "n", "x", "1", "o"}
=============================================================================
