------------------------------ MODULE MCProcessing ------------------------------
(***************************************************************************)
(* A node that processes arrays: what it negotiates and the buffers it     *)
(* fills, and the controls of its Props.  The two have no state in common, *)
(* so that a control is only sent while there is no format: nothing either *)
(* of them can show is lost.                                               *)
(***************************************************************************)
EXTENDS NdArrays, Controls

\* 31 * 4 elements of 32 bytes are more than UsizeMax, 31 * 31 * 31 elements of
\* any size are, and 40 is no i32.  An offer can be refused for each reason.
MCElements == {"U8", "F32Le", "ComplexF128Le", "Unknown"}
MCShapes == {<<>>, <<0>>, <<3>>, <<40>>, <<2, 3>>, <<31, 4>>, <<31, 31, 31>>}
MCLayouts == {"RowMajor", "ColumnMajor", "Unknown"}
MCRates == {<<0, 1>>, <<2, 2>>}
MCRateChoices == {[kind |-> "Enum", values |-> v] :
                     v \in {<<>>, <<<<2, 1>>>>, <<<<1, 0>>>>}}
                 \cup {[kind |-> "Range", values |-> v] :
                          v \in {<<<<1, 2>>, <<2, 1>>>>, <<<<2, 1>>, <<1, 2>>>>}}
                 \cup {[kind |-> "Step", values |-> <<<<1, 2>>, <<2, 2>>, s>>] :
                          s \in {<<1, 2>>, <<0, 1>>}}
MCAlternatives == {<<>>, <<"F32Le", "ComplexF128Le">>, <<"U8", "Unknown">>}
MCLayoutLists == {<<>>, <<"ColumnMajor">>, <<"RowMajor", "Unknown">>}

\* Whole F32Le matrices: too far into the data or not, misaligned or not, with
\* the stride, none, or a wrong one; and one marked empty.
MCChunks == {[offset |-> c[1], size |-> 24, stride |-> c[2], flags |-> c[3]] :
                c \in {<<1, 12, {}>>, <<16, 12, {}>>, <<62, 0, {}>>, <<30, 0, {}>>,
                       <<0, 4, {}>>, <<0, 12, {"EMPTY"}>>}}

MCTokens == {-1, 0, 1, 2}
MCResults == {0, -5}

ProcessingInit == Init /\ ControlInit

ProcessingNext ==
    \/ Next /\ message = NoMessage /\ UNCHANGED controlVars
    \/ offer = <<>> /\ buffer = <<>> /\ ControlNext /\ UNCHANGED vars

ProcessingSpec == ProcessingInit /\ [][ProcessingNext]_<<vars, controlVars>>

=============================================================================
