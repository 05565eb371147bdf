--------------------------- MODULE MCMultiLoader ----------------------------
(* A grid sweep over two options; two traces, and a study of one experiment;      *)
(* a linear sweep over a trace directory; an empty trace directory, and an option *)
(* with a single value; a linear sweep with different lengths; a study without a  *)
(* trace; an option without values.                                               *)
EXTENDS MultiLoader

MCStudyLists ==
  { <<Study(NoDir, 0, TRUE, <<2, 2>>, "")>>,
    <<Study(NoDir, 2, FALSE, <<>>, "grid"), Study(NoDir, 0, TRUE, <<>>, "")>>,
    <<Study(2, 0, FALSE, <<2, 2>>, "linear")>>,
    <<Study(0, 0, FALSE, <<2>>, "grid"), Study(NoDir, 0, TRUE, <<2, 1>>, "grid")>>,
    <<Study(NoDir, 0, TRUE, <<2, 1>>, "linear")>>,
    <<Study(NoDir, 0, FALSE, <<>>, "")>>,
    <<Study(NoDir, 0, TRUE, <<2, 0>>, "")>> }

MCMetricChoices == {{}, {"activator", "prometheus"}, Metrics}
=============================================================================
