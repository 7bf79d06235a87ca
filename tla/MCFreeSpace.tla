---------------------------- MODULE MCFreeSpace ----------------------------
(* Small instances of FreeSpace for TLC. *)
EXTENDS FreeSpace

\* Others use up and give back one byte or one inode at a time; what they do
\* at once is what they do in several steps.
SmallSteps ==
    <<run, mtime>>' = <<run, mtime>> =>
      <<free' - free, ifree' - ifree>> \in
         {<<0, 0>>, <<1, 0>>, <<0, 1>>, <<-1, 0>>, <<0, -1>>}
=============================================================================
