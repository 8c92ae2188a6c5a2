------------------------------ MODULE MCBuild ------------------------------
(***************************************************************************)
(* Instances of Build with two units and two workers, and the combinations *)
(* of what may happen in one behaviour.                                    *)
(***************************************************************************)
EXTENDS Build

Everyday == {{"error", "arFails"}, {"library", "arFails"}, {"error", "refers"},
             {"library", "refers"}}
Faults == {{"toolFails", "crash"}, {"error", "toolFails", "library"},
           {"compile"}, {"library", "projectFails"}, {"longPath", "arFails"},
           {"longPath", "crash"}}
MCEvents == Everyday \cup Faults
===========================================================================
