----------------------------- MODULE MCRelease ------------------------------
(***************************************************************************)
(* Instances of Release for TLC: hosts with and without Paddle, its newer  *)
(* program format, the toolkit, a card and CUDA.                           *)
(***************************************************************************)
EXTENDS Release

Host(paddle, program, toolkit, card, cuda, chip) ==
    [paddle |-> paddle, x2paddle |-> paddle # "none", program |-> program, toolkit |-> toolkit,
     card |-> card, cuda |-> cuda, chip |-> chip, sdk |-> card]

MCHosts == {Host("none", "pdmodel", "none", FALSE, TRUE, TRUE),
            Host("cpu", "pdmodel", "none", FALSE, FALSE, TRUE),
            Host("xpu", "pdmodel", "none", TRUE, FALSE, TRUE),
            Host("xpu", "pdmodel", "none", FALSE, FALSE, TRUE),
            Host("xpu", "json", "full", TRUE, FALSE, FALSE),
            Host("none", "pdmodel", "full", TRUE, FALSE, TRUE),
            Host("none", "pdmodel", "empty", FALSE, FALSE, FALSE)}

Model(status, registered) == [status |-> status, registered |-> registered]
MCModels == {Model("stable", TRUE), Model("planned", TRUE), Model("experimental", FALSE)}

Does(cpu, xpu) == [d \in Devices |-> IF d = "xpu" THEN xpu ELSE cpu]
MCBehaviours == {Does("agrees", "agrees"), Does("agrees", "differs"), Does("differs", "raises")}

Stage(path, adapter, required) ==
    [path |-> path, adapter |-> adapter, device |-> "auto", required |-> required]
MCChains == {<<Stage("onnx", "stub", FALSE), Stage("pdmodel", "paddle", r), Stage("xpu", "xpuctl", s)>> :
                r, s \in BOOLEAN}
============================================================================
