----------------------------- MODULE MCExperiment -----------------------------
EXTENDS Experiment
===============================================================================
