-------------------------- MODULE MCLoaderCommand --------------------------
EXTENDS LoaderCommand

MCWarmRates == {Rate(0, 1), Rate(1, 1), Rate(3, 2)}
MCColdRates == {Rate(0, 1), Rate(1, 1), Rate(2, 1), Rate(3, 1), Rate(3, 2), Rate(1, 2), Rate(2, 3)}
=============================================================================
