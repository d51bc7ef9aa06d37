---------------------------- MODULE MC_ModbusHost ----------------------------
EXTENDS ModbusHost
====
